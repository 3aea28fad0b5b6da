------------------------ MODULE IdentityDatabaseProofs -----------------------
(***************************************************************************)
(* The keys of the backbone and the identities, for any number of cells    *)
(* and links and any number of commands that die at any step: packages fit *)
(* together, no key outlives its link, and a cell keeps its identity,      *)
(* although its files are copied one by one.                               *)
(***************************************************************************)
EXTENDS IdentityDatabase, TLAPS

Steps == {"none", "drop_keys", "drop_psks", "save", "assert", "package"}

\* The variables of BackboneKeys have their types.
TypeInv ==
    /\ edges \subseteq Pairs
    /\ keys \in [Pairs -> Seq(Nat)]
    /\ psks \in [Pairs -> Nat]
    /\ made \in [Pairs -> [1..3 -> Nat]]
    /\ cmd \in [step : Steps, kind : {"redeploy", "other", "none"}, edges : SUBSET Pairs,
                keys : [Pairs -> Seq(Nat)], psks : [Pairs -> Nat],
                changed : BOOLEAN, todo : SUBSET Cells]
    /\ DOMAIN packages = Cells

\* What the maps in memory have to do with the rows, at each step.
MapsMatchRows ==
    /\ cmd.step = "drop_keys" => cmd.keys = keys /\ cmd.psks = psks
    /\ cmd.step = "drop_psks" => cmd.keys = NoKeys /\ keys = NoKeys /\ cmd.psks = psks
    /\ cmd.step = "save" =>
        cmd.keys = NoKeys /\ keys = NoKeys /\ cmd.psks = NoPsks /\ psks = NoPsks
    /\ cmd.step = "assert" =>
        /\ cmd.edges = edges /\ cmd.psks = psks
        /\ \A q \in Pairs : cmd.keys[q] = keys[q] \/ Halfway(q)
    /\ cmd.step = "package" =>
        /\ cmd.edges = edges /\ cmd.psks = psks /\ cmd.keys = keys
        /\ \A q \in edges : keys[q] # <<>> /\ psks[q] # NoKey

\* While packages are written, they are made from the same maps.
PackagesMatchMaps ==
    cmd.step = "package" =>
        \A c \in Cells : packages[c] = IF c \in cmd.todo THEN NoPackage ELSE peer_material(c)

\* A redeployment has both keys of a link in its map, or none.
RedeployHasPairs ==
    cmd.kind = "redeploy" /\ cmd.step \in {"drop_psks", "save", "assert"} =>
        \A q \in Pairs : cmd.keys[q] = <<>> \/ Len(cmd.keys[q]) = 2

\* "last" tells whether a command is running.
LastMatches ==
    /\ cmd.step # "none" => last.how = "running" /\ last.kind = cmd.kind
    /\ cmd.step = "none" => last.how # "running"

BInv ==
    /\ TypeInv /\ MapsMatchRows /\ PackagesMatchMaps /\ RedeployHasPairs /\ LastMatches
    /\ StoredAreDeployed /\ PackagesFit /\ RedeployRepairs

-----------------------------------------------------------------------------
\* The material of the two ends of a link is two views of the same keys.
LEMMA MaterialAgrees ==
    ASSUME NEW q \in Pairs, q \in DOMAIN peer_material(q[1]), q \in DOMAIN peer_material(q[2]),
           cmd.psks[q] # NoKey
    PROVE  Agree(peer_material(q[1]), peer_material(q[2]), q)
  <1>1. q[1] \in Nat /\ q[2] \in Nat /\ q[1] < q[2]
    BY BackboneAssumption
  <1>2. peer_material(q[1])[q] =
          [own |-> cmd.keys[q][1], other |-> cmd.keys[q][2], psk |-> cmd.psks[q]]
    BY <1>1, SMTT(30) DEF peer_material, pick, pair_key
  <1>3. peer_material(q[2])[q] =
          [own |-> cmd.keys[q][2], other |-> cmd.keys[q][1], psk |-> cmd.psks[q]]
    BY <1>1, SMTT(30) DEF peer_material, pick, pair_key
  <1> QED
    BY <1>2, <1>3 DEF Agree

LEMMA BInit == Init => BInv
  <1> SUFFICES ASSUME Init PROVE BInv
    OBVIOUS
  <1> USE DEF Init, NoCommand, NoKeys, NoPsks, NoKey, NoPackage
  <1>1. TypeInv
    <2>1. <<0, 0, 0>> \in [1..3 -> Nat]
      OBVIOUS
    <2> QED
      BY <2>1 DEF TypeInv, Steps
  <1>2. MapsMatchRows /\ PackagesMatchMaps /\ RedeployHasPairs /\ LastMatches
    BY DEF MapsMatchRows, PackagesMatchMaps, RedeployHasPairs, LastMatches
  <1>3. StoredAreDeployed /\ RedeployRepairs
    BY DEF StoredAreDeployed, RedeployRepairs
  <1>4. PackagesFit
    BY BackboneAssumption DEF PackagesFit
  <1> QED
    BY <1>1, <1>2, <1>3, <1>4 DEF BInv

-----------------------------------------------------------------------------
(* The steps of a command preserve the invariant.                          *)

\* A command that ends before it writes its last package.
LEMMA EndStep ==
    ASSUME BInv, ~Step("none"), UNCHANGED <<rows, packages>>,
           NEW how, how \notin {"ok", "running"}, Ends(how),
           how = "IndexError" => cmd.kind # "redeploy"
    PROVE  BInv'
  <1> USE DEF BInv, Ends, rows, Step
  <1>1. TypeInv'
    BY DEF TypeInv, NoCommand, Steps, NoKeys, NoPsks, NoKey
  <1>2. MapsMatchRows' /\ PackagesMatchMaps' /\ RedeployHasPairs' /\ LastMatches'
    BY DEF MapsMatchRows, PackagesMatchMaps, RedeployHasPairs, LastMatches, NoCommand
  <1>3. StoredAreDeployed' /\ RedeployRepairs'
    BY DEF StoredAreDeployed, RedeployRepairs
  <1>4. PackagesFit'
    BY DEF PackagesFit, Agree
  <1> QED
    BY <1>1, <1>2, <1>3, <1>4

LEMMA StartStep ==
    ASSUME BInv, NEW kind \in {"redeploy", "other", "none"}, NEW E \in SUBSET Pairs, Start(kind, E)
    PROVE  BInv'
  <1> USE DEF BInv, Start, rows, Step
  <1>1. TypeInv'
    BY DEF TypeInv, Steps
  <1>2. MapsMatchRows'
    BY DEF MapsMatchRows, TypeInv
  <1>3. PackagesMatchMaps' /\ RedeployHasPairs' /\ LastMatches'
    BY DEF PackagesMatchMaps, RedeployHasPairs, LastMatches
  <1>4. StoredAreDeployed' /\ RedeployRepairs'
    BY DEF StoredAreDeployed, RedeployRepairs
  <1>5. PackagesFit'
    BY DEF PackagesFit, Agree
  <1> QED
    BY <1>1, <1>2, <1>3, <1>4, <1>5

LEMMA DropPairKeysStep == BInv /\ DropPairKeys => BInv'
  <1> SUFFICES ASSUME BInv, DropPairKeys PROVE BInv'
    OBVIOUS
  <1> USE DEF BInv, DropPairKeys, Step
  <1>0. keys' = NoKeys
    BY DEF MapsMatchRows, NoKeys
  <1>1. TypeInv'
    <2>1. NoKeys \in [Pairs -> Seq(Nat)]
      BY DEF NoKeys
    <2> QED
      BY <1>0, <2>1 DEF TypeInv, Steps
  <1>2. MapsMatchRows'
    BY <1>0 DEF MapsMatchRows, TypeInv
  <1>3. PackagesMatchMaps' /\ RedeployHasPairs' /\ LastMatches'
    BY DEF PackagesMatchMaps, RedeployHasPairs, LastMatches, TypeInv, NoKeys
  <1>4. StoredAreDeployed' /\ RedeployRepairs'
    BY <1>0 DEF StoredAreDeployed, RedeployRepairs, NoKeys
  <1>5. PackagesFit'
    BY DEF PackagesFit, Agree, LastMatches
  <1> QED
    BY <1>1, <1>2, <1>3, <1>4, <1>5

LEMMA DropPsksStep == BInv /\ DropPsks => BInv'
  <1> SUFFICES ASSUME BInv, DropPsks PROVE BInv'
    OBVIOUS
  <1> USE DEF BInv, DropPsks, Step
  <1>0. psks' = NoPsks
    BY DEF MapsMatchRows, NoPsks
  <1>1. TypeInv'
    <2>1. NoPsks \in [Pairs -> Nat]
      BY DEF NoPsks, NoKey
    <2> QED
      BY <1>0, <2>1 DEF TypeInv, Steps
  <1>2. MapsMatchRows'
    BY <1>0 DEF MapsMatchRows, TypeInv
  <1>3. PackagesMatchMaps' /\ RedeployHasPairs' /\ LastMatches'
    BY DEF PackagesMatchMaps, RedeployHasPairs, LastMatches, TypeInv
  <1>4. StoredAreDeployed' /\ RedeployRepairs'
    BY <1>0 DEF StoredAreDeployed, RedeployRepairs, NoPsks, NoKey
  <1>5. PackagesFit'
    BY DEF PackagesFit, Agree, LastMatches
  <1> QED
    BY <1>1, <1>2, <1>3, <1>4, <1>5

LEMMA SaveDeploymentStep == BInv /\ SaveDeployment => BInv'
  <1> SUFFICES ASSUME BInv, SaveDeployment PROVE BInv'
    OBVIOUS
  <1> USE DEF BInv, SaveDeployment, Step, Goes
  <1>1. TypeInv'
    BY DEF TypeInv, Steps
  <1>2. MapsMatchRows'
    BY DEF MapsMatchRows, TypeInv
  <1>3. PackagesMatchMaps' /\ RedeployHasPairs' /\ LastMatches'
    BY DEF PackagesMatchMaps, RedeployHasPairs, LastMatches, TypeInv
  <1>4. StoredAreDeployed' /\ RedeployRepairs'
    BY DEF StoredAreDeployed, RedeployRepairs, MapsMatchRows, NoKeys, NoPsks, NoKey
  <1>5. PackagesFit'
    BY DEF PackagesFit, Agree, LastMatches
  <1> QED
    BY <1>1, <1>2, <1>3, <1>4, <1>5

\* The map of a link gets both keys, or none and the link is halfway.
LEMMA MakeKeyStep ==
    ASSUME BInv, NEW q \in Pairs, MakeKey(q)
    PROVE  BInv'
  <1> USE DEF BInv, Step
  <1> DEFINE i == Len(keys[q]) + 1
  <1> DEFINE new == Append(keys[q], Next_number(q, i))
  <1>0. /\ cmd.step = "assert" /\ q \in cmd.edges /\ cmd.keys[q] = <<>>
        /\ \A r \in Pairs \ {q} : ~Halfway(r)
        /\ keys' = [keys EXCEPT ![q] = new]
        /\ made' = [made EXCEPT ![q][i] = @ + 1]
        /\ cmd' = [cmd EXCEPT !.keys[q] = IF i = 2 THEN new ELSE <<>>, !.changed = TRUE]
        /\ edges' = edges /\ psks' = psks /\ packages' = packages /\ last' = last
    BY DEF MakeKey
  <1>1. keys \in [Pairs -> Seq(Nat)] /\ made \in [Pairs -> [1..3 -> Nat]]
    BY DEF TypeInv
  <1>2. i \in {1, 2}
    <2>1. CASE keys[q] = <<>>
      BY <2>1
    <2>2. CASE keys[q] # <<>>
      <3>1. Halfway(q)
        BY <2>2, <1>0 DEF MapsMatchRows
      <3> QED
        BY <3>1 DEF Halfway
    <2> QED
      BY <2>1, <2>2
  <1>3. new \in Seq(Nat) /\ Len(new) = i
    BY <1>1, <1>2 DEF Next_number
  <1>4. keys' \in [Pairs -> Seq(Nat)] /\ made' \in [Pairs -> [1..3 -> Nat]]
    <2>1. keys' \in [Pairs -> Seq(Nat)]
      BY <1>0, <1>1, <1>3
    <2>2. made[q] \in [1..3 -> Nat] /\ made[q][i] \in Nat /\ i \in 1..3
      BY <1>1, <1>2
    <2>3. [made[q] EXCEPT ![i] = @ + 1] \in [1..3 -> Nat]
      BY <2>2, SMTT(30)
    <2>4. made' = [made EXCEPT ![q] = [made[q] EXCEPT ![i] = @ + 1]]
      BY <1>0
    <2> QED
      BY <1>1, <2>1, <2>3, <2>4
  <1>5. (IF i = 2 THEN new ELSE <<>>) \in Seq(Nat)
    BY <1>3
  <1> HIDE DEF i, new
  <1>6. /\ cmd'.step = "assert" /\ cmd'.kind = cmd.kind /\ cmd'.edges = cmd.edges
        /\ cmd'.psks = cmd.psks /\ cmd'.todo = cmd.todo /\ cmd'.changed = TRUE
        /\ cmd'.keys = [cmd.keys EXCEPT ![q] = IF i = 2 THEN new ELSE <<>>]
    BY <1>0 DEF TypeInv
  <1>7. TypeInv'
    <2>1. cmd'.keys \in [Pairs -> Seq(Nat)]
      BY <1>5, <1>6 DEF TypeInv
    <2>2. cmd' = [step |-> cmd'.step, kind |-> cmd'.kind, edges |-> cmd'.edges, keys |-> cmd'.keys,
                  psks |-> cmd'.psks, changed |-> cmd'.changed, todo |-> cmd'.todo]
      BY <1>0 DEF TypeInv
    <2> QED
      BY <1>0, <1>4, <1>6, <2>1, <2>2 DEF TypeInv, Steps
  <1>8. MapsMatchRows'
    <2>1. ASSUME NEW r \in Pairs PROVE cmd'.keys[r] = keys'[r] \/ Halfway(r)'
      <3>1. CASE r = q
        BY <3>1, <1>0, <1>1, <1>2, <1>3, <1>6 DEF Halfway, TypeInv
      <3>2. CASE r # q
        BY <3>2, <1>0, <1>1, <1>6 DEF Halfway, TypeInv, MapsMatchRows
      <3> QED
        BY <3>1, <3>2
    <2> QED
      BY <2>1, <1>0, <1>6 DEF MapsMatchRows
  <1>9. PackagesMatchMaps' /\ LastMatches'
    BY <1>0, <1>6 DEF PackagesMatchMaps, LastMatches
  <1>10. RedeployHasPairs'
    BY <1>0, <1>3, <1>6 DEF RedeployHasPairs, TypeInv
  <1>11. StoredAreDeployed' /\ RedeployRepairs'
    BY <1>0, <1>1 DEF StoredAreDeployed, RedeployRepairs, MapsMatchRows
  <1>12. PackagesFit'
    BY <1>0 DEF PackagesFit, Agree
  <1> QED
    BY <1>7, <1>8, <1>9, <1>10, <1>11, <1>12

LEMMA MakePskStep ==
    ASSUME BInv, NEW q \in Pairs, MakePsk(q)
    PROVE  BInv'
  <1> USE DEF BInv, Step
  <1> DEFINE n == Next_number(q, 3)
  <1>0. /\ cmd.step = "assert" /\ q \in cmd.edges
        /\ psks' = [psks EXCEPT ![q] = n]
        /\ made' = [made EXCEPT ![q][3] = @ + 1]
        /\ cmd' = [cmd EXCEPT !.psks[q] = n, !.changed = TRUE]
        /\ edges' = edges /\ keys' = keys /\ packages' = packages /\ last' = last
    BY DEF MakePsk
  <1>1. psks \in [Pairs -> Nat] /\ made \in [Pairs -> [1..3 -> Nat]]
    BY DEF TypeInv
  <1>2. n \in Nat
    BY <1>1 DEF Next_number
  <1> HIDE DEF n
  <1>3. psks' \in [Pairs -> Nat] /\ made' \in [Pairs -> [1..3 -> Nat]]
    <2>1. psks' \in [Pairs -> Nat]
      BY <1>0, <1>1, <1>2
    <2>2. made[q] \in [1..3 -> Nat] /\ made[q][3] \in Nat
      BY <1>1
    <2>3. [made[q] EXCEPT ![3] = @ + 1] \in [1..3 -> Nat]
      BY <2>2
    <2>4. made' = [made EXCEPT ![q] = [made[q] EXCEPT ![3] = @ + 1]]
      BY <1>0
    <2> QED
      BY <1>1, <2>1, <2>3, <2>4
  <1>4. /\ cmd'.step = "assert" /\ cmd'.kind = cmd.kind /\ cmd'.edges = cmd.edges
        /\ cmd'.keys = cmd.keys /\ cmd'.todo = cmd.todo /\ cmd'.changed = TRUE
        /\ cmd'.psks = [cmd.psks EXCEPT ![q] = n]
    BY <1>0 DEF TypeInv
  <1>5. TypeInv'
    <2>1. cmd'.psks \in [Pairs -> Nat]
      BY <1>2, <1>4 DEF TypeInv
    <2>2. cmd' = [step |-> cmd'.step, kind |-> cmd'.kind, edges |-> cmd'.edges, keys |-> cmd'.keys,
                  psks |-> cmd'.psks, changed |-> cmd'.changed, todo |-> cmd'.todo]
      BY <1>0 DEF TypeInv
    <2> QED
      BY <1>0, <1>3, <1>4, <2>1, <2>2 DEF TypeInv, Steps
  <1>6. MapsMatchRows'
    BY <1>0, <1>4 DEF MapsMatchRows, Halfway
  <1>7. PackagesMatchMaps' /\ LastMatches' /\ RedeployHasPairs'
    BY <1>0, <1>4 DEF PackagesMatchMaps, LastMatches, RedeployHasPairs
  <1>8. StoredAreDeployed' /\ RedeployRepairs'
    BY <1>0, <1>1 DEF StoredAreDeployed, RedeployRepairs, MapsMatchRows
  <1>9. PackagesFit'
    BY <1>0 DEF PackagesFit, Agree
  <1> QED
    BY <1>5, <1>6, <1>7, <1>8, <1>9

\* A redeployment has both keys of the link, so it is not the one that fails.
LEMMA AssertRaisesStep ==
    ASSUME BInv, NEW q \in Pairs, AssertRaises(q)
    PROVE  BInv'
  <1>1. cmd.kind # "redeploy"
    BY DEF BInv, AssertRaises, RedeployHasPairs, Step
  <1>2. ~Step("none") /\ Ends("IndexError") /\ UNCHANGED <<rows, packages>>
    BY DEF AssertRaises, Step
  <1> QED
    BY <1>1, <1>2, EndStep

\* When all links have their keys, no map is halfway, so the maps are the rows.
LEMMA AssertDoneStep == BInv /\ AssertDone => BInv'
  <1> SUFFICES ASSUME BInv, AssertDone PROVE BInv'
    OBVIOUS
  <1>1. CASE ~cmd.changed
    <2>1. ~Step("none") /\ Ends("unchanged") /\ UNCHANGED <<rows, packages>>
      BY <1>1 DEF AssertDone, Step
    <2> QED
      BY <2>1, EndStep
  <1>2. CASE cmd.changed
    <2> USE DEF BInv, Step
    <2>1. /\ cmd.step = "assert"
          /\ \A q \in cmd.edges : Len(cmd.keys[q]) = 2 /\ cmd.psks[q] # NoKey
          /\ packages' = [c \in Cells |-> NoPackage]
          /\ cmd' = [cmd EXCEPT !.step = "package", !.todo = Cells]
          /\ last' = last /\ edges' = edges /\ keys' = keys /\ psks' = psks /\ made' = made
      BY <1>2 DEF AssertDone, rows
    <2>2. /\ cmd'.step = "package" /\ cmd'.kind = cmd.kind /\ cmd'.edges = cmd.edges
          /\ cmd'.keys = cmd.keys /\ cmd'.psks = cmd.psks /\ cmd'.todo = Cells
      BY <2>1 DEF TypeInv
    <2>3. TypeInv'
      BY <2>1 DEF TypeInv, Steps
    <2>4. cmd.keys = keys
      <3>1. ASSUME NEW q \in Pairs PROVE cmd.keys[q] = keys[q]
        <4>1. CASE q \in edges
          BY <4>1, <2>1 DEF MapsMatchRows, Halfway
        <4>2. CASE q \notin edges
          BY <4>2, <2>1 DEF MapsMatchRows, Halfway, StoredAreDeployed
        <4> QED
          BY <4>1, <4>2
      <3> QED
        BY <3>1 DEF TypeInv
    <2>5. \A q \in edges : keys[q] # <<>> /\ psks[q] # NoKey
      <3>1. cmd.edges = edges /\ cmd.psks = psks
        BY <2>1 DEF MapsMatchRows
      <3>2. ASSUME NEW q \in edges PROVE keys[q] # <<>>
        <4>1. Len(keys[q]) = 2
          BY <2>1, <2>4, <3>1
        <4>2. Len(<<>>) = 0
          OBVIOUS
        <4> QED
          BY <4>1, <4>2
      <3> QED
        BY <2>1, <3>1, <3>2
    <2>6. MapsMatchRows'
      BY <2>1, <2>2, <2>4, <2>5 DEF MapsMatchRows
    <2>7. PackagesMatchMaps' /\ LastMatches' /\ RedeployHasPairs'
      BY <2>1, <2>2 DEF PackagesMatchMaps, LastMatches, RedeployHasPairs
    <2>8. StoredAreDeployed' /\ RedeployRepairs'
      BY <2>1 DEF StoredAreDeployed, RedeployRepairs
    <2>9. PackagesFit'
      BY <2>1, BackboneAssumption DEF PackagesFit, NoPackage, LastMatches
    <2> QED
      BY <2>3, <2>6, <2>7, <2>8, <2>9
  <1> QED
    BY <1>1, <1>2

\* All packages of a command are made from the same maps.
LEMMA PackageStep ==
    ASSUME BInv, NEW c \in Cells, Package(c)
    PROVE  BInv'
  <1> USE DEF BInv, Step
  <1>1. /\ cmd.step = "package" /\ c \in cmd.todo
        /\ packages' = [packages EXCEPT ![c] = peer_material(c)]
        /\ edges' = edges /\ keys' = keys /\ psks' = psks /\ made' = made
    BY DEF Package, rows
  <1>2. \A d \in Cells : packages'[d] = IF d \in cmd.todo \ {c} THEN NoPackage ELSE peer_material(d)
    BY <1>1 DEF PackagesMatchMaps, TypeInv
  <1>3. \A d \in Cells : packages'[d] \in {NoPackage, peer_material(d)}
    BY <1>2
  <1>4. DOMAIN packages' = Cells
    BY <1>1 DEF TypeInv
  <1>5. \A d \in Cells : DOMAIN peer_material(d) = {q \in edges : d \in {q[1], q[2]}}
    BY <1>1 DEF peer_material, MapsMatchRows, StoredAreDeployed, TypeInv
  <1>6. ASSUME NEW q \in Pairs, q \in DOMAIN packages'[q[1]] \cap DOMAIN packages'[q[2]]
        PROVE  Agree(packages'[q[1]], packages'[q[2]], q)
    <2>1. q[1] \in Cells /\ q[2] \in Cells
      BY BackboneAssumption
    <2>2. packages'[q[1]] = peer_material(q[1]) /\ packages'[q[2]] = peer_material(q[2])
      BY <1>3, <1>6, <2>1 DEF NoPackage
    <2>3. q \in edges
      BY <1>5, <1>6, <2>1, <2>2
    <2>4. cmd.psks[q] # NoKey
      BY <1>1, <2>3 DEF MapsMatchRows
    <2> QED
      BY <1>6, <2>2, <2>4, MaterialAgrees
  <1>7. CASE cmd.todo = {c}
    <2>1. Ends("ok")
      BY <1>7 DEF Package
    <2>2. TypeInv'
      BY <1>1, <1>4, <2>1 DEF TypeInv, Ends, NoCommand, Steps, NoKeys, NoPsks, NoKey
    <2>3. MapsMatchRows' /\ PackagesMatchMaps' /\ RedeployHasPairs' /\ LastMatches'
      BY <2>1 DEF Ends, MapsMatchRows, PackagesMatchMaps, RedeployHasPairs, LastMatches, NoCommand
    <2>4. StoredAreDeployed' /\ RedeployRepairs'
      BY <1>1, <2>1 DEF Ends, StoredAreDeployed, RedeployRepairs
    <2>5. PackagesFit'
      <3>1. \A d \in Cells : DOMAIN packages'[d] = {q \in edges : d \in {q[1], q[2]}}
        BY <1>2, <1>5, <1>7
      <3> QED
        BY <1>1, <1>6, <3>1 DEF PackagesFit, Agree
    <2> QED
      BY <2>2, <2>3, <2>4, <2>5
  <1>8. CASE cmd.todo # {c}
    <2>1. cmd' = [cmd EXCEPT !.todo = @ \ {c}] /\ last' = last
      BY <1>8 DEF Package
    <2>2. /\ cmd'.step = cmd.step /\ cmd'.kind = cmd.kind /\ cmd'.edges = cmd.edges
          /\ cmd'.keys = cmd.keys /\ cmd'.psks = cmd.psks /\ cmd'.todo = cmd.todo \ {c}
      BY <2>1 DEF TypeInv
    <2>3. TypeInv'
      BY <1>1, <1>4, <2>1 DEF TypeInv
    <2>4. MapsMatchRows' /\ RedeployHasPairs' /\ LastMatches'
      BY <1>1, <2>1, <2>2 DEF MapsMatchRows, RedeployHasPairs, LastMatches
    <2>5. PackagesMatchMaps'
      <3>1. \A d \in Cells : peer_material(d)' = peer_material(d)
        BY <2>2 DEF peer_material
      <3> QED
        BY <1>2, <2>2, <3>1 DEF PackagesMatchMaps
    <2>6. StoredAreDeployed' /\ RedeployRepairs'
      BY <1>1, <2>1 DEF StoredAreDeployed, RedeployRepairs
    <2>7. PackagesFit'
      BY <1>1, <1>6, <2>1 DEF PackagesFit, Agree, LastMatches
    <2> QED
      BY <2>3, <2>4, <2>5, <2>6, <2>7
  <1> QED
    BY <1>7, <1>8

LEMMA DieStep == BInv /\ Die => BInv'
  BY EndStep DEF Die

\* A step that leaves the registry's rows, packages and command alone.
LEMMA StutterStep == BInv /\ UNCHANGED vars => BInv'
  <1> SUFFICES ASSUME BInv, UNCHANGED vars PROVE BInv'
    OBVIOUS
  <1> USE DEF BInv, vars, rows
  <1>1. TypeInv' /\ MapsMatchRows' /\ RedeployHasPairs' /\ LastMatches'
    BY DEF TypeInv, MapsMatchRows, Halfway, RedeployHasPairs, LastMatches
  <1>2. PackagesMatchMaps'
    BY DEF PackagesMatchMaps, peer_material
  <1>3. StoredAreDeployed' /\ RedeployRepairs' /\ PackagesFit'
    BY DEF StoredAreDeployed, RedeployRepairs, PackagesFit, Agree
  <1> QED
    BY <1>1, <1>2, <1>3

-----------------------------------------------------------------------------
(* The identities.                                                         *)

Identity == [key : Nat, cert : Nat, perms : Nat]
Parts == {RootFiles[i] : i \in DOMAIN RootFiles}

\* The variables of IdentityDatabase have their types.
IdTypes ==
    /\ root \in Nat /\ peer \in Nat
    /\ files \in [IdPeers -> Identity]
    /\ exported \in [Cells -> [IdPeers -> Identity]]
    /\ broken \in BOOLEAN

\* So have those of the cells' installs.
ImportTypes ==
    /\ extracted \in [Cells -> [IdPeers -> Identity]]
    /\ agents \in [Cells -> [IdPeers -> Identity]]
    /\ import \in [Cells -> [peer : Nat, part : {"none", "cert", "key", "perms"} \cup Parts]]
    /\ anchors \in [Cells -> SUBSET Parts]
    /\ identified \in [Cells -> BOOLEAN]

\* The keys of all links are there when identities are looked at, and what is
\* being made is made for a peer that has no identity.
StageFits ==
    /\ (stage # "look" \/ peer # Uvn) =>
        /\ cmd.step = "assert"
        /\ \A q \in cmd.edges : Len(cmd.keys[q]) = 2 /\ cmd.psks[q] # NoKey
    /\ stage \in {"look", "root", "sign", "permissions"}
    /\ stage # "look" => peer <= LastPeer
    /\ stage = "root" => peer = Uvn /\ files[peer].cert = 0
    /\ stage = "sign" => files[peer].cert = 0 /\ files[peer].key # 0
    /\ stage = "permissions" => files[peer].perms = 0 /\ files[peer].cert # 0

\* The files of a peer fit together, and the peers before the one that is
\* looked at have their certificates.
FilesFit ==
    /\ \A p \in IdPeers : files[p].cert \in {0, files[p].key} /\ files[p].perms \in {0, files[p].cert}
    /\ \A p \in IdPeers : p < peer \/ cmd.step = "package" => files[p].cert # 0

\* An identity is half made because it is being made, or because the command
\* that made it died.
HalfMadeIsExplained ==
    /\ root # NoRoot /\ files[Uvn].cert = 0 =>
        broken \/ (peer = Uvn /\ stage \in {"root", "sign"})
    /\ \A p \in IdPeers : files[p].cert # 0 /\ files[p].perms = 0 =>
        broken \/ (peer = p /\ stage = "permissions")

\* A file that was copied for a cell does not change in the registry: keys do
\* not once they have a certificate, the other files do not once they are there.
Copied(copies) ==
    \A p \in IdPeers :
        /\ copies[p].key # 0 => copies[p].key = files[p].key /\ files[p].cert # 0
        /\ copies[p].cert # 0 => copies[p].cert = files[p].cert
        /\ copies[p].perms # 0 => copies[p].perms = files[p].perms
CopiesFit ==
    \A c \in Cells : Copied(exported[c]) /\ Copied(extracted[c]) /\ Copied(agents[c])

\* A package that is exported has all that a cell needs.
Whole(copies, c) ==
    copies[c].key # 0 /\ copies[c].perms # 0 /\ \A p \in IdPeers : copies[p].cert # 0
ExportsWhole == \A c \in Cells : exported[c] # NoCopies => Whole(exported[c], c)

\* An install works on such a package, and has copied the files before the one
\* that it copies next.
ImportsFit ==
    \A c \in Cells :
        /\ import[c].part # "none" =>
            /\ Whole(extracted[c], c)
            /\ \A p \in IdPeers : p < import[c].peer =>
                /\ agents[c][p].cert # 0
                /\ p = c => agents[c][p].key # 0 /\ agents[c][p].perms # 0
                /\ p = Uvn => anchors[c] = Parts
        /\ import[c].part \in {"key", "perms"} => import[c].peer = c /\ agents[c][c].cert # 0
        /\ import[c].part = "perms" => agents[c][c].key # 0
        /\ import[c].part \in Parts => import[c].peer = Uvn /\ agents[c][Uvn].cert # 0
        /\ import[c].part = "ca" => "governance" \in anchors[c]
        /\ import[c].part = "perm_ca" => {"governance", "ca"} \subseteq anchors[c]

\* What an install that has ended has copied stays.
IdentifiedHasAll ==
    \A c \in Cells : identified[c] => Whole(agents[c], c) /\ anchors[c] = Parts

ErrorsExplained == last.how \in {"FileExistsError", "CpError"} => broken

CellsInv == ImportTypes /\ CopiesFit /\ ExportsWhole /\ ImportsFit /\ IdentifiedHasAll

IdInv ==
    /\ BInv /\ IdTypes /\ StageFits /\ FilesFit /\ HalfMadeIsExplained
    /\ ErrorsExplained /\ CellsInv

\* A step that leaves the files, the packages and the cells alone.
LEMMA CellsStay == CellsInv /\ UNCHANGED <<files, exported, cellvars>> => CellsInv'
  BY DEF CellsInv, cellvars, ImportTypes, CopiesFit, Copied, ExportsWhole, Whole, ImportsFit,
     IdentifiedHasAll

\* Who is looked at is the UVN or a cell.
LEMMA PeerIsKnown == peer \in Nat /\ peer <= LastPeer => peer \in IdPeers
  BY IdentityAssumption DEF IdPeers, Uvn

LEMMA UvnIsKnown == Uvn \in IdPeers /\ Cells \subseteq IdPeers
  BY DEF IdPeers

LEMMA IdInitStep == IdInit => IdInv
  <1> SUFFICES ASSUME IdInit PROVE IdInv
    OBVIOUS
  <1>1. BInv
    BY BInit DEF IdInit
  <1>2. NoFiles \in Identity
    BY DEF NoFiles, Identity
  <1>3. IdTypes
    BY <1>2 DEF IdInit, IdTypes, NoRoot, Uvn, NoCopies
  <1>4. StageFits /\ ErrorsExplained
    BY DEF IdInit, Init, StageFits, ErrorsExplained
  <1>5. FilesFit
    <2>1. \A p \in IdPeers : ~(p < peer)
      BY BackboneAssumption DEF IdInit, IdPeers, Uvn
    <2> QED
      BY <2>1 DEF IdInit, Init, NoCommand, FilesFit, NoFiles
  <1>6. HalfMadeIsExplained
    BY DEF IdInit, HalfMadeIsExplained, NoFiles
  <1>7. CellsInv
    <2>1. ImportTypes
      BY <1>2 DEF IdInit, ImportTypes, NoImport, NoCopies, Uvn
    <2> QED
      BY <2>1 DEF IdInit, CellsInv, CopiesFit, Copied, NoCopies, NoFiles, ExportsWhole, ImportsFit,
         NoImport, Parts, RootFiles, IdentifiedHasAll
  <1> QED
    BY <1>1, <1>3, <1>4, <1>5, <1>6, <1>7 DEF IdInv

\* A step of BackboneKeys before the identities are looked at. The links that
\* it works on have not got their keys, so no identity is being made.
LEMMA BackboneIdStep == IdInv /\ BackboneStep => IdInv'
  <1> SUFFICES ASSUME IdInv, BackboneStep PROVE IdInv'
    OBVIOUS
  <1> USE DEF IdInv
  <1>1. BInv'
    BY StartStep, DropPairKeysStep, DropPsksStep, SaveDeploymentStep, MakeKeyStep, MakePskStep,
       AssertRaisesStep DEF BackboneStep
  <1>2. UNCHANGED idvars
    BY DEF BackboneStep
  <1>3. IdTypes' /\ CellsInv' /\ HalfMadeIsExplained'
    BY <1>2, CellsStay DEF idvars, IdTypes, HalfMadeIsExplained
  <1>4. stage = "look" /\ peer = Uvn
    <2> SUFFICES ASSUME cmd.step = "assert",
                        \A q \in cmd.edges : Len(cmd.keys[q]) = 2 /\ cmd.psks[q] # NoKey
                 PROVE  FALSE
      BY DEF StageFits
    <2>1. Len(<<>>) = 0
      OBVIOUS
    <2>2. PICK q \in Pairs : MakeKey(q) \/ MakePsk(q) \/ AssertRaises(q)
      BY DEF BackboneStep, Start, DropPairKeys, DropPsks, SaveDeployment, Step
    <2> QED
      BY <2>1, <2>2 DEF MakeKey, MakePsk, AssertRaises
  <1>5. cmd'.step # "package" /\ last'.how \notin {"FileExistsError", "CpError"}
    <2>1. cmd.step # "package"
      BY DEF BackboneStep, Start, DropPairKeys, DropPsks, SaveDeployment, MakeKey, MakePsk,
             AssertRaises, Step
    <2>2. CASE \E kind \in {"redeploy", "other", "none"}, E \in SUBSET Pairs : Start(kind, E)
      BY <2>2 DEF Start
    <2>3. CASE DropPairKeys \/ DropPsks \/ SaveDeployment
      BY <2>3 DEF DropPairKeys, DropPsks, SaveDeployment, Goes, Step, BInv, TypeInv, LastMatches
    <2>4. CASE \E q \in Pairs : MakeKey(q) \/ MakePsk(q)
      BY <2>4 DEF MakeKey, MakePsk, Step, BInv, TypeInv, LastMatches
    <2>5. CASE \E q \in Pairs : AssertRaises(q)
      BY <2>5 DEF AssertRaises, Ends, NoCommand
    <2> QED
      BY <2>2, <2>3, <2>4, <2>5 DEF BackboneStep
  <1>6. StageFits' /\ FilesFit' /\ ErrorsExplained'
    <2>1. StageFits'
      BY <1>2, <1>4 DEF idvars, StageFits
    <2>2. FilesFit'
      BY <1>2, <1>5 DEF idvars, FilesFit
    <2> QED
      BY <2>1, <2>2, <1>5 DEF ErrorsExplained
  <1> QED
    BY <1>1, <1>3, <1>6

\* The next peer, the files of the root, and the attempt to make them again.
LEMMA KeyFoundStep == IdInv /\ KeyFound => IdInv'
  <1> SUFFICES ASSUME IdInv, KeyFound PROVE IdInv'
    OBVIOUS
  <1> USE DEF IdInv
  <1>1. BInv' /\ UNCHANGED vars
    BY StutterStep DEF KeyFound
  <1>2. /\ peer <= LastPeer /\ stage = "look" /\ files[peer].cert # 0 /\ peer' = peer + 1
        /\ Asserting
        /\ UNCHANGED <<root, files, stage, exported, cellvars, broken>>
    BY DEF KeyFound, Asserting, get_key, search_keys
  <1>3. peer \in Nat
    BY DEF IdTypes
  <1>4. IdTypes' /\ CellsInv' /\ ErrorsExplained'
    BY <1>1, <1>2, <1>3, CellsStay DEF IdTypes, ErrorsExplained, vars
  <1>5. StageFits'
    BY <1>1, <1>2 DEF StageFits, Asserting, Step, vars
  <1>6. FilesFit'
    <2>1. \A p \in IdPeers : p < peer' => p < peer \/ p = peer
      BY <1>2, <1>3, BackboneAssumption DEF IdPeers, Uvn
    <2> QED
      BY <1>1, <1>2, <2>1 DEF FilesFit, vars
  <1>7. HalfMadeIsExplained'
    BY <1>2 DEF HalfMadeIsExplained
  <1> QED
    BY <1>1, <1>4, <1>5, <1>6, <1>7

LEMMA GenerateRootStep == IdInv /\ GenerateRoot => IdInv'
  <1> SUFFICES ASSUME IdInv, GenerateRoot PROVE IdInv'
    OBVIOUS
  <1> USE DEF IdInv
  <1>1. /\ Asserting /\ stage = "look" /\ peer = Uvn /\ files[Uvn].cert = 0
        /\ UNCHANGED <<rows, packages, files, exported, cellvars, broken>>
    BY UvnIsKnown DEF GenerateRoot, get_key, search_keys
  <1>2. CASE root = NoRoot
    <2>1. root' = 1 /\ stage' = "root" /\ UNCHANGED vars /\ peer' = peer
      BY <1>2 DEF GenerateRoot, vars, rows
    <2>2. BInv'
      BY <2>1, StutterStep
    <2>3. IdTypes' /\ CellsInv' /\ ErrorsExplained'
      BY <1>1, <2>1, CellsStay DEF IdTypes, ErrorsExplained, vars
    <2>4. StageFits'
      BY <1>1, <2>1 DEF StageFits, Asserting, Step, vars
    <2>5. FilesFit' /\ HalfMadeIsExplained'
      BY <1>1, <2>1 DEF FilesFit, HalfMadeIsExplained, vars
    <2> QED
      BY <2>2, <2>3, <2>4, <2>5
  <1>3. CASE root # NoRoot
    <2>1. Ends("FileExistsError") /\ peer' = Uvn /\ UNCHANGED <<root, stage>>
      BY <1>3 DEF GenerateRoot
    <2>2. BInv'
      BY <1>1, <2>1, EndStep DEF Asserting, Step
    <2>3. broken
      BY <1>1, <1>3 DEF HalfMadeIsExplained
    <2>4. IdTypes' /\ CellsInv' /\ ErrorsExplained'
      BY <1>1, <2>1, <2>3, CellsStay DEF IdTypes, ErrorsExplained
    <2>5. StageFits'
      BY <1>1, <2>1 DEF StageFits
    <2>6. FilesFit' /\ HalfMadeIsExplained'
      BY <1>1, <2>1 DEF FilesFit, HalfMadeIsExplained, Ends, NoCommand
    <2> QED
      BY <2>2, <2>4, <2>5, <2>6
  <1> QED
    BY <1>2, <1>3

LEMMA RootFileStep == IdInv /\ RootFile => IdInv'
  <1> SUFFICES ASSUME IdInv, RootFile PROVE IdInv'
    OBVIOUS
  <1> USE DEF IdInv
  <1>1. BInv' /\ UNCHANGED vars
    BY StutterStep DEF RootFile
  <1>2. IdTypes' /\ CellsInv' /\ ErrorsExplained'
    BY <1>1, CellsStay DEF RootFile, IdTypes, ErrorsExplained, vars
  <1>3. StageFits' /\ FilesFit'
    BY <1>1 DEF RootFile, StageFits, FilesFit, vars
  <1>4. HalfMadeIsExplained'
    BY DEF RootFile, HalfMadeIsExplained, StageFits
  <1> QED
    BY <1>1, <1>2, <1>3, <1>4

\* The files of one peer change, of one that has no complete identity yet:
\* nobody has a copy.
LEMMA FilesStep ==
    ASSUME IdInv, NEW p \in IdPeers, files[p].perms = 0, NEW new \in Identity,
           files[p].cert # 0 => new.cert = files[p].cert /\ new.key = files[p].key,
           files' = [files EXCEPT ![p] = new],
           UNCHANGED <<vars, root, exported, cellvars, broken>>, peer' \in Nat
    PROVE  BInv' /\ IdTypes' /\ CellsInv' /\ ErrorsExplained'
  <1> USE DEF IdInv
  <1>1. BInv'
    BY StutterStep
  <1>2. IdTypes'
    BY DEF IdTypes
  <1>3. CellsInv'
    <2>1. ASSUME NEW copies, Copied(copies) PROVE Copied(copies)'
      BY <2>1 DEF Copied, IdTypes
    <2>2. CopiesFit'
      BY <2>1 DEF CellsInv, CopiesFit, cellvars
    <2> QED
      BY <2>2 DEF CellsInv, cellvars, ImportTypes, ExportsWhole, Whole, ImportsFit, IdentifiedHasAll
  <1>4. ErrorsExplained'
    BY DEF ErrorsExplained, vars
  <1> QED
    BY <1>1, <1>2, <1>3, <1>4

LEMMA CreateKeyStep == IdInv /\ CreateKey => IdInv'
  <1> SUFFICES ASSUME IdInv, CreateKey PROVE IdInv'
    OBVIOUS
  <1> USE DEF IdInv
  <1> DEFINE new == [files[peer] EXCEPT !.key = @ + 1]
  <1>1. /\ Asserting /\ peer' = peer /\ stage' = "sign"
        /\ files' = [files EXCEPT ![peer] = new]
        /\ UNCHANGED <<vars, root, exported, cellvars, broken>>
    BY DEF CreateKey
  <1>2. peer \in Nat /\ peer \in IdPeers /\ peer <= LastPeer
    BY <1>1, PeerIsKnown DEF IdTypes, Asserting
  <1>3. files[peer].cert = 0
    BY <1>2 DEF CreateKey, StageFits, get_key, search_keys
  <1>4. files[peer].perms = 0
    BY <1>2, <1>3 DEF FilesFit
  <1>5. files[peer] \in Identity
    BY <1>2 DEF IdTypes
  <1>6. new \in Identity /\ new.key # 0 /\ new.cert = 0 /\ new.perms = 0
    BY <1>3, <1>4, <1>5 DEF Identity
  <1> HIDE DEF new
  <1>7. BInv' /\ IdTypes' /\ CellsInv' /\ ErrorsExplained'
    BY <1>1, <1>2, <1>3, <1>4, <1>6, FilesStep
  <1>8. files'[peer] = new /\ \A p \in IdPeers \ {peer} : files'[p] = files[p]
    BY <1>1, <1>2 DEF IdTypes
  <1>9. StageFits'
    BY <1>1, <1>2, <1>6, <1>8 DEF StageFits, Asserting, Step, vars
  <1>10. FilesFit'
    BY <1>1, <1>2, <1>3, <1>6, <1>8 DEF FilesFit, vars
  <1>11. HalfMadeIsExplained'
    <2>1. CASE peer = Uvn
      BY <2>1, <1>1, <1>2, <1>6, <1>8 DEF HalfMadeIsExplained, CreateKey
    <2>2. CASE peer # Uvn
      BY <2>2, <1>1, <1>2, <1>6, <1>8, UvnIsKnown DEF HalfMadeIsExplained, CreateKey, StageFits
    <2> QED
      BY <2>1, <2>2
  <1> QED
    BY <1>7, <1>9, <1>10, <1>11

LEMMA SignCertStep == IdInv /\ SignCert => IdInv'
  <1> SUFFICES ASSUME IdInv, SignCert PROVE IdInv'
    OBVIOUS
  <1> USE DEF IdInv
  <1> DEFINE new == [files[peer] EXCEPT !.cert = files[peer].key]
  <1>1. /\ Asserting /\ peer' = peer /\ stage = "sign" /\ stage' = "permissions"
        /\ files' = [files EXCEPT ![peer] = new]
        /\ UNCHANGED <<vars, root, exported, cellvars, broken>>
    BY DEF SignCert
  <1>2. peer \in Nat /\ peer \in IdPeers /\ peer <= LastPeer
    BY <1>1, PeerIsKnown DEF IdTypes, Asserting
  <1>3. files[peer].cert = 0 /\ files[peer].key # 0
    BY <1>1 DEF StageFits
  <1>4. files[peer].perms = 0
    BY <1>2, <1>3 DEF FilesFit
  <1>5. files[peer] \in Identity
    BY <1>2 DEF IdTypes
  <1>6. new \in Identity /\ new.key = new.cert /\ new.cert # 0 /\ new.perms = 0
    BY <1>3, <1>4, <1>5 DEF Identity
  <1> HIDE DEF new
  <1>7. BInv' /\ IdTypes' /\ CellsInv' /\ ErrorsExplained'
    BY <1>1, <1>2, <1>3, <1>4, <1>6, FilesStep
  <1>8. files'[peer] = new /\ \A p \in IdPeers \ {peer} : files'[p] = files[p]
    BY <1>1, <1>2 DEF IdTypes
  <1>9. StageFits'
    BY <1>1, <1>2, <1>6, <1>8 DEF StageFits, Asserting, Step, vars
  <1>10. FilesFit'
    BY <1>1, <1>2, <1>6, <1>8 DEF FilesFit, vars
  <1>11. HalfMadeIsExplained'
    BY <1>1, <1>2, <1>6, <1>8, UvnIsKnown DEF HalfMadeIsExplained
  <1> QED
    BY <1>7, <1>9, <1>10, <1>11

LEMMA SignPermissionsStep == IdInv /\ SignPermissions => IdInv'
  <1> SUFFICES ASSUME IdInv, SignPermissions PROVE IdInv'
    OBVIOUS
  <1> USE DEF IdInv
  <1> DEFINE new == [files[peer] EXCEPT !.perms = files[peer].cert]
  <1>1. /\ Asserting /\ peer' = peer + 1 /\ stage = "permissions" /\ stage' = "look"
        /\ files' = [files EXCEPT ![peer] = new]
        /\ UNCHANGED <<vars, root, exported, cellvars, broken>>
    BY DEF SignPermissions, sign_file
  <1>2. peer \in Nat /\ peer \in IdPeers /\ peer <= LastPeer
    BY <1>1, PeerIsKnown DEF IdTypes, Asserting
  <1>3. files[peer].perms = 0 /\ files[peer].cert # 0
    BY <1>1 DEF StageFits
  <1>4. files[peer] \in Identity /\ files[peer].key = files[peer].cert
    BY <1>2, <1>3 DEF IdTypes, FilesFit
  <1>5. /\ new \in Identity /\ new.key = new.cert /\ new.cert # 0 /\ new.perms = new.cert
        /\ new.cert = files[peer].cert /\ new.key = files[peer].key
    BY <1>3, <1>4 DEF Identity
  <1> HIDE DEF new
  <1>6. BInv' /\ IdTypes' /\ CellsInv' /\ ErrorsExplained'
    <2>1. peer' \in Nat
      BY <1>1, <1>2
    <2> QED
      BY <1>1, <1>2, <1>3, <1>5, <2>1, FilesStep
  <1>7. files'[peer] = new /\ \A p \in IdPeers \ {peer} : files'[p] = files[p]
    BY <1>1, <1>2 DEF IdTypes
  <1>8. StageFits'
    BY <1>1 DEF StageFits, Asserting, Step, vars
  <1>9. FilesFit'
    <2>1. \A p \in IdPeers : p < peer' => p < peer \/ p = peer
      BY <1>1, <1>2, BackboneAssumption DEF IdPeers, Uvn
    <2> QED
      BY <1>1, <1>2, <1>5, <1>7, <2>1 DEF FilesFit, vars
  <1>10. HalfMadeIsExplained'
    BY <1>1, <1>2, <1>5, <1>7, UvnIsKnown DEF HalfMadeIsExplained
  <1> QED
    BY <1>6, <1>8, <1>9, <1>10

\* The packages. They are made when all peers have a certificate.
LEMMA KeysAssertedStep == IdInv /\ KeysAsserted => IdInv'
  <1> SUFFICES ASSUME IdInv, KeysAsserted PROVE IdInv'
    OBVIOUS
  <1> USE DEF IdInv
  <1>1. BInv'
    BY AssertDoneStep DEF KeysAsserted
  <1>2. /\ peer > LastPeer /\ peer' = Uvn
        /\ exported' = IF cmd.changed THEN [c \in Cells |-> NoCopies] ELSE exported
        /\ UNCHANGED <<root, files, stage, cellvars, broken>>
    BY DEF KeysAsserted
  <1>3. peer \in Nat /\ LastPeer \in Nat /\ ~(peer <= LastPeer)
    BY <1>2, IdentityAssumption DEF IdTypes
  <1>4. stage = "look"
    BY <1>3 DEF StageFits
  <1>5. IdTypes'
    BY <1>2 DEF IdTypes, Uvn, Identity, NoCopies, NoFiles
  <1>6. CellsInv'
    <2>1. CopiesFit'
      BY <1>2 DEF CellsInv, CopiesFit, Copied, NoCopies, NoFiles, cellvars
    <2> QED
      BY <1>2, <2>1 DEF CellsInv, cellvars, ImportTypes, ExportsWhole, Whole, ImportsFit,
         IdentifiedHasAll
  <1>7. ErrorsExplained'
    BY <1>2 DEF ErrorsExplained, KeysAsserted, AssertDone, Ends
  <1>8. StageFits'
    BY <1>2, <1>4 DEF StageFits
  <1>9. FilesFit'
    <2>1. \A p \in IdPeers : p < peer
      BY <1>3, IdentityAssumption DEF IdPeers, Uvn
    <2> QED
      BY <1>2, <2>1 DEF FilesFit
  <1>10. HalfMadeIsExplained'
    BY <1>2, <1>4 DEF HalfMadeIsExplained
  <1> QED
    BY <1>1, <1>5, <1>6, <1>7, <1>8, <1>9, <1>10

LEMMA ExportStep ==
    ASSUME IdInv, NEW c \in Cells, ExportAndPackage(c)
    PROVE  IdInv'
  <1> USE DEF IdInv
  <1>1. BInv'
    BY PackageStep DEF ExportAndPackage
  <1>2. /\ files[c].perms # 0 /\ cmd.step = "package"
        /\ exported' = [exported EXCEPT ![c] = export_keys(c)]
        /\ UNCHANGED <<root, files, peer, stage, cellvars, broken>>
    BY DEF ExportAndPackage, Package, Step
  <1>3. stage = "look" /\ peer = Uvn
    BY <1>2 DEF StageFits
  <1>4. IdTypes' /\ CellsInv'
    <2> DEFINE new == export_keys(c)
    <2>1. new \in [IdPeers -> Identity]
      BY DEF export_keys, IdTypes, Identity, NoFiles
    <2>2. Copied(new) /\ Whole(new, c)
      BY <1>2, UvnIsKnown DEF export_keys, Copied, Whole, IdTypes, FilesFit, Identity, NoFiles
    <2>0. exported' = [exported EXCEPT ![c] = new]
      BY <1>2
    <2> HIDE DEF new
    <2>3. IdTypes'
      BY <1>2, <2>0, <2>1 DEF IdTypes
    <2>4. \A d \in Cells : exported'[d] = IF d = c THEN new ELSE exported[d]
      BY <2>0 DEF IdTypes
    <2>5. CopiesFit' /\ ExportsWhole'
      BY <1>2, <2>2, <2>4 DEF CellsInv, CopiesFit, Copied, ExportsWhole, Whole, cellvars
    <2> QED
      BY <1>2, <2>3, <2>5 DEF CellsInv, cellvars, ImportTypes, Whole, ImportsFit, IdentifiedHasAll
  <1>6. last'.how \in {"ok", last.how}
    BY DEF ExportAndPackage, Package, Ends
  <1>7. ErrorsExplained'
    BY <1>2, <1>6 DEF ErrorsExplained
  <1>8. StageFits' /\ HalfMadeIsExplained'
    BY <1>2, <1>3 DEF StageFits, HalfMadeIsExplained
  <1>9. FilesFit'
    BY <1>2 DEF FilesFit
  <1> QED
    BY <1>1, <1>4, <1>7, <1>8, <1>9

LEMMA ExportFailsStep ==
    ASSUME IdInv, NEW c \in Cells, ExportFails(c)
    PROVE  IdInv'
  <1> USE DEF IdInv
  <1>1. BInv'
    BY EndStep DEF ExportFails, Step
  <1>2. cmd.step = "package" /\ files[c].perms = 0 /\ UNCHANGED idvars /\ Ends("CpError")
    BY DEF ExportFails, Step
  <1>3. stage = "look" /\ peer = Uvn
    BY <1>2 DEF StageFits
  <1>4. broken
    BY <1>2, <1>3, UvnIsKnown DEF FilesFit, HalfMadeIsExplained
  <1>5. IdTypes' /\ CellsInv' /\ ErrorsExplained' /\ HalfMadeIsExplained'
    BY <1>2, <1>4, CellsStay DEF idvars, IdTypes, ErrorsExplained, HalfMadeIsExplained
  <1>6. StageFits' /\ FilesFit'
    BY <1>2, <1>3 DEF idvars, StageFits, FilesFit, Ends, NoCommand
  <1> QED
    BY <1>1, <1>5, <1>6

LEMMA DieAnywhereStep == IdInv /\ DieAnywhere => IdInv'
  <1> SUFFICES ASSUME IdInv, DieAnywhere PROVE IdInv'
    OBVIOUS
  <1> USE DEF IdInv
  <1>1. BInv'
    BY DieStep DEF DieAnywhere
  <1>2. /\ peer' = Uvn /\ stage' = "look" /\ UNCHANGED <<root, files, exported, cellvars>>
        /\ Ends("died")
    BY DEF DieAnywhere, Die
  <1>3. broken' = (broken \/ stage # "look")
    BY DEF DieAnywhere
  <1>4. broken' \in BOOLEAN
    BY <1>3
  <1>5. IdTypes'
    BY <1>2, <1>4 DEF IdTypes, Uvn
  <1>6. CellsInv' /\ ErrorsExplained' /\ StageFits'
    BY <1>2, CellsStay DEF ErrorsExplained, StageFits, Ends
  <1>7. FilesFit'
    <2>1. \A p \in IdPeers : ~(p < Uvn)
      BY BackboneAssumption DEF IdPeers, Uvn
    <2> QED
      BY <1>2, <2>1 DEF FilesFit, Ends, NoCommand
  <1>8. HalfMadeIsExplained'
    <2>1. CASE stage = "look"
      BY <2>1, <1>2, <1>3 DEF HalfMadeIsExplained
    <2>2. CASE stage # "look"
      BY <2>2, <1>2, <1>3 DEF HalfMadeIsExplained
    <2> QED
      BY <2>1, <2>2
  <1> QED
    BY <1>1, <1>5, <1>6, <1>7, <1>8

\* The cell's side: nothing of the registry's changes.
LEMMA RegistryStays ==
    ASSUME IdInv, UNCHANGED Registry
    PROVE  /\ BInv' /\ IdTypes' /\ StageFits' /\ FilesFit' /\ HalfMadeIsExplained'
           /\ ErrorsExplained'
  <1>1. BInv'
    BY StutterStep DEF IdInv, Registry
  <1> QED
    BY <1>1 DEF IdInv, Registry, vars, IdTypes, StageFits, FilesFit, HalfMadeIsExplained,
       ErrorsExplained

LEMMA ExtractStep ==
    ASSUME IdInv, NEW c \in Cells, Extract(c)
    PROVE  CellsInv'
  <1> USE DEF IdInv, CellsInv
  <1>1. /\ exported[c] # NoCopies
        /\ extracted' = [extracted EXCEPT ![c] = exported[c]]
        /\ import' = [import EXCEPT ![c] = [peer |-> Uvn, part |-> "cert"]]
        /\ UNCHANGED <<files, exported, agents, anchors, identified>>
    BY DEF Extract, CopiesNext, Registry
  <1>2. ImportTypes'
    BY <1>1 DEF ImportTypes, IdTypes, Uvn
  <1>3. \A d \in Cells : extracted'[d] \in {exported[d], extracted[d]}
    BY <1>1 DEF ImportTypes
  <1>4. CopiesFit'
    BY <1>1, <1>3 DEF CopiesFit, Copied
  <1>5. ASSUME NEW p \in IdPeers PROVE ~(p < Uvn)
    BY BackboneAssumption DEF IdPeers, Uvn
  <1>6. Whole(exported[c], c)
    BY <1>1 DEF ExportsWhole
  <1>7. import'[c] = [peer |-> Uvn, part |-> "cert"] /\ extracted'[c] = exported[c]
    BY <1>1 DEF ImportTypes
  <1>8. \A d \in Cells \ {c} : import'[d] = import[d] /\ extracted'[d] = extracted[d]
    BY <1>1 DEF ImportTypes
  <1>9. "cert" \notin Parts \cup {"key", "perms", "ca", "perm_ca", "none"}
    BY DEF Parts, RootFiles
  <1>10. ImportsFit'
    BY <1>1, <1>5, <1>6, <1>7, <1>8, <1>9 DEF ImportsFit, Whole
  <1> QED
    BY <1>1, <1>2, <1>4, <1>10 DEF ExportsWhole, Whole, IdentifiedHasAll

\* A copy of a file of the package: nothing that was there is lost.
LEMMA CopyStep ==
    ASSUME IdInv, NEW c \in Cells, NEW p \in IdPeers, NEW new \in Identity,
           new.key \in {agents[c][p].key, extracted[c][p].key},
           new.cert \in {agents[c][p].cert, extracted[c][p].cert},
           new.perms \in {agents[c][p].perms, extracted[c][p].perms},
           new.key = 0 => agents[c][p].key = 0,
           new.cert = 0 => agents[c][p].cert = 0,
           new.perms = 0 => agents[c][p].perms = 0,
           agents' = [agents EXCEPT ![c][p] = new],
           UNCHANGED <<files, exported, extracted, anchors, identified>>
    PROVE  /\ agents' \in [Cells -> [IdPeers -> Identity]]
           /\ agents'[c][p] = new
           /\ \A d \in Cells, q \in IdPeers : d # c \/ q # p => agents'[d][q] = agents[d][q]
           /\ CopiesFit' /\ ExportsWhole' /\ IdentifiedHasAll'
  <1> USE DEF IdInv, CellsInv
  <1>1. agents \in [Cells -> [IdPeers -> Identity]]
    BY DEF ImportTypes
  <1>2. agents'[c] = [agents[c] EXCEPT ![p] = new] /\ \A d \in Cells \ {c} : agents'[d] = agents[d]
    BY <1>1
  <1>3. agents' \in [Cells -> [IdPeers -> Identity]]
    BY <1>1
  <1>4. agents'[c][p] = new /\ \A q \in IdPeers \ {p} : agents'[c][q] = agents[c][q]
    BY <1>1, <1>2
  <1>5. CopiesFit'
    <2>1. Copied(agents[c])'
      BY <1>4 DEF CopiesFit, Copied
    <2> QED
      BY <1>2, <2>1 DEF CopiesFit, Copied
  <1>6. IdentifiedHasAll'
    <2>1. Whole(agents[c], c) => Whole(agents'[c], c)
      BY <1>4, UvnIsKnown DEF Whole
    <2> QED
      BY <1>2, <2>1 DEF IdentifiedHasAll, Whole
  <1> QED
    BY <1>2, <1>3, <1>4, <1>5, <1>6 DEF ExportsWhole, Whole

\* Where an install goes on.
LEMMA GoesOn ==
    ASSUME ImportTypes, NEW c \in Cells, NEW p \in Nat,
           NEW part \in {"none", "cert", "key", "perms"} \cup Parts,
           import' = [import EXCEPT ![c] = [peer |-> p, part |-> part]]
    PROVE  /\ import' \in [Cells -> [peer : Nat, part : {"none", "cert", "key", "perms"} \cup Parts]]
           /\ import'[c].peer = p /\ import'[c].part = part
           /\ \A d \in Cells \ {c} : import'[d] = import[d]
  BY DEF ImportTypes

LEMMA PartsAreDifferent ==
    /\ Parts = {"governance", "ca", "perm_ca"}
    /\ \A i \in DOMAIN RootFiles : i \in 1..3
    /\ RootFiles[1] = "governance" /\ RootFiles[2] = "ca" /\ RootFiles[3] = "perm_ca"
  BY DEF Parts, RootFiles

LEMMA CellIsNotUvn == Uvn \notin Cells
  BY IdentityAssumption DEF Uvn

LEMMA ImportCertStep ==
    ASSUME IdInv, NEW c \in Cells, ImportCert(c)
    PROVE  CellsInv'
  <1> USE DEF IdInv, CellsInv
  <1> DEFINE p == import[c].peer
  <1> DEFINE new == [agents[c][p] EXCEPT !.cert = extracted[c][p].cert]
  <1>1. /\ import[c].part = "cert" /\ p <= LastPeer /\ extracted[c][p].cert # 0
        /\ agents' = [agents EXCEPT ![c][p] = new]
        /\ UNCHANGED <<files, exported, extracted, anchors, identified>>
    BY DEF ImportCert, Copying, Registry
  <1>2. p \in Nat /\ p \in IdPeers
    BY <1>1, IdentityAssumption DEF ImportTypes, IdPeers, Uvn
  <1>3. agents[c][p] \in Identity /\ extracted[c][p] \in Identity
    BY <1>2 DEF ImportTypes
  <1>4. /\ new \in Identity /\ new.cert = extracted[c][p].cert
        /\ new.key = agents[c][p].key /\ new.perms = agents[c][p].perms
    BY <1>3 DEF Identity
  <1> HIDE DEF new
  <1>5. /\ agents' \in [Cells -> [IdPeers -> Identity]]
        /\ agents'[c][p] = new
        /\ \A d \in Cells, q \in IdPeers : d # c \/ q # p => agents'[d][q] = agents[d][q]
        /\ CopiesFit' /\ ExportsWhole' /\ IdentifiedHasAll'
    BY <1>1, <1>2, <1>4, CopyStep
  <1>6. \E n \in Nat, part \in {"cert", "key", "governance"} :
            /\ import' = [import EXCEPT ![c] = [peer |-> n, part |-> part]]
            /\ part = "cert" => n = p + 1 /\ p # c /\ p # Uvn
            /\ part = "key" => n = p /\ p = c
            /\ part = "governance" => n = p /\ p = Uvn
    <2>1. CASE p = c
      <3>1. CopiesNext(c, p, "key")
        BY <2>1, CellIsNotUvn DEF ImportCert
      <3> QED
        BY <2>1, <3>1, <1>2 DEF CopiesNext
    <2>2. CASE p # c /\ p = Uvn
      BY <2>2, <1>2, PartsAreDifferent DEF ImportCert, CopiesNext
    <2>3. CASE p # c /\ p # Uvn
      <3>1. CopiesNext(c, p + 1, "cert")
        BY <2>3 DEF ImportCert
      <3>2. p + 1 \in Nat
        BY <1>2
      <3> QED
        BY <2>3, <3>1, <3>2 DEF CopiesNext
    <2> QED
      BY <2>1, <2>2, <2>3
  <1>7. PICK n \in Nat, part \in {"cert", "key", "governance"} :
            /\ import' = [import EXCEPT ![c] = [peer |-> n, part |-> part]]
            /\ part = "cert" => n = p + 1 /\ p # c /\ p # Uvn
            /\ part = "key" => n = p /\ p = c
            /\ part = "governance" => n = p /\ p = Uvn
    BY <1>6
  <1>8. /\ import' \in [Cells -> [peer : Nat, part : {"none", "cert", "key", "perms"} \cup Parts]]
        /\ import'[c].peer = n /\ import'[c].part = part
        /\ \A d \in Cells \ {c} : import'[d] = import[d]
    BY <1>7, GoesOn, PartsAreDifferent
  <1>9. ImportTypes'
    BY <1>1, <1>5, <1>8 DEF ImportTypes
  <1>10. \A q \in IdPeers : q < n => q < p \/ (q = p /\ part = "cert")
    BY <1>2, <1>7, BackboneAssumption DEF IdPeers, Uvn
  <1>11. ImportsFit'
    <2>1. \A q \in IdPeers : q < n =>
            /\ agents'[c][q].cert # 0
            /\ q = c => agents'[c][q].key # 0 /\ agents'[c][q].perms # 0
            /\ q = Uvn => anchors'[c] = Parts
      BY <1>1, <1>2, <1>4, <1>5, <1>7, <1>10 DEF ImportsFit
    <2>2. part = "key" => agents'[c][c].cert # 0
      BY <1>1, <1>2, <1>4, <1>5, <1>7
    <2>3. part = "governance" => agents'[c][Uvn].cert # 0
      BY <1>1, <1>2, <1>4, <1>5, <1>7
    <2>4. \A d \in Cells \ {c} : \A q \in IdPeers : agents'[d][q] = agents[d][q]
      BY <1>5
    <2> QED
      BY <1>1, <1>7, <1>8, <2>1, <2>2, <2>3, <2>4, PartsAreDifferent, UvnIsKnown
         DEF ImportsFit, Whole
  <1> QED
    BY <1>5, <1>9, <1>11

LEMMA ImportKeyStep ==
    ASSUME IdInv, NEW c \in Cells, ImportKey(c)
    PROVE  CellsInv'
  <1> USE DEF IdInv, CellsInv
  <1> DEFINE new == [agents[c][c] EXCEPT !.key = extracted[c][c].key]
  <1>1. /\ import[c].part = "key"
        /\ agents' = [agents EXCEPT ![c][c] = new]
        /\ import' = [import EXCEPT ![c] = [peer |-> c, part |-> "perms"]]
        /\ UNCHANGED <<files, exported, extracted, anchors, identified>>
    BY DEF ImportKey, Copying, CopiesNext, Registry
  <1>2. c \in Nat /\ c \in IdPeers /\ import[c].peer = c
    BY <1>1, BackboneAssumption, UvnIsKnown DEF ImportsFit
  <1>3. agents[c][c] \in Identity /\ extracted[c][c] \in Identity /\ extracted[c][c].key # 0
    BY <1>1, <1>2 DEF ImportTypes, ImportsFit, Whole
  <1>4. /\ new \in Identity /\ new.key = extracted[c][c].key
        /\ new.cert = agents[c][c].cert /\ new.perms = agents[c][c].perms
    BY <1>3 DEF Identity
  <1> HIDE DEF new
  <1>5. /\ agents' \in [Cells -> [IdPeers -> Identity]]
        /\ agents'[c][c] = new
        /\ \A d \in Cells, q \in IdPeers : d # c \/ q # c => agents'[d][q] = agents[d][q]
        /\ CopiesFit' /\ ExportsWhole' /\ IdentifiedHasAll'
    BY <1>1, <1>2, <1>3, <1>4, CopyStep
  <1>6. /\ import' \in [Cells -> [peer : Nat, part : {"none", "cert", "key", "perms"} \cup Parts]]
        /\ import'[c].peer = c /\ import'[c].part = "perms"
        /\ \A d \in Cells \ {c} : import'[d] = import[d]
    BY <1>1, <1>2, GoesOn
  <1>7. ImportTypes'
    BY <1>1, <1>5, <1>6 DEF ImportTypes
  <1>8. ImportsFit'
    <2>1. \A q \in IdPeers : q < c => q < c
      BY <1>2, BackboneAssumption DEF IdPeers, Uvn
    <2>2. \A q \in IdPeers : q < c =>
            /\ agents'[c][q].cert # 0
            /\ q = c => agents'[c][q].key # 0 /\ agents'[c][q].perms # 0
            /\ q = Uvn => anchors'[c] = Parts
      BY <1>1, <1>2, <1>3, <1>4, <1>5, <2>1, CellIsNotUvn DEF ImportsFit
    <2>3. agents'[c][c].cert # 0 /\ agents'[c][c].key # 0
      BY <1>1, <1>2, <1>3, <1>4, <1>5 DEF ImportsFit
    <2>4. \A d \in Cells \ {c} : \A q \in IdPeers : agents'[d][q] = agents[d][q]
      BY <1>5
    <2> QED
      BY <1>1, <1>2, <1>6, <2>2, <2>3, <2>4, PartsAreDifferent, UvnIsKnown DEF ImportsFit, Whole
  <1> QED
    BY <1>5, <1>7, <1>8

LEMMA ImportPermissionsStep ==
    ASSUME IdInv, NEW c \in Cells, ImportPermissions(c)
    PROVE  CellsInv'
  <1> USE DEF IdInv, CellsInv
  <1> DEFINE new == [agents[c][c] EXCEPT !.perms = extracted[c][c].perms]
  <1>1. /\ import[c].part = "perms"
        /\ agents' = [agents EXCEPT ![c][c] = new]
        /\ import' = [import EXCEPT ![c] = [peer |-> c + 1, part |-> "cert"]]
        /\ UNCHANGED <<files, exported, extracted, anchors, identified>>
    BY DEF ImportPermissions, Copying, CopiesNext, Registry
  <1>2. c \in Nat /\ c \in IdPeers /\ import[c].peer = c
    BY <1>1, BackboneAssumption, UvnIsKnown DEF ImportsFit
  <1>3. agents[c][c] \in Identity /\ extracted[c][c] \in Identity /\ extracted[c][c].perms # 0
    BY <1>1, <1>2 DEF ImportTypes, ImportsFit, Whole
  <1>4. /\ new \in Identity /\ new.perms = extracted[c][c].perms
        /\ new.key = agents[c][c].key /\ new.cert = agents[c][c].cert
    BY <1>3 DEF Identity
  <1> HIDE DEF new
  <1>5. /\ agents' \in [Cells -> [IdPeers -> Identity]]
        /\ agents'[c][c] = new
        /\ \A d \in Cells, q \in IdPeers : d # c \/ q # c => agents'[d][q] = agents[d][q]
        /\ CopiesFit' /\ ExportsWhole' /\ IdentifiedHasAll'
    BY <1>1, <1>2, <1>3, <1>4, CopyStep
  <1>6. /\ import' \in [Cells -> [peer : Nat, part : {"none", "cert", "key", "perms"} \cup Parts]]
        /\ import'[c].peer = c + 1 /\ import'[c].part = "cert"
        /\ \A d \in Cells \ {c} : import'[d] = import[d]
    <2>1. c + 1 \in Nat
      BY <1>2
    <2> QED
      BY <1>1, <2>1, GoesOn
  <1>7. ImportTypes'
    BY <1>1, <1>5, <1>6 DEF ImportTypes
  <1>8. ImportsFit'
    <2>1. \A q \in IdPeers : q < c + 1 => q < c \/ q = c
      BY <1>2, BackboneAssumption DEF IdPeers, Uvn
    <2>2. \A q \in IdPeers : q < c + 1 =>
            /\ agents'[c][q].cert # 0
            /\ q = c => agents'[c][q].key # 0 /\ agents'[c][q].perms # 0
            /\ q = Uvn => anchors'[c] = Parts
      BY <1>1, <1>2, <1>3, <1>4, <1>5, <2>1, CellIsNotUvn DEF ImportsFit
    <2>3. agents'[c][c].cert # 0 /\ agents'[c][c].key # 0
      BY <1>1, <1>2, <1>3, <1>4, <1>5 DEF ImportsFit
    <2>4. \A d \in Cells \ {c} : \A q \in IdPeers : agents'[d][q] = agents[d][q]
      BY <1>5
    <2> QED
      BY <1>1, <1>2, <1>6, <2>2, <2>3, <2>4, PartsAreDifferent, UvnIsKnown DEF ImportsFit, Whole
  <1> QED
    BY <1>5, <1>7, <1>8

LEMMA ImportRootFileStep ==
    ASSUME IdInv, NEW c \in Cells, ImportRootFile(c)
    PROVE  CellsInv'
  <1> USE DEF IdInv, CellsInv
  <1>1. PICK i \in 1..3 :
          /\ import[c].part = RootFiles[i]
          /\ anchors' = [anchors EXCEPT ![c] = @ \cup {RootFiles[i]}]
          /\ import' = [import EXCEPT ![c] = IF i < 3 THEN [peer |-> Uvn, part |-> RootFiles[i + 1]]
                                            ELSE [peer |-> Uvn + 1, part |-> "cert"]]
          /\ UNCHANGED <<files, exported, extracted, agents, identified>>
    <2>1. DOMAIN RootFiles = 1..3 /\ Len(RootFiles) = 3
      BY DEF RootFiles
    <2> QED
      BY <2>1 DEF ImportRootFile, Copying, CopiesNext, Registry
  <1>2. PICK n \in Nat, part \in {"cert"} \cup Parts :
          /\ import' = [import EXCEPT ![c] = [peer |-> n, part |-> part]]
          /\ part = "governance" => FALSE
          /\ part = "ca" => i = 1 /\ n = Uvn
          /\ part = "perm_ca" => i = 2 /\ n = Uvn
          /\ part = "cert" => i = 3 /\ n = Uvn + 1
    <2>1. CASE i = 1
      <3>1. import' = [import EXCEPT ![c] = [peer |-> Uvn, part |-> "ca"]]
        <4>1. i + 1 = 2 /\ i < 3
          BY <2>1
        <4>2. RootFiles[i + 1] = "ca"
          BY <4>1, PartsAreDifferent
        <4> QED
          BY <1>1, <4>1, <4>2
      <3> QED
        BY <2>1, <3>1, PartsAreDifferent DEF Uvn
    <2>2. CASE i = 2
      <3>1. import' = [import EXCEPT ![c] = [peer |-> Uvn, part |-> "perm_ca"]]
        <4>1. i + 1 = 3 /\ i < 3
          BY <2>2
        <4>2. RootFiles[i + 1] = "perm_ca"
          BY <4>1, PartsAreDifferent
        <4> QED
          BY <1>1, <4>1, <4>2
      <3> QED
        BY <2>2, <3>1, PartsAreDifferent DEF Uvn
    <2>3. CASE i = 3
      <3>1. import' = [import EXCEPT ![c] = [peer |-> Uvn + 1, part |-> "cert"]]
        BY <2>3, <1>1
      <3>2. Uvn + 1 \in Nat
        BY DEF Uvn
      <3> QED
        BY <2>3, <3>1, <3>2
    <2> QED
      BY <2>1, <2>2, <2>3
  <1>3. /\ import' \in [Cells -> [peer : Nat, part : {"none", "cert", "key", "perms"} \cup Parts]]
        /\ import'[c].peer = n /\ import'[c].part = part
        /\ \A d \in Cells \ {c} : import'[d] = import[d]
    BY <1>2, GoesOn
  <1>4. RootFiles[i] \in Parts
    BY PartsAreDifferent
  <1>5. /\ anchors' \in [Cells -> SUBSET Parts]
        /\ anchors'[c] = anchors[c] \cup {RootFiles[i]}
        /\ \A d \in Cells \ {c} : anchors'[d] = anchors[d]
    BY <1>1, <1>4 DEF ImportTypes
  <1>6. ImportTypes'
    BY <1>1, <1>3, <1>5 DEF ImportTypes
  <1>7. import[c].peer = Uvn /\ agents[c][Uvn].cert # 0 /\ Whole(extracted[c], c)
    BY <1>1, <1>4, PartsAreDifferent DEF ImportsFit
  <1>8. \A q \in IdPeers : q < n => q = Uvn /\ part = "cert"
    BY <1>2, PartsAreDifferent, BackboneAssumption DEF IdPeers, Uvn
  <1>9. /\ i = 2 => "governance" \in anchors[c]
        /\ i = 3 => {"governance", "ca"} \subseteq anchors[c]
    BY <1>1, PartsAreDifferent DEF ImportsFit
  <1>10. i = 3 => anchors'[c] = Parts
    BY <1>5, <1>9, PartsAreDifferent DEF ImportTypes
  <1>11. ImportsFit'
    <2>1. \A q \in IdPeers : q < n =>
            /\ agents'[c][q].cert # 0
            /\ q = c => agents'[c][q].key # 0 /\ agents'[c][q].perms # 0
            /\ q = Uvn => anchors'[c] = Parts
      BY <1>1, <1>2, <1>7, <1>8, <1>10, CellIsNotUvn
    <2>2. /\ part = "ca" => "governance" \in anchors'[c]
          /\ part = "perm_ca" => {"governance", "ca"} \subseteq anchors'[c]
      BY <1>2, <1>5, <1>9, PartsAreDifferent
    <2> QED
      BY <1>1, <1>2, <1>3, <1>5, <1>7, <2>1, <2>2, PartsAreDifferent DEF ImportsFit, Whole
  <1>12. IdentifiedHasAll'
    BY <1>1, <1>5, <1>6 DEF IdentifiedHasAll, Whole, ImportTypes
  <1> QED
    BY <1>1, <1>6, <1>11, <1>12 DEF CopiesFit, Copied, ExportsWhole, Whole

\* An install that ends has looked at all peers.
LEMMA ImportEndsStep ==
    ASSUME IdInv, NEW c \in Cells, ImportEnds(c)
    PROVE  CellsInv'
  <1> USE DEF IdInv, CellsInv
  <1>1. /\ import[c].part = "cert" /\ import[c].peer > LastPeer
        /\ extracted' = [extracted EXCEPT ![c] = NoCopies]
        /\ import' = [import EXCEPT ![c] = [peer |-> Uvn, part |-> "none"]]
        /\ identified' = [identified EXCEPT ![c] = TRUE]
        /\ UNCHANGED <<files, exported, agents, anchors>>
    BY DEF ImportEnds, Copying, Registry, NoImport
  <1>2. \A p \in IdPeers : p < import[c].peer
    BY <1>1, IdentityAssumption DEF IdPeers, Uvn, ImportTypes
  <1>3. Whole(agents[c], c) /\ anchors[c] = Parts
    BY <1>1, <1>2, UvnIsKnown DEF ImportsFit, Whole
  <1>4. NoCopies \in [IdPeers -> Identity] /\ Copied(NoCopies)
    BY DEF NoCopies, NoFiles, Identity, Copied
  <1>5. /\ extracted'[c] = NoCopies /\ import'[c].part = "none"
        /\ \A d \in Cells \ {c} : extracted'[d] = extracted[d] /\ import'[d] = import[d]
        /\ \A d \in Cells : identified'[d] => d = c \/ identified[d]
    BY <1>1 DEF ImportTypes
  <1>6. ImportTypes'
    BY <1>1, <1>4 DEF ImportTypes, Uvn
  <1>7. CopiesFit'
    BY <1>1, <1>4, <1>5 DEF CopiesFit, Copied
  <1>8. ImportsFit'
    BY <1>1, <1>5, PartsAreDifferent DEF ImportsFit, Whole
  <1>9. IdentifiedHasAll'
    BY <1>1, <1>3, <1>5 DEF IdentifiedHasAll, Whole
  <1> QED
    BY <1>1, <1>6, <1>7, <1>8, <1>9 DEF ExportsWhole, Whole

LEMMA ImportDiesStep ==
    ASSUME IdInv, NEW c \in Cells, ImportDies(c)
    PROVE  CellsInv'
  <1> USE DEF IdInv, CellsInv
  <1>1. /\ import' = [import EXCEPT ![c] = [peer |-> Uvn, part |-> "none"]]
        /\ UNCHANGED <<files, exported, extracted, agents, anchors, identified>>
    BY DEF ImportDies, Registry, NoImport
  <1>2. ImportTypes'
    BY <1>1 DEF ImportTypes, Uvn
  <1>3. import'[c].part = "none" /\ \A d \in Cells \ {c} : import'[d] = import[d]
    BY <1>1 DEF ImportTypes
  <1>4. ImportsFit'
    BY <1>1, <1>3, PartsAreDifferent DEF ImportsFit, Whole
  <1> QED
    BY <1>1, <1>2, <1>4 DEF CopiesFit, Copied, ExportsWhole, Whole, IdentifiedHasAll

\* A step of an install.
LEMMA ImportStep ==
    ASSUME IdInv, NEW c \in Cells,
           \/ Extract(c) \/ ImportCert(c) \/ ImportKey(c) \/ ImportPermissions(c)
           \/ ImportRootFile(c) \/ ImportEnds(c) \/ ImportDies(c)
    PROVE  IdInv'
  <1>1. UNCHANGED Registry
    BY DEF Extract, ImportCert, ImportKey, ImportPermissions, ImportRootFile, ImportEnds, ImportDies
  <1>2. CellsInv'
    BY ExtractStep, ImportCertStep, ImportKeyStep, ImportPermissionsStep, ImportRootFileStep,
       ImportEndsStep, ImportDiesStep
  <1> QED
    BY <1>1, <1>2, RegistryStays DEF IdInv

LEMMA IdStep == IdInv /\ [IdNext]_allvars => IdInv'
  <1> SUFFICES ASSUME IdInv, [IdNext]_allvars PROVE IdInv'
    OBVIOUS
  <1>1. CASE IdNext
    BY <1>1, BackboneIdStep, KeyFoundStep, GenerateRootStep, RootFileStep, CreateKeyStep,
       SignCertStep, SignPermissionsStep, KeysAssertedStep, ExportStep, ExportFailsStep,
       DieAnywhereStep, ImportStep DEF IdNext
  <1>2. CASE UNCHANGED allvars
    <2>1. BInv'
      BY <1>2, StutterStep DEF IdInv, allvars
    <2> QED
      BY <1>2, <2>1, CellsStay DEF IdInv, allvars, vars, idvars, IdTypes, StageFits, FilesFit,
         HalfMadeIsExplained, ErrorsExplained
  <1> QED
    BY <1>1, <1>2

LEMMA IdInvariant == IdSpec => []IdInv
  BY IdInitStep, IdStep, PTL DEF IdSpec

-----------------------------------------------------------------------------
\* The packages that lie in the registry fit together, for any number of cells
\* and links, also after commands that died between any two rows, deletions or
\* packages (registry.py assert_keys, _deploy and generate_artifacts).
THEOREM PackagesCorrect == IdSpec => []PackagesFit
  <1>1. IdInv => PackagesFit
    BY DEF IdInv, BInv
  <1> QED
    BY <1>1, IdInvariant, PTL

\* No key of the backbone outlives the link it was made for: the keys are
\* deleted before the deployment is replaced (registry.py _deploy).
THEOREM StoredKeysCorrect == IdSpec => []StoredAreDeployed
  <1>1. IdInv => StoredAreDeployed
    BY DEF IdInv, BInv
  <1> QED
    BY <1>1, IdInvariant, PTL

\* Commands fail only over what an earlier one left half made, and a
\* redeployment never fails over half of the keys of a link.
THEOREM FailuresExplained == IdSpec => []FailsOnlyIfBroken
  <1>1. IdInv => FailsOnlyIfBroken
    BY DEF IdInv, BInv, ErrorsExplained, FailsOnlyIfBroken
  <1> QED
    BY <1>1, IdInvariant, PTL

\* A certificate is always one of the key next to it (certificate_authority.py
\* create_cert replaces a key only as long as nothing is signed with it).
THEOREM KeysMatchCorrect == IdSpec => []KeysMatch
  <1>1. IdInv => KeysMatch
    BY DEF IdInv, FilesFit, KeysMatch
  <1> QED
    BY <1>1, IdInvariant, PTL

\* A cell keeps its identity, however often commands and installs die: the files
\* that its agent has are those of the registry, and from the first install that
\* has ended on they are complete (IdentityDatabase.import_keys, import_key).
THEOREM IdentitiesKept == IdSpec => []AgentsIdentified
  <1>1. IdInv => AgentsIdentified
    <2> SUFFICES ASSUME IdInv, NEW c \in Cells
                 PROVE  /\ \A p \in IdPeers :
                            /\ agents[c][p].key \in {0, files[p].key}
                            /\ agents[c][p].cert \in {0, files[p].cert}
                            /\ agents[c][p].perms \in {0, files[p].perms}
                        /\ identified[c] =>
                            /\ agents[c][c].key # 0
                            /\ agents[c][c].cert = agents[c][c].key
                            /\ agents[c][c].perms = agents[c][c].key
                            /\ \A p \in IdPeers : agents[c][p].cert # 0
                            /\ anchors[c] = {RootFiles[i] : i \in DOMAIN RootFiles}
      BY DEF AgentsIdentified
    <2>1. Copied(agents[c])
      BY DEF IdInv, CellsInv, CopiesFit
    <2>2. identified[c] => Whole(agents[c], c) /\ anchors[c] = Parts
      BY DEF IdInv, CellsInv, IdentifiedHasAll
    <2>3. files[c].cert \in {0, files[c].key} /\ files[c].perms \in {0, files[c].cert}
      BY UvnIsKnown DEF IdInv, FilesFit
    <2> QED
      BY <2>1, <2>2, <2>3, UvnIsKnown DEF Copied, Whole, Parts
  <1> QED
    BY <1>1, IdInvariant, PTL

=============================================================================
