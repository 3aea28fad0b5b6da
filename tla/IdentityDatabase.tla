--------------------------- MODULE IdentityDatabase --------------------------
(***************************************************************************)
(* The identities of the UVN and its cells for the middleware              *)
(* (registry/id_db.py, keys_backend_dds.py, certificate_authority.py): the *)
(* files that the registry makes for every peer that has no certificate,   *)
(* after the keys of the VPNs, what it exports of them into the package of *)
(* a cell, and how the cell copies them, one by one.                       *)
(*                                                                         *)
(* The module composes with BackboneKeys: a command first makes the keys   *)
(* of the links, then the identities, and then writes a package of both.   *)
(* The files are made one after the other, and a command may die between   *)
(* any two.  Nothing records how far it came: the next command looks for   *)
(* the certificates only.  The same goes for the install of a package, but *)
(* the next install copies all files again.                                *)
(*                                                                         *)
(* Abstractions: the n-th key made for a peer is the number n, and so is a *)
(* certificate of that key, or the permissions signed with it.             *)
(***************************************************************************)
EXTENDS BackboneKeys, Integers

CONSTANT
    Importers  \* bound: the cells that install their packages

Uvn == 0
IdPeers == Cells \cup {Uvn}

LastPeer == CHOOSE p \in IdPeers : \A q \in IdPeers : q <= p

\* The peers are looked at in the order of their ids, which have no gaps.
ASSUME IdentityAssumption ==
    LastPeer \in Nat /\ Cells = 1..LastPeer /\ Importers \subseteq Cells

\* The files of the root, in the order in which they are made: the directory
\* of the CA, the CA, the permissions CA, three directories, the governance.
NoRoot == 0
AllOfRoot == 5

NoFiles == [key |-> 0, cert |-> 0, perms |-> 0]
NoCopies == [p \in IdPeers |-> NoFiles]

\* The files of the root that every package has, in the order of their import.
RootFiles == <<"governance", "ca", "perm_ca">>

NoImport == [peer |-> Uvn, part |-> "none"]

VARIABLES
    root,      \* how many of the files of the root there are
    files,     \* the key, the certificate and the permissions of a peer
    peer,      \* the peer whose identity is looked at, or the one after the last
    stage,     \* what is being made for it
    exported,  \* the files of all peers in the package of a cell
    extracted, \* .id-import in a cell's directory
    import,    \* the file that an install in a cell's directory copies next
    agents,    \* the files of all peers that a cell's agent uses
    anchors,   \* the files of the root that it uses
    \* History
    broken,    \* a command died while it made an identity
    identified \* an install of the cell has ended

cellvars == <<extracted, import, agents, anchors, identified>>
idvars == <<root, files, peer, stage, exported, cellvars, broken>>
allvars == <<vars, idvars>>

IdInit ==
    /\ Init
    /\ root = NoRoot
    /\ files = [p \in IdPeers |-> NoFiles]
    /\ peer = Uvn
    /\ stage = "look"
    /\ exported = [c \in Cells |-> NoCopies]
    /\ extracted = [c \in Cells |-> NoCopies]
    /\ import = [c \in Cells |-> NoImport]
    /\ agents = [c \in Cells |-> NoCopies]
    /\ anchors = [c \in Cells |-> {}]
    /\ broken = FALSE
    /\ identified = [c \in Cells |-> FALSE]

-----------------------------------------------------------------------------
(* IdentityDatabase.assert_keys                                            *)

\* Mutation of get_key: cells are given a new certificate every time.
get_key_of_root(p) == files[p].cert # 0 /\ p = Uvn

\* The keys are found by their certificates; a peer has an identity if there
\* is one.
search_keys == {p \in IdPeers : files[p].cert # 0}
get_key(p) == p \in search_keys

\* The VPN keys are complete, and the identities are looked at.
Asserting ==
    /\ Step("assert")
    /\ \A q \in cmd.edges : Len(cmd.keys[q]) = 2 /\ cmd.psks[q] # NoKey
    /\ peer <= LastPeer

KeyFound ==
    /\ Asserting /\ stage = "look"
    /\ get_key(peer)
    /\ peer' = peer + 1
    /\ UNCHANGED <<vars, root, files, stage, exported, cellvars, broken>>

\* generate_key of the root: CertificateAuthority.init makes a directory that
\* must not exist.
GenerateRoot ==
    /\ Asserting /\ stage = "look" /\ peer = Uvn
    /\ ~get_key(peer)
    /\ IF root = NoRoot
       THEN root' = 1 /\ stage' = "root" /\ UNCHANGED <<cmd, last, peer>>
       ELSE Ends("FileExistsError") /\ peer' = Uvn /\ UNCHANGED <<root, stage>>
    /\ UNCHANGED <<rows, packages, files, exported, cellvars, broken>>

RootFile ==
    /\ Asserting /\ stage = "root" /\ root < AllOfRoot
    /\ root' = root + 1
    /\ UNCHANGED <<vars, files, peer, stage, exported, cellvars, broken>>

\* create_cert, the key: it replaces one that is there.
CreateKey ==
    /\ Asserting
    /\ \/ stage = "root" /\ root = AllOfRoot
       \/ stage = "look" /\ peer # Uvn /\ ~get_key(peer)
    /\ files[peer].key < MaxKeys
    /\ files' = [files EXCEPT ![peer].key = @ + 1]
    /\ stage' = "sign"
    /\ UNCHANGED <<vars, root, peer, exported, cellvars, broken>>

\* sign_cert
SignCert ==
    /\ Asserting /\ stage = "sign"
    /\ files' = [files EXCEPT ![peer].cert = files[peer].key]
    /\ stage' = "permissions"
    /\ UNCHANGED <<vars, root, peer, exported, cellvars, broken>>

\* The permissions CA signs the permissions of the peer's certificate.
sign_file(p) == [files EXCEPT ![p].perms = files[p].cert]

\* Mutation of SignPermissions: the registry needs them, cells do not.
SignPermissionsOfRoot ==
    /\ Asserting /\ stage = "permissions"
    /\ files' = IF peer = Uvn THEN sign_file(peer) ELSE files
    /\ stage' = "look"
    /\ peer' = peer + 1
    /\ UNCHANGED <<vars, root, exported, cellvars, broken>>

\* _assert_peer, after create_cert: the peer is done.
SignPermissions ==
    /\ Asserting /\ stage = "permissions"
    /\ files' = sign_file(peer)
    /\ stage' = "look"
    /\ peer' = peer + 1
    /\ UNCHANGED <<vars, root, exported, cellvars, broken>>

-----------------------------------------------------------------------------
(* The packages.                                                           *)

\* registry.assert_keys returns, and the packages of the last command are
\* deleted, if anything but an identity has changed.
KeysAsserted ==
    /\ AssertDone /\ peer > LastPeer
    /\ exported' = IF cmd.changed THEN [c \in Cells |-> NoCopies] ELSE exported
    /\ peer' = Uvn
    /\ UNCHANGED <<root, files, stage, cellvars, broken>>

\* export_keys for the cell c: the certificates of all peers, and all of its
\* own files.
export_keys(c) ==
    [p \in IdPeers |-> IF p = c THEN files[p] ELSE [NoFiles EXCEPT !.cert = files[p].cert]]

\* The keys are exported, and then the rest of the package is made.
ExportAndPackage(c) ==
    /\ files[c].perms # 0
    /\ Package(c)
    /\ exported' = [exported EXCEPT ![c] = export_keys(c)]
    /\ UNCHANGED <<root, files, peer, stage, cellvars, broken>>

\* A file that is to be copied does not exist.
ExportFails(c) ==
    /\ Step("package") /\ c \in cmd.todo
    /\ files[c].perms = 0
    /\ Ends("CpError")
    /\ UNCHANGED <<rows, packages, idvars>>

\* A command ends at once: Die, and here it may leave a peer half done.
DieAnywhere ==
    /\ Die
    /\ broken' = (broken \/ stage # "look")
    /\ peer' = Uvn
    /\ stage' = "look"
    /\ UNCHANGED <<root, files, exported, cellvars>>

-----------------------------------------------------------------------------
(* A cell installs its package; one process at a time does.                *)

Registry == <<vars, root, files, peer, stage, exported, broken>>

Copying(c, part) == import[c].part = part
CopiesNext(c, p, part) == import' = [import EXCEPT ![c] = [peer |-> p, part |-> part]]

\* install_package, or the reload of an agent: the package is extracted.
Extract(c) ==
    /\ c \in Importers
    /\ Copying(c, "none")
    /\ exported[c] # NoCopies
    /\ extracted' = [extracted EXCEPT ![c] = exported[c]]
    /\ CopiesNext(c, Uvn, "cert")
    /\ UNCHANGED <<Registry, agents, anchors, identified>>

\* import_key, the certificate of a peer. Of itself a cell has two more files,
\* and of the UVN those of the root.
ImportCert(c) ==
    LET p == import[c].peer IN
    /\ Copying(c, "cert")
    /\ p <= LastPeer
    /\ extracted[c][p].cert # 0
    /\ agents' = [agents EXCEPT ![c][p].cert = extracted[c][p].cert]
    /\ CASE p = c   -> CopiesNext(c, p, "key")
         [] p = Uvn -> CopiesNext(c, p, RootFiles[1])
         [] OTHER   -> CopiesNext(c, p + 1, "cert")
    /\ UNCHANGED <<Registry, extracted, anchors, identified>>

ImportKey(c) ==
    /\ Copying(c, "key")
    /\ agents' = [agents EXCEPT ![c][c].key = extracted[c][c].key]
    /\ CopiesNext(c, c, "perms")
    /\ UNCHANGED <<Registry, extracted, anchors, identified>>

ImportPermissions(c) ==
    /\ Copying(c, "perms")
    /\ agents' = [agents EXCEPT ![c][c].perms = extracted[c][c].perms]
    /\ CopiesNext(c, c + 1, "cert")
    /\ UNCHANGED <<Registry, extracted, anchors, identified>>

ImportRootFile(c) ==
    \E i \in DOMAIN RootFiles :
        /\ Copying(c, RootFiles[i])
        /\ anchors' = [anchors EXCEPT ![c] = @ \cup {RootFiles[i]}]
        /\ IF i < Len(RootFiles) THEN CopiesNext(c, Uvn, RootFiles[i + 1])
           ELSE CopiesNext(c, Uvn + 1, "cert")
        /\ UNCHANGED <<Registry, extracted, agents, identified>>

\* import_keys is done, and .id-import is deleted.
ImportEnds(c) ==
    /\ Copying(c, "cert")
    /\ import[c].peer > LastPeer
    /\ extracted' = [extracted EXCEPT ![c] = NoCopies]
    /\ import' = [import EXCEPT ![c] = NoImport]
    /\ identified' = [identified EXCEPT ![c] = TRUE]
    /\ UNCHANGED <<Registry, agents, anchors>>

\* The process dies, or a copy fails. What it has copied stays, and nothing
\* goes on with it: the next install extracts its package over .id-import and
\* copies everything.
ImportDies(c) ==
    /\ ~Copying(c, "none")
    /\ import' = [import EXCEPT ![c] = NoImport]
    /\ UNCHANGED <<Registry, extracted, agents, anchors, identified>>

\* The steps of BackboneKeys before the identities are looked at.
BackboneStep ==
    /\ \/ \E kind \in {"redeploy", "other", "none"}, E \in SUBSET Pairs : Start(kind, E)
       \/ DropPairKeys \/ DropPsks \/ SaveDeployment
       \/ \E q \in Pairs : MakeKey(q) \/ MakePsk(q) \/ AssertRaises(q)
    /\ UNCHANGED idvars

IdNext ==
    \/ BackboneStep
    \/ KeyFound \/ GenerateRoot \/ RootFile \/ CreateKey \/ SignCert \/ SignPermissions
    \/ KeysAsserted
    \/ \E c \in Cells : ExportAndPackage(c) \/ ExportFails(c)
    \/ \E c \in Cells :
        \/ Extract(c) \/ ImportCert(c) \/ ImportKey(c) \/ ImportPermissions(c)
        \/ ImportRootFile(c) \/ ImportEnds(c) \/ ImportDies(c)
    \/ DieAnywhere

IdSpec == IdInit /\ [][IdNext]_allvars

-----------------------------------------------------------------------------
(* Properties.                                                             *)

\* A certificate is always one of the key that lies next to it, whatever died
\* between the making of the two, and permissions are never older or newer.
KeysMatch ==
    \A p \in IdPeers : files[p].cert # 0 =>
        files[p].key = files[p].cert /\ files[p].perms \in {0, files[p].cert}

\* Commands fail over what an earlier one left half made, and over nothing
\* else. An identity that is half made stops all of them, because nothing makes
\* the rest; half of the keys of a link stops all but a redeployment.
FailsOnlyIfBroken ==
    /\ last.how \in {"FileExistsError", "CpError"} => broken
    /\ RedeployRepairs

\* A cell keeps its identity, whatever dies in the registry or in the cell.
\* Every file that its agent has of a peer is the one that the registry has
\* now; and from the first install that has ended on, the agent has all of its
\* own files, which fit together, the certificate of every peer, and the files
\* of the root, also after later installs that died in between. (Before, a dead
\* install leaves a cell with a part of them.)
AgentsIdentified ==
    \A c \in Cells :
        /\ \A p \in IdPeers :
            /\ agents[c][p].key \in {0, files[p].key}
            /\ agents[c][p].cert \in {0, files[p].cert}
            /\ agents[c][p].perms \in {0, files[p].perms}
        /\ identified[c] =>
            /\ agents[c][c].key # 0
            /\ agents[c][c].cert = agents[c][c].key /\ agents[c][c].perms = agents[c][c].key
            /\ \A p \in IdPeers : agents[c][p].cert # 0
            /\ anchors[c] = {RootFiles[i] : i \in DOMAIN RootFiles}

=============================================================================
