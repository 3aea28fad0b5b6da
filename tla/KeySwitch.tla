----------------------------- MODULE KeySwitch -----------------------------
(***************************************************************************)
(* What the rekeying of a UVN promises (src/uno/agent/agent.py,            *)
(* spin_until_consistent): the registry keeps using the old keys of the    *)
(* root VPN until no cell depends on them any more.  A cell that is lost   *)
(* while the new keys are pushed, or that is rekeyed once more by another  *)
(* command in the meantime, is given up.                                   *)
(***************************************************************************)
CONSTANT Cells

VARIABLES
    rekeyed,    \* the registry still uses the old keys
    depends,    \* the cells that only have keys which the registry will drop
    given_up    \* the cells that the registry no longer waits for

vars == <<rekeyed, depends, given_up>>

TypeOK ==
    /\ rekeyed \in BOOLEAN
    /\ depends \subseteq Cells
    /\ given_up \subseteq Cells

Init ==
    /\ rekeyed = FALSE
    /\ depends = {}
    /\ given_up = {}

\* New keys are made, perhaps while earlier ones are being pushed.
Rekey ==
    /\ rekeyed' = TRUE
    /\ depends' \in SUBSET Cells
    /\ depends \subseteq depends'
    /\ given_up' \in SUBSET Cells
    /\ given_up \subseteq given_up'

\* Cells install the keys they were sent.
Install ==
    /\ depends' \in SUBSET depends
    /\ UNCHANGED <<rekeyed, given_up>>

\* Cells get lost, perhaps with keys they had not installed yet.
GiveUp ==
    /\ given_up' \in SUBSET Cells
    /\ given_up \subseteq given_up'
    /\ depends' \in SUBSET (depends \cup given_up')
    /\ depends \subseteq depends'
    /\ UNCHANGED rekeyed

\* The registry drops the old keys.
Switch ==
    /\ rekeyed
    /\ depends \subseteq given_up
    /\ rekeyed' = FALSE
    /\ UNCHANGED <<depends, given_up>>

Next == Rekey \/ Install \/ GiveUp \/ Switch

Spec == Init /\ [][Next]_vars

=============================================================================
