-------------------------- MODULE MCRegistryAdmin --------------------------
(* An instance of RegistryAdmin for TLC: names are interchangeable. *)
EXTENDS RegistryAdmin, TLC

Symmetry == Permutations(Cells) \cup Permutations(Lans)

=============================================================================
