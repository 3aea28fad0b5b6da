-------------------------- MODULE MCRandomDeployment --------------------------
(* Cells are interchangeable: which of them are private is part of the      *)
(* initial states.                                                          *)
EXTENDS RandomDeployment, TLC

PeersSymmetry == Permutations(Peers)

===============================================================================
