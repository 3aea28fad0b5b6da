---------------------------- MODULE MCRootKeymat -----------------------------
(***************************************************************************)
(* Instances of RootKeymat: the cells are interchangeable.                 *)
(***************************************************************************)
EXTENDS RootKeymat, TLC

CellsSymmetry == Permutations(Cells)

=============================================================================
