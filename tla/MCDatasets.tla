---------------------------- MODULE MCDatasets ----------------------------
(***************************************************************************)
(* Two names and two directories are alike.                                *)
(***************************************************************************)
EXTENDS Datasets, TLC

Alike == Permutations(Names) \union Permutations(Dirs)
=============================================================================
