--------------------------- MODULE MCKeyLifecycle ---------------------------
(***************************************************************************)
(* Instances of KeyLifecycle for TLC.                                      *)
(***************************************************************************)
EXTENDS KeyLifecycle, TLC

Symmetry == Permutations(Keys) \cup Permutations(Workers)
=============================================================================
