----------------------------- MODULE MCSignals ------------------------------
(***************************************************************************)
(* Instances of Signals for TLC.                                           *)
(***************************************************************************)
EXTENDS Signals, TLC

Symmetry == Permutations(Keys)
=============================================================================
