-------------------------------- MODULE MCApp ---------------------------------
(***************************************************************************)
(* Small instances of CfsApp for TLC.                                      *)
(***************************************************************************)
EXTENDS CfsApp, TLC

RecordSymmetry == Permutations(Records)
==============================================================================
