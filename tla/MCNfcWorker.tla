----------------------------- MODULE MCNfcWorker ------------------------------
(***************************************************************************)
(* Small instances of CfsNfcWorker for TLC: the symmetry of the records,   *)
(* and tags as one writer leaves them.                                     *)
(***************************************************************************)
EXTENDS CfsNfcWorker, TLC

RecordSymmetry == Permutations(Records)

\* Each tag comes with the trailer of one writer: both keys of a kind.
PairedInit == Init /\ keyB = keyA

PairedSpec == PairedInit /\ [][Next]_vars
==============================================================================
