------------------------------ MODULE MCSrwLock ------------------------------
(* Instances of SrwLock for TLC.                                            *)
EXTENDS SrwLock

Symmetry == Permutations(Threads)
=============================================================================
