---------------------------- MODULE MCUringWorker ----------------------------
(* Small instances of UringWorker.                                         *)
EXTENDS UringWorker, TLC

CONSTANTS s1, s2, f1, f2

(* The slots of the pool are interchangeable, and so are descriptors.      *)
Symmetry == Permutations(Sessions) \cup Permutations(Fds)
=============================================================================
