---------------------------- MODULE MCEpollWorker ----------------------------
(* Small instances of EpollWorker.                                         *)
EXTENDS EpollWorker, TLC

CONSTANTS w1, w2, s1, s2, s3, f1, f2, f3

(* Two slots of w1's pool and one of w2's, or three of w1's alone.         *)
HomeOfTwo == s1 :> w1 @@ s2 :> w1 @@ s3 :> w2
HomeOfOne == [s \in Sessions |-> w1]

(* Descriptors are interchangeable, and so are the slots of one pool.      *)
Symmetry == Permutations(Fds) \cup Permutations({s1, s2})
=============================================================================
