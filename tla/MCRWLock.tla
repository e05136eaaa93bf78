------------------------------ MODULE MCRWLock ------------------------------
(* Small instances of RWLock: the configurations give the sets of threads. *)
EXTENDS RWLock, TLC

CONSTANTS t1, t2, t3, t4, t5, t6

(* Threads that play the same role can be exchanged.                       *)
Symmetry == Permutations(Readers) \cup Permutations(Writers)
                                  \cup Permutations(Traversers)
=============================================================================
