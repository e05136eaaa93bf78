------------------------------ MODULE MCQueue -------------------------------
(* Small instances of Queue: the configurations name the threads.          *)
EXTENDS QueueEmpty, TLC

CONSTANTS p1, p2, g1, g2, e1, v1, v2

(* The threads that may be killed are not like the others.                 *)
Symmetry == Permutations(Putters \ Killable) \cup Permutations(Getters \ Killable)
                                  \cup Permutations(Values)
=============================================================================
