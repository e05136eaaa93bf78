----------------------------- MODULE MCDictList -------------------------------
(* Small instances of DictList: the configurations name nodes and readers. *)
EXTENDS DictList, TLC

CONSTANTS n1, n2, n3, n4, r1, r2

Symmetry == Permutations(Node) \cup Permutations(Readers)

Indexes == {-4, -2, 0, 1, 2, 3}
=============================================================================
