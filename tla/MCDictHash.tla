----------------------------- MODULE MCDictHash -------------------------------
(* Small instances of DictHash: keys and hashes.  With Max = 8 the table   *)
(* doubles at its fifth key, and a bucket b splits into b and b + 8.       *)
EXTENDS DictHash, TLC

CONSTANTS k1, k2, k3, k4, k5, k6, v1, v2

(* Bucket 0 has three keys, of which the first two move; of the two keys   *)
(* of bucket 1 one moves.                                                  *)
Mixed ==
    [k \in Key |-> CASE k = k1 -> 8 [] k = k2 -> 24 [] k = k3 -> 16
                     [] k = k4 -> 1 [] k = k5 -> 9 [] OTHER -> 2]

Symmetry == Permutations(Value)
=============================================================================
