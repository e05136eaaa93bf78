------------------------------- MODULE DictHash -------------------------------
(***************************************************************************)
(* The hash table of dict.c: an array of max buckets, each NULL or a list  *)
(* of dict.c, doubled by dict_hash_rehash.  A dict_hash_node (dhn) and the *)
(* list node that points to it are both named by their key.  set and del   *)
(* hold the write lock of the table, and so do the steps of a rehash; get  *)
(* looks the dhn up under the read lock, which is Contains and data[k].    *)
(***************************************************************************)
EXTENDS DictListOps, FiniteSets

Key == Node

CONSTANTS Value,
          Max,          \* the argument of dict_hash_new
          Hash,         \* dict_hash_map: the hash of every key
          Deletes       \* keys are deleted

ASSUME DictHashAssumption ==
    /\ Max \in Nat /\ Max >= 8     \* smaller: dh->max >> 3 is zero, and a divisor
    /\ Hash \in [Key -> Nat]
    /\ NULL \notin Value /\ Deletes \in BOOLEAN

VARIABLES max, size,
          table,        \* dh->list, for the buckets that were made
          data,         \* dhn->data of each key, NULL if the dhn is freed
          map,          \* the history of the calls: what each key stands for
          walk,         \* dict_hash_rehash: bucket, dln and num, off when idle
          crowded       \* the history of the rehashes: one met a bucket that
                        \* had three nodes or remembered one

vars == <<max, size, table, data, map, walk, crowded>>

Off == [on |-> FALSE, bucket |-> 0, node |-> NULL, num |-> 0]

TypeOK ==
    /\ max \in Nat /\ size \in Nat
    /\ DOMAIN table \subseteq 0..(max - 1)
    /\ \A b \in DOMAIN table : table[b].nodes \in Seq(Key)
    /\ data \in [Key -> Value \cup {NULL}] /\ map \in [Key -> Value \cup {NULL}]
    /\ walk \in [on: BOOLEAN, bucket: 0..max, node: Key \cup {NULL}, num: Nat]
    /\ crowded \in BOOLEAN

(* dict_hash_new.                                                          *)
Init ==
    /\ max = Max /\ size = 0
    /\ table = [b \in {} |-> NewList]
    /\ data = [k \in Key |-> NULL]
    /\ map = [k \in Key |-> NULL]
    /\ walk = Off
    /\ crowded = FALSE
(* Mutant: the hash not reduced to the table.                              *)
Bucket_NoModulo(k) == Hash[k]

Bucket(k) == Hash[k] % max

(* __dict_list_each_2 over the bucket, comparing keys.                     *)
Contains(k) == Bucket(k) \in DOMAIN table /\ k \in Linked(table[Bucket(k)])

BucketList(b) == IF b \in DOMAIN table THEN table[b] ELSE NewList

Put(tab, b, l) == [c \in DOMAIN tab \cup {b} |-> IF c = b THEN l ELSE tab[c]]

Crowded(l) == Size(l) > 2 \/ l.fast # NULL

-----------------------------------------------------------------------------
(* dict_hash_set                                                           *)

dict_hash_set_new(k, v) ==
    /\ ~walk.on /\ ~Contains(k)
    /\ LET b == Bucket(k) IN table' = Put(table, b, Append1(BucketList(b), k))
    /\ data' = [data EXCEPT ![k] = v]
    /\ map' = [map EXCEPT ![k] = v]
    /\ size' = size + 1
    /\ LET grow == max \div 2 < size + 1 /\ (size + 1) % (max \div 8) = 0 IN
        /\ max' = IF grow THEN 2 * max ELSE max
        /\ walk' = IF grow THEN [Off EXCEPT !.on = TRUE] ELSE walk
        /\ crowded' = (crowded \/ (grow /\ \E b \in DOMAIN table' : Crowded(table'[b])))
(* Mutant: the old data freed and the new not stored.                      *)
dict_hash_set_again_Lost(k, v) ==
    /\ ~walk.on /\ Contains(k)
    /\ data' = [data EXCEPT ![k] = NULL]
    /\ map' = [map EXCEPT ![k] = v]
    /\ UNCHANGED <<max, size, table, walk, crowded>>

dict_hash_set_again(k, v) ==
    /\ ~walk.on /\ Contains(k)
    /\ data' = [data EXCEPT ![k] = v]
    /\ map' = [map EXCEPT ![k] = v]
    /\ UNCHANGED <<max, size, table, walk, crowded>>

-----------------------------------------------------------------------------
(* dict_hash_rehash, after the array was doubled: bucket by bucket, node   *)
(* by node.  The index num counts the nodes walked, also the moved ones.   *)

rehash_bucket ==
    /\ walk.on /\ walk.node = NULL /\ walk.bucket < max
    /\ walk' = [walk EXCEPT !.node = NodeAt(BucketList(walk.bucket), 0), !.num = 0,
                            !.bucket = IF NodeAt(BucketList(@), 0) = NULL THEN @ + 1 ELSE @]
    /\ UNCHANGED <<max, size, table, data, map, crowded>>

(* dln_next was read before the callback ran; after the last node the loop *)
(* goes to the next bucket.                                                *)
Advance(next) ==
    walk' = [walk EXCEPT !.node = next, !.num = @ + 1,
                         !.bucket = IF next = NULL THEN @ + 1 ELSE @]

NextNode(l, n) == NodeAt(l, IndexOf(l, n) + 1)

rehash_keep ==
    /\ walk.on /\ walk.node \in Linked(BucketList(walk.bucket))
    /\ Bucket(walk.node) = walk.bucket
    /\ Advance(NextNode(table[walk.bucket], walk.node))
    /\ UNCHANGED <<max, size, table, data, map, crowded>>
(* Mutant: not popped.                                                     *)
rehash_move_NotPopped ==
    /\ walk.on /\ walk.node \in Linked(BucketList(walk.bucket))
    /\ LET b == Bucket(walk.node) IN
        /\ b # walk.bucket
        /\ table' = Put(table, b, Append1(BucketList(b), walk.node))
    /\ Advance(NextNode(table[walk.bucket], walk.node))
    /\ UNCHANGED <<max, size, data, map, crowded>>

rehash_move ==
    /\ walk.on /\ walk.node \in Linked(BucketList(walk.bucket))
    /\ LET b == Bucket(walk.node) IN
        /\ b # walk.bucket
        /\ \E p \in Popped(table[walk.bucket], walk.num) :
            /\ p.node # NULL
            /\ table' = Put(Put(table, walk.bucket, p.list), b, Append1(BucketList(b), p.node))
    /\ Advance(NextNode(table[walk.bucket], walk.node))
    /\ UNCHANGED <<max, size, data, map, crowded>>

(* The walk is at a list node that was freed: whatever it reads there, it  *)
(* may take it for the end of the list.                                    *)
rehash_lost ==
    /\ walk.on /\ walk.node # NULL
    /\ walk.node \notin Linked(BucketList(walk.bucket))
    /\ Advance(NULL)
    /\ UNCHANGED <<max, size, table, data, map, crowded>>

rehash_end ==
    /\ walk.on /\ walk.bucket = max
    /\ walk' = Off
    /\ UNCHANGED <<max, size, table, data, map, crowded>>

dict_hash_rehash ==
    rehash_bucket \/ rehash_keep \/ rehash_move \/ rehash_lost \/ rehash_end

-----------------------------------------------------------------------------
(* dict_hash_del: the list node at the key's index goes, and the key's dhn.*)
dict_hash_del(k) ==
    /\ Deletes /\ ~walk.on
    /\ IF Contains(k)
       THEN LET b == Bucket(k) IN
            /\ \E p \in Deleted(table[b], IndexOf(table[b], k)) : table' = Put(table, b, p.list)
            /\ data' = [data EXCEPT ![k] = NULL]
            /\ size' = size - 1
       ELSE UNCHANGED <<table, data, size>>
    /\ map' = [map EXCEPT ![k] = NULL]
    /\ UNCHANGED <<max, walk, crowded>>

-----------------------------------------------------------------------------

Step ==
    \/ \E k \in Key, v \in Value : dict_hash_set_new(k, v) \/ dict_hash_set_again(k, v)
    \/ dict_hash_rehash
    \/ \E k \in Key : dict_hash_del(k)

Spec == Init /\ [][Step]_vars

-----------------------------------------------------------------------------
(* Properties: but for KeysFound, of tables that were not doubled while a  *)
(* bucket was crowded, which dict_hash_rehash does not survive.            *)

(* When nobody rehashes, a key is found exactly if it was set and not      *)
(* deleted since, and with the value set last: however often the table was *)
(* doubled, as test 4 of the hash in dict.c looks it up.                   *)
KeysFound ==
    ~walk.on => \A k \in Key : /\ Contains(k) <=> map[k] # NULL
                               /\ Contains(k) => data[k] = map[k]

(* The same, where no rehash met a crowded bucket: neither such a rehash   *)
(* nor a deletion through a bucket's fast node loses or misplaces a key;   *)
(* and dh->size counts the keys, so that the table grows when it should.   *)
LookupFinds == crowded \/ (KeysFound /\ size = Cardinality({k \in Key : map[k] # NULL}))

(* The index at which a key is found leads back to its own list node, so   *)
(* dict_hash_del unlinks that one: no stale fast node in its bucket.       *)
IndexFindsKey ==
    ~walk.on /\ ~crowded => \A k \in Key :
        Contains(k) => LET l == table[Bucket(k)] IN Found(l, IndexOf(l, k)) = {k}

(* No bucket links a key twice or a dhn that was freed, also in the middle *)
(* of a rehash: dict_hash_each and dict_hash_free visit each live dhn once;*)
(* and the walk of the rehash never stands on a list node that was freed.  *)
LinkedOnce ==
    ~crowded =>
        /\ \A b \in DOMAIN table : /\ Distinct(table[b])
                                   /\ \A k \in Linked(table[b]) : data[k] # NULL
        /\ \A b, c \in DOMAIN table : b # c => Linked(table[b]) \cap Linked(table[c]) = {}
        /\ walk.on /\ walk.node # NULL => walk.node \in Linked(BucketList(walk.bucket))
=============================================================================
