---------------------------- MODULE DictHashProofs ----------------------------
(***************************************************************************)
(* Proofs about DictHash, for any keys, values, hashes and first size: the *)
(* types, and outside the rehashes of crowded buckets that every key is    *)
(* found where it is looked for, linked once, and counted.                 *)
(***************************************************************************)
EXTENDS DictHash, TLAPS, SequenceTheorems, FiniteSetTheorems

-----------------------------------------------------------------------------
(* The inductive invariant: what holds of every table, and what holds      *)
(* besides when no rehash met a crowded bucket.                            *)

Lists == [nodes: Seq(Key), fast: Key \cup {NULL}, num: Int]

(* The places of a table: every node that is linked, by bucket and index.  *)
Links(tab) == {x \in (DOMAIN tab) \X Nat : x[2] \in 1..Len(tab[x[1]].nodes)}

(* Of every table: dh->size counts the nodes that are linked.              *)
TableInv ==
    /\ TypeOK
    /\ max >= 8
    /\ \A b \in DOMAIN table : table[b] \in Lists
    /\ walk.node # NULL => walk.on /\ walk.bucket < max
    /\ IsFiniteSet(Links(table)) /\ size = Cardinality(Links(table))

Half == max \div 2

(* The rehash has still to decide about k, which is in its old bucket.     *)
Waiting(k, b) ==
    /\ walk.on /\ b < Half /\ Hash[k] % Half = b
    /\ \/ b > walk.bucket
       \/ b = walk.bucket /\ (walk.node = NULL \/ walk.num = 0 \/ walk.node = k)

Homes == \A b \in DOMAIN table : \A k \in Linked(table[b]) : Bucket(k) = b \/ Waiting(k, b)

Exact == \A b \in DOMAIN table : FastExact(table[b]) /\ Distinct(table[b])

Apart == \A b, c \in DOMAIN table : b # c => Linked(table[b]) \cap Linked(table[c]) = {}

(* What was set is linked, and what is linked is live.                     *)
Kept ==
    \A k \in Key :
        /\ data[k] = map[k]
        /\ map[k] # NULL <=> \E b \in DOMAIN table : k \in Linked(table[b])

Keys == {k \in Key : map[k] # NULL}

Counted == IsFiniteSet(Keys) /\ size = Cardinality(Keys)

(* The walk in the old half: at the first node, nothing moved, or at the   *)
(* last one.                                                               *)
Standing(l) ==
    \/ walk.num = 0 /\ walk.node = NodeAt(l, 0)
    \/ walk.num = 1 /\ walk.node = NodeAt(l, Size(l) - 1)

Walking ==
    walk.on =>
        /\ max = 2 * Half
        /\ \A b \in DOMAIN table : /\ table[b].fast = NULL
                                   /\ b < Half => Size(table[b]) <= 2
        /\ walk.node # NULL =>
            /\ walk.bucket \in DOMAIN table
            /\ walk.node \in Linked(table[walk.bucket])
            /\ walk.bucket < Half => Standing(table[walk.bucket])

Clean == Homes /\ Exact /\ Apart /\ Kept /\ Counted /\ Walking

HashInv == TableInv /\ (crowded \/ Clean)

-----------------------------------------------------------------------------
(* Numbers: a hash modulo the doubled size.                                *)

(* The remainder of a natural number is in its range.                      *)
LEMMA ModRange ==
    ASSUME NEW h \in Nat, NEW m \in Nat \ {0}
    PROVE  h % m \in 0..(m - 1)
  OBVIOUS

(* A multiple of m within one m of zero is zero or m.                      *)
LEMMA NearMultiple ==
    ASSUME NEW m \in Nat \ {0}, NEW d \in Int, -m < m * d, m * d < 2 * m
    PROVE  m * d \in {0, m}
<1>1. CASE d <= -1
    <2>1. m * d <= m * (-1)
        BY <1>1
    <2> QED BY <2>1
<1>2. CASE d >= 2
    <2>1. m * d >= m * 2
        BY <1>2
    <2> QED BY <2>1
<1>3. CASE d \in {0, 1}
    BY <1>3
<1> QED BY <1>1, <1>2, <1>3

(* A bucket splits into itself and the one m further: the index of a key   *)
(* in the doubled array.                                                   *)
LEMMA SplitBucket ==
    ASSUME NEW h \in Nat, NEW m \in Nat \ {0}
    PROVE  h % (2 * m) \in {h % m, (h % m) + m}
<1> DEFINE q == h \div m  Q == h \div (2 * m)  r == h % m  R == h % (2 * m)
<1>1. q \in Int /\ Q \in Int /\ r \in 0..(m - 1) /\ R \in 0..(2 * m - 1)
    <2>1. 2 * m \in Nat \ {0}
        OBVIOUS
    <2> QED BY <2>1, ModRange
<1>2. h = m * q + r
    OBVIOUS
<1>3. h = (2 * m) * Q + R
    OBVIOUS
<1> HIDE DEF q, Q, r, R
<1>4. m * (q - 2 * Q) = R - r
    BY <1>1, <1>2, <1>3
<1>5. m * (q - 2 * Q) \in {0, m}
    <2>1. q - 2 * Q \in Int /\ -m < R - r /\ R - r < 2 * m
        BY <1>1
    <2> QED BY <1>4, <2>1, NearMultiple
<1>6. R - r \in {0, m}
    BY <1>4, <1>5
<1>7. R \in {r, r + m}
    BY <1>1, <1>6
<1> QED BY <1>7 DEF r, R

-----------------------------------------------------------------------------
(* Lists: what one step of dict.c takes out of a list or puts into it.     *)

(* t is s without the element at index k, counted from 0.                  *)
RemovedAt(s, t, k) ==
    /\ k \in 0..(Len(s) - 1) /\ t \in Seq(Key) /\ Len(t) = Len(s) - 1
    /\ \A i \in 1..(Len(s) - 1) : t[i] = IF i <= k THEN s[i] ELSE s[i + 1]

(* The node unlinked in the middle.                                        *)
LEMMA WithoutRemoves ==
    ASSUME NEW s \in Seq(Key), NEW k \in 0..(Len(s) - 1)
    PROVE  RemovedAt(s, Without(s, k), k)
<1> DEFINE a == SubSeq(s, 1, k)  b == SubSeq(s, k + 2, Len(s))
<1>1. Len(s) \in Nat /\ \A i \in 1..Len(s) : s[i] \in Key
    BY ElementOfSeq, LenProperties
<1>2. a \in Seq(Key) /\ Len(a) = k /\ \A i \in 1..k : a[i] = s[i]
    <2>1. \A i \in 1..k : s[i] \in Key
        BY <1>1
    <2> QED BY <1>1, <2>1, SubSeqProperties
<1>3. /\ b \in Seq(Key) /\ Len(b) = Len(s) - k - 1
      /\ \A i \in 1..(Len(s) - k - 1) : b[i] = s[k + 1 + i]
    <2>1. \A i \in (k + 2)..Len(s) : s[i] \in Key
        BY <1>1
    <2> QED BY <1>1, <2>1, SubSeqProperties
<1> HIDE DEF a, b
<1>4. /\ a \o b \in Seq(Key) /\ Len(a \o b) = Len(a) + Len(b)
      /\ \A i \in 1..(Len(a) + Len(b)) :
            (a \o b)[i] = IF i <= Len(a) THEN a[i] ELSE b[i - Len(a)]
    BY <1>2, <1>3, ConcatProperties
<1>5. /\ Len(a \o b) = Len(s) - 1
      /\ \A i \in 1..(Len(s) - 1) : (a \o b)[i] = IF i <= k THEN s[i] ELSE s[i + 1]
    <2>1. Len(a) + Len(b) = Len(s) - 1
        BY <1>1, <1>2, <1>3
    <2>2. ASSUME NEW i \in 1..(Len(s) - 1)
          PROVE  (a \o b)[i] = IF i <= k THEN s[i] ELSE s[i + 1]
        <3>1. CASE i <= k
            BY <1>2, <1>4, <2>1, <3>1
        <3>2. CASE ~(i <= k)
            <4>1. i - k \in 1..(Len(s) - k - 1) /\ k + 1 + (i - k) = i + 1
                BY <1>1, <3>2
            <4>2. (a \o b)[i] = b[i - k] /\ b[i - k] = s[k + 1 + (i - k)]
                BY <1>2, <1>3, <1>4, <2>1, <3>2, <4>1
            <4> QED BY <3>2, <4>1, <4>2
        <3> QED BY <3>1, <3>2
    <2> QED BY <1>4, <2>1, <2>2
<1> QED BY <1>1, <1>4, <1>5 DEF RemovedAt, Without, a, b

(* The first node popped.                                                  *)
LEMMA TailRemoves ==
    ASSUME NEW s \in Seq(Key), s # <<>>
    PROVE  RemovedAt(s, Tail(s), 0)
<1>1. Len(s) \in Nat \ {0}
    BY EmptySeq, LenProperties
<1>2. Tail(s) \in Seq(Key) /\ Len(Tail(s)) = Len(s) - 1
      /\ \A i \in 1..(Len(s) - 1) : Tail(s)[i] = s[i + 1]
    BY <1>1, HeadTailProperties
<1> QED BY <1>1, <1>2 DEF RemovedAt

(* The last node popped.                                                   *)
LEMMA FrontRemoves ==
    ASSUME NEW s \in Seq(Key), s # <<>>
    PROVE  RemovedAt(s, SubSeq(s, 1, Len(s) - 1), Len(s) - 1)
<1> DEFINE m == Len(s) - 1  t == SubSeq(s, 1, m)
<1>1. Len(s) \in Nat \ {0} /\ \A i \in 1..Len(s) : s[i] \in Key
    BY EmptySeq, LenProperties, ElementOfSeq
<1>2. m \in 0..Len(s) /\ m \in Nat /\ \A i \in 1..m : s[i] \in Key
    BY <1>1
<1>3. t \in Seq(Key) /\ Len(t) = m /\ \A i \in 1..m : t[i] = s[i]
    <2> HIDE DEF m
    <2> QED BY <1>2, SubSeqProperties
<1> HIDE DEF t
<1> QED BY <1>1, <1>3 DEF RemovedAt, t

(* Where a linked node is.                                                 *)
LEMMA LinkedAt ==
    ASSUME NEW l \in Lists, NEW n \in Linked(l)
    PROVE  /\ IndexOf(l, n) \in 0..(Size(l) - 1) /\ l.nodes[IndexOf(l, n) + 1] = n
           /\ NodeAt(l, IndexOf(l, n)) = n /\ n \in Key
           /\ Size(l) \in Nat /\ Size(l) = Len(l.nodes)
<1>1. l.nodes \in Seq(Key) /\ Len(l.nodes) \in Nat /\ Size(l) = Len(l.nodes)
    BY DEF Lists, Size
<1>2. PICK j \in 1..Len(l.nodes) : l.nodes[j] = n
    BY DEF Linked
<1>3. j - 1 \in 0..(Size(l) - 1) /\ l.nodes[(j - 1) + 1] = n
    BY <1>1, <1>2
<1>4. IndexOf(l, n) \in 0..(Size(l) - 1) /\ l.nodes[IndexOf(l, n) + 1] = n
    BY <1>3 DEF IndexOf
<1> QED BY <1>1, <1>2, <1>4 DEF NodeAt

(* In a list without repetition an index names one node, and no other      *)
(* index does.                                                             *)
LEMMA IndexUnique ==
    ASSUME NEW l \in Lists, Distinct(l), NEW i \in 0..(Size(l) - 1)
    PROVE  /\ NodeAt(l, i) = l.nodes[i + 1] /\ NodeAt(l, i) \in Linked(l)
           /\ NodeAt(l, i) \in Key /\ IndexOf(l, NodeAt(l, i)) = i
<1>1. /\ l.nodes \in Seq(Key) /\ Len(l.nodes) \in Nat /\ Size(l) = Len(l.nodes)
      /\ i + 1 \in 1..Len(l.nodes) /\ i \in Int
    BY DEF Lists, Size
<1>2. NodeAt(l, i) = l.nodes[i + 1] /\ NodeAt(l, i) \in Linked(l) /\ NodeAt(l, i) \in Key
    BY <1>1 DEF NodeAt, Linked
<1>3. \A j \in 0..(Size(l) - 1) : l.nodes[j + 1] = NodeAt(l, i) => j = i
    BY <1>1, <1>2 DEF Distinct
<1>4. IndexOf(l, NodeAt(l, i)) = i
    BY <1>2, <1>3 DEF IndexOf
<1> QED BY <1>2, <1>4

(* dict_list_get_node finds the node of its index when the fast node is    *)
(* exact.                                                                  *)
LEMMA FoundRight ==
    ASSUME NEW l \in Lists, Distinct(l), FastExact(l), NEW i \in 0..(Size(l) - 1)
    PROVE  Found(l, i) = {NodeAt(l, i)}
<1>1. CASE l.fast = NULL
    BY <1>1 DEF Found
<1>2. CASE l.fast # NULL
    <2>1. l.fast = NodeAt(l, l.num) /\ l.num \in Int
        BY <1>2 DEF FastExact, Lists
    <2>2. l.num \in 0..(Size(l) - 1)
        BY <1>2, <2>1 DEF NodeAt
    <2>3. l.fast \in Linked(l) /\ IndexOf(l, l.fast) + i - l.num = i
        BY <2>1, <2>2, IndexUnique
    <2>4. CASE i = l.num
        BY <1>2, <2>1, <2>4 DEF Found
    <2>5. CASE i # l.num /\ ~Near(l, i)
        BY <1>2, <2>5 DEF Found
    <2>6. CASE i # l.num /\ Near(l, i)
        BY <1>2, <2>3, <2>6 DEF Found
    <2> QED BY <2>4, <2>5, <2>6
<1> QED BY <1>1, <1>2

(* What a removal takes from a list without repetition, and that it stays  *)
(* one.                                                                    *)
LEMMA RemovedLinks ==
    ASSUME NEW l \in Lists, NEW r \in Lists, NEW k, Distinct(l),
           RemovedAt(l.nodes, r.nodes, k)
    PROVE  Distinct(r) /\ Linked(r) = Linked(l) \ {l.nodes[k + 1]}
<1> DEFINE s == l.nodes  t == r.nodes  old(i) == IF i <= k THEN i ELSE i + 1
<1>1. /\ Len(s) \in Nat /\ k \in 0..(Len(s) - 1) /\ Len(t) = Len(s) - 1
      /\ \A i, j \in 1..Len(s) : s[i] = s[j] => i = j
      /\ \A i \in 1..(Len(s) - 1) : t[i] = IF i <= k THEN s[i] ELSE s[i + 1]
    BY DEF RemovedAt, Distinct, Size, Lists
<1> HIDE DEF s, t
<1>2. \A i \in 1..Len(t) : old(i) \in 1..Len(s) /\ old(i) # k + 1 /\ t[i] = s[old(i)]
    BY <1>1
<1>3. ASSUME NEW i \in 1..Len(t), NEW j \in 1..Len(t), t[i] = t[j]
      PROVE  i = j
    <2>1. old(i) = old(j)
        BY <1>1, <1>2, <1>3
    <2>2. i \in Int /\ j \in Int /\ k \in Int
        BY <1>1
    <2> QED BY <2>1, <2>2
<1>4. ASSUME NEW n \in Linked(r) PROVE n \in Linked(l) \ {s[k + 1]}
    <2>1. PICK i \in 1..Len(t) : t[i] = n
        BY DEF Linked, t
    <2>2. n = s[old(i)] /\ old(i) \in 1..Len(s) /\ old(i) # k + 1 /\ k + 1 \in 1..Len(s)
        BY <1>1, <1>2, <2>1
    <2>3. n # s[k + 1]
        BY <1>1, <2>2
    <2> QED BY <2>2, <2>3 DEF Linked, s
<1>5. ASSUME NEW n \in Linked(l), n # s[k + 1] PROVE n \in Linked(r)
    <2>1. PICK i \in 1..Len(s) : s[i] = n
        BY DEF Linked, s
    <2>2. i # k + 1 /\ i \in Int /\ k \in Int /\ Len(s) \in Int
        BY <1>1, <1>5, <2>1
    <2>3. CASE i <= k
        <3>1. i \in 1..Len(t) /\ t[i] = n
            BY <1>1, <2>1, <2>2, <2>3
        <3> QED BY <3>1 DEF Linked, t
    <2>4. CASE i > k + 1
        <3>1. i - 1 \in 1..Len(t) /\ ~(i - 1 <= k) /\ (i - 1) + 1 = i
            BY <1>1, <2>2, <2>4
        <3>2. t[i - 1] = n
            BY <1>1, <2>1, <3>1
        <3> QED BY <3>1, <3>2 DEF Linked, t
    <2> QED BY <2>2, <2>3, <2>4
<1>6. Distinct(r)
    BY <1>3 DEF Distinct, Size, t
<1> QED BY <1>4, <1>5, <1>6 DEF s

(* One node popped at an index, and what is returned of it.                *)
Removes(l, p) ==
    /\ p.list \in Lists
    /\ \E k \in 0..(Size(l) - 1) :
        p.node = l.nodes[k + 1] /\ RemovedAt(l.nodes, p.list.nodes, k)

(* A node found is unlinked where it is.                                   *)
LEMMA UnlinkRemoves ==
    ASSUME NEW l \in Lists, NEW n \in Linked(l), NEW i \in Int
    PROVE  /\ Unlink(l, n, i) \in Lists
           /\ RemovedAt(l.nodes, Unlink(l, n, i).nodes, IndexOf(l, n))
           /\ Unlink(l, n, i).num = i
           /\ Unlink(l, n, i).fast = NodeAt(l, IndexOf(l, n) + 1)
<1>1. /\ IndexOf(l, n) \in 0..(Len(l.nodes) - 1) /\ l.nodes \in Seq(Key)
      /\ Len(l.nodes) \in Nat
    BY LinkedAt DEF Lists
<1>2. RemovedAt(l.nodes, Without(l.nodes, IndexOf(l, n)), IndexOf(l, n))
    BY <1>1, WithoutRemoves
<1>3. Without(l.nodes, IndexOf(l, n)) \in Seq(Key)
    BY <1>2 DEF RemovedAt
<1>4. NodeAt(l, IndexOf(l, n) + 1) \in Key \cup {NULL}
    BY <1>1 DEF NodeAt, Size
<1> QED BY <1>2, <1>3, <1>4 DEF Unlink, Lists

(* A pop that returns a node took one node, whatever the fast node is.     *)
LEMMA PoppedRemoves ==
    ASSUME NEW l \in Lists, NEW num \in Nat, NEW p \in Popped(l, num), p.node # NULL
    PROVE  Removes(l, p)
<1> DEFINE s == l.nodes
<1>1. s \in Seq(Key) /\ Len(s) \in Nat /\ Size(l) = Len(s)
    BY DEF Lists, Size
<1>2. s # <<>>
    BY DEF Popped
<1>3. Len(s) > 0
    BY <1>1, <1>2, EmptySeq
<1>4. CASE num = 0
    <2>1. p = [list |-> PopHead(l), node |-> Head(s)]
        BY <1>1, <1>2, <1>4 DEF Popped
    <2>2. RemovedAt(s, Tail(s), 0)
        BY <1>1, <1>2, TailRemoves
    <2>3. Head(s) = s[0 + 1]
        BY <1>1, <1>3
    <2>4. p.list \in Lists /\ p.list.nodes = Tail(s)
        BY <2>1, <2>2 DEF PopHead, Lists, RemovedAt
    <2> QED BY <1>1, <1>3, <2>1, <2>2, <2>3, <2>4 DEF Removes
<1>5. CASE num # 0 /\ num > Size(l) - 1
    <2>1. p = [list |-> PopTail(l), node |-> s[Size(l)]]
        BY <1>1, <1>2, <1>5 DEF Popped
    <2>2. RemovedAt(s, SubSeq(s, 1, Len(s) - 1), Len(s) - 1)
        BY <1>1, <1>2, FrontRemoves
    <2>3. p.list \in Lists /\ p.list.nodes = SubSeq(s, 1, Len(s) - 1)
        BY <2>1, <2>2 DEF PopTail, Lists, RemovedAt
    <2>4. Len(s) - 1 \in 0..(Size(l) - 1) /\ p.node = s[(Len(s) - 1) + 1]
        BY <1>1, <1>3, <2>1
    <2> QED BY <2>2, <2>3, <2>4 DEF Removes
<1>6. CASE num # 0 /\ ~(num > Size(l) - 1)
    <2>1. PICK n \in Found(l, Index(l, num)) \cap Linked(l) :
                p = [list |-> Unlink(l, n, Index(l, num)), node |-> n]
        BY <1>1, <1>2, <1>6 DEF Popped
    <2>2. Index(l, num) \in Int
        BY <1>1 DEF Index
    <2>3. IndexOf(l, n) \in 0..(Size(l) - 1) /\ l.nodes[IndexOf(l, n) + 1] = n
        BY LinkedAt
    <2> QED BY <2>1, <2>2, <2>3, UnlinkRemoves DEF Removes
<1> QED BY <1>4, <1>5, <1>6

(* The place of a walk in a list of two: nothing walked, or the last node. *)
At(l, num) == IF num = 0 THEN 0 ELSE Size(l) - 1

(* The pops of a rehash that is not crowded: the node the walk stands on.  *)
LEMMA PoppedSmall ==
    ASSUME NEW l \in Lists, Distinct(l), l.fast = NULL, Size(l) \in {1, 2},
           NEW num \in {0, 1}, NEW p \in Popped(l, num)
    PROVE  /\ p.list \in Lists /\ p.list.fast = NULL
           /\ p.node = NodeAt(l, At(l, num)) /\ p.node \in Key
           /\ RemovedAt(l.nodes, p.list.nodes, At(l, num))
<1> DEFINE s == l.nodes
<1>1. s \in Seq(Key) /\ Len(s) \in {1, 2} /\ Size(l) = Len(s) /\ s # <<>>
    <2>1. s \in Seq(Key) /\ Len(s) \in {1, 2} /\ Size(l) = Len(s)
        BY DEF Lists, Size
    <2>2. ASSUME s = <<>> PROVE FALSE
        <3>1. Len(s) = 0
            BY <2>2
        <3> QED BY <2>1, <3>1
    <2> QED BY <2>1, <2>2
<1>2. CASE num = 0
    <2>1. p = [list |-> PopHead(l), node |-> Head(s)]
        BY <1>1, <1>2 DEF Popped
    <2>2. RemovedAt(s, Tail(s), 0)
        BY <1>1, TailRemoves
    <2>3. Head(s) = NodeAt(l, 0) /\ Head(s) \in Key
        BY <1>1 DEF NodeAt
    <2>4. p.list \in Lists /\ p.list.nodes = Tail(s) /\ p.list.fast = NULL
        BY <2>1, <2>2 DEF PopHead, Lists, RemovedAt
    <2> QED BY <1>2, <2>1, <2>2, <2>3, <2>4 DEF At
<1>3. CASE num = 1 /\ Size(l) = 1
    <2>1. p = [list |-> PopTail(l), node |-> s[Size(l)]]
        BY <1>1, <1>3 DEF Popped
    <2>2. RemovedAt(s, SubSeq(s, 1, Len(s) - 1), Len(s) - 1)
        BY <1>1, FrontRemoves
    <2>3. p.list \in Lists /\ p.list.nodes = SubSeq(s, 1, Len(s) - 1) /\ p.list.fast = NULL
        BY <2>1, <2>2 DEF PopTail, Lists, RemovedAt
    <2>4. At(l, num) = Len(s) - 1 /\ s[Size(l)] = NodeAt(l, At(l, num)) /\ s[Size(l)] \in Key
        BY <1>1, <1>3 DEF At, NodeAt
    <2> QED BY <2>1, <2>2, <2>3, <2>4
<1>4. CASE num = 1 /\ Size(l) = 2
    <2>1. Index(l, 1) = 1 /\ At(l, num) = 1 /\ Found(l, 1) = {NodeAt(l, 1)}
        BY <1>4 DEF Index, At, Found
    <2>2. PICK n \in Found(l, 1) \cap Linked(l) : p = [list |-> Unlink(l, n, 1), node |-> n]
        BY <1>1, <1>4, <2>1 DEF Popped
    <2>3. n = NodeAt(l, 1) /\ IndexOf(l, n) = 1 /\ n \in Key
        BY <1>4, <2>1, <2>2, IndexUnique
    <2>4. NodeAt(l, 2) = NULL
        BY <1>4 DEF NodeAt
    <2>5. /\ Unlink(l, n, 1) \in Lists /\ Unlink(l, n, 1).fast = NULL
          /\ RemovedAt(s, Unlink(l, n, 1).nodes, 1)
        BY <2>2, <2>3, <2>4, UnlinkRemoves
    <2> QED BY <2>1, <2>2, <2>3, <2>5
<1> QED BY <1>1, <1>2, <1>3, <1>4

(* The deletion at the index of a linked node takes one node.              *)
LEMMA DeletedRemoves ==
    ASSUME NEW l \in Lists, NEW n \in Linked(l), NEW p \in Deleted(l, IndexOf(l, n))
    PROVE  Removes(l, p)
<1>1. IndexOf(l, n) \in 0..(Size(l) - 1) /\ Size(l) \in Nat
    BY LinkedAt
<1>2. InRange(l, IndexOf(l, n)) /\ Index(l, IndexOf(l, n)) = IndexOf(l, n)
    BY <1>1 DEF InRange, Index
<1>3. PICK m \in Found(l, IndexOf(l, n)) \cap Linked(l) :
            p = [list |-> Unlink(l, m, IndexOf(l, n)), node |-> m]
    BY <1>2 DEF Deleted
<1>4. IndexOf(l, m) \in 0..(Size(l) - 1) /\ l.nodes[IndexOf(l, m) + 1] = m
    BY LinkedAt
<1> QED BY <1>1, <1>3, <1>4, UnlinkRemoves DEF Removes

(* With an exact fast node it takes that node, and the fast node stays     *)
(* exact.                                                                  *)
LEMMA DeletedRight ==
    ASSUME NEW l \in Lists, Distinct(l), FastExact(l),
           NEW n \in Linked(l), NEW p \in Deleted(l, IndexOf(l, n))
    PROVE  /\ p.list \in Lists /\ FastExact(p.list)
           /\ l.nodes[IndexOf(l, n) + 1] = n
           /\ RemovedAt(l.nodes, p.list.nodes, IndexOf(l, n))
<1> DEFINE i == IndexOf(l, n)
<1>1. i \in 0..(Size(l) - 1) /\ Size(l) \in Nat /\ NodeAt(l, i) = n /\ l.nodes[i + 1] = n
      /\ Size(l) = Len(l.nodes)
    BY LinkedAt
<1>2. InRange(l, i) /\ Index(l, i) = i /\ Found(l, i) = {n}
    BY <1>1, FoundRight DEF InRange, Index
<1>3. p = [list |-> Unlink(l, n, i), node |-> n]
    BY <1>2 DEF Deleted
<1>4. /\ p.list \in Lists /\ RemovedAt(l.nodes, p.list.nodes, i)
      /\ p.list.num = i /\ p.list.fast = NodeAt(l, i + 1)
    BY <1>1, <1>3, UnlinkRemoves
<1> HIDE DEF i
<1>5. FastExact(p.list)
    <2>1. SUFFICES ASSUME p.list.fast # NULL PROVE p.list.fast = NodeAt(p.list, i)
        BY <1>4 DEF FastExact
    <2>2. i + 1 \in 0..(Size(l) - 1) /\ p.list.fast = l.nodes[(i + 1) + 1]
        BY <1>1, <1>4, <2>1 DEF NodeAt
    <2>3. /\ Size(p.list) = Size(l) - 1 /\ i + 1 \in 1..(Len(l.nodes) - 1) /\ ~(i + 1 <= i)
          /\ i \in 0..(Size(l) - 2)
        BY <1>1, <1>4, <2>2 DEF RemovedAt, Size
    <2>4. p.list.nodes[i + 1] = l.nodes[(i + 1) + 1]
        BY <1>4, <2>3 DEF RemovedAt
    <2>5. NodeAt(p.list, i) = p.list.nodes[i + 1]
        BY <1>1, <2>3 DEF NodeAt
    <2> QED BY <2>2, <2>4, <2>5
<1> QED BY <1>1, <1>4, <1>5 DEF i

(* A node appended: what is linked then, and what stays.                   *)
LEMMA Appended ==
    ASSUME NEW l \in Lists, NEW n \in Key
    PROVE  /\ Append1(l, n) \in Lists
           /\ Size(l) \in Nat /\ Size(Append1(l, n)) = Size(l) + 1
           /\ Append1(l, n).fast = l.fast
           /\ Linked(Append1(l, n)) = Linked(l) \cup {n}
           /\ FastExact(l) => FastExact(Append1(l, n))
           /\ Distinct(l) /\ n \notin Linked(l) => Distinct(Append1(l, n))
<1> DEFINE s == l.nodes  t == Append(s, n)  r == Append1(l, n)
<1>1. /\ s \in Seq(Key) /\ Len(s) \in Nat /\ t \in Seq(Key) /\ Len(t) = Len(s) + 1
      /\ \A i \in 1..Len(s) : t[i] = s[i]
      /\ t[Len(s) + 1] = n
    BY AppendProperties, LenProperties DEF Lists
<1>2. /\ r \in Lists /\ r.nodes = t /\ r.fast = l.fast /\ r.num = l.num
      /\ l.fast \in Key \cup {NULL} /\ l.num \in Int
    BY <1>1 DEF Append1, Lists
<1> HIDE DEF s, t, r
<1>3. l.nodes = s
    BY DEF s
<1>4. Size(l) = Len(s) /\ Size(r) = Len(t)
    BY <1>2, <1>3 DEF Size
<1>5. Linked(r) = Linked(l) \cup {n}
    <2>1. ASSUME NEW m \in Linked(r) PROVE m \in Linked(l) \cup {n}
        <3>1. PICK i \in 1..Len(t) : t[i] = m
            BY <1>2 DEF Linked
        <3>2. i \in 1..Len(s) \/ i = Len(s) + 1
            BY <1>1
        <3> QED BY <1>1, <1>3, <3>1, <3>2 DEF Linked
    <2>2. ASSUME NEW m \in Linked(l) PROVE m \in Linked(r)
        <3>1. PICK i \in 1..Len(s) : s[i] = m
            BY <1>3 DEF Linked
        <3>2. i \in 1..Len(t) /\ t[i] = m
            BY <1>1, <3>1
        <3> QED BY <1>2, <3>2 DEF Linked
    <2>3. n \in Linked(r)
        <3>1. Len(s) + 1 \in 1..Len(t)
            BY <1>1
        <3> QED BY <1>1, <1>2, <3>1 DEF Linked
    <2> QED BY <2>1, <2>2, <2>3
<1>6. ASSUME FastExact(l) PROVE FastExact(r)
    <2>1. SUFFICES ASSUME l.fast # NULL PROVE l.fast = NodeAt(r, l.num)
        BY <1>2 DEF FastExact
    <2>2. l.fast = NodeAt(l, l.num)
        BY <1>6, <2>1 DEF FastExact
    <2>3. l.num \in 0..(Len(s) - 1) /\ l.fast = s[l.num + 1]
        BY <1>3, <1>4, <2>1, <2>2 DEF NodeAt
    <2>4. l.num \in 0..(Len(t) - 1) /\ t[l.num + 1] = s[l.num + 1]
        BY <1>1, <1>2, <2>3
    <2> QED BY <1>2, <1>4, <2>3, <2>4 DEF NodeAt
<1>7. ASSUME Distinct(l), n \notin Linked(l) PROVE Distinct(r)
    <2>1. /\ \A i, j \in 1..Len(s) : s[i] = s[j] => i = j
          /\ \A i \in 1..Len(s) : s[i] # n
        BY <1>3, <1>4, <1>7 DEF Distinct, Linked
    <2>2. ASSUME NEW i \in 1..Len(t), NEW j \in 1..Len(t), t[i] = t[j] PROVE i = j
        <3>1. (i \in 1..Len(s) \/ i = Len(s) + 1) /\ (j \in 1..Len(s) \/ j = Len(s) + 1)
            BY <1>1
        <3> QED BY <1>1, <2>1, <2>2, <3>1
    <2> QED BY <1>2, <1>4, <2>2 DEF Distinct
<1> QED BY <1>1, <1>2, <1>4, <1>5, <1>6, <1>7 DEF r

(* A list that was just made.                                              *)
LEMMA NewListFacts ==
    /\ NewList \in Lists /\ Linked(NewList) = {} /\ Len(NewList.nodes) = 0
    /\ Distinct(NewList) /\ FastExact(NewList) /\ NewList.fast = NULL
    BY DEF NewList, Lists, Linked, Distinct, FastExact, Size

-----------------------------------------------------------------------------
(* Tables: what one list put back changes.                                 *)

ListOf(tab, b) == IF b \in DOMAIN tab THEN tab[b] ELSE NewList

(* A list grown by one node adds one place, ...                            *)
LEMMA LinksGrow ==
    ASSUME NEW tab, \A c \in DOMAIN tab : tab[c] \in Lists,
           NEW b, NEW r \in Lists, Len(r.nodes) = Len(ListOf(tab, b).nodes) + 1
    PROVE  /\ Links(Put(tab, b, r)) = Links(tab) \cup {<<b, Len(r.nodes)>>}
           /\ <<b, Len(r.nodes)>> \notin Links(tab)
<1> DEFINE new == Put(tab, b, r)  n == Len(r.nodes)
<1>1. /\ DOMAIN new = DOMAIN tab \cup {b} /\ new[b] = r
      /\ \A c \in DOMAIN tab : c # b => new[c] = tab[c]
    BY DEF Put
<1>2. /\ n \in Nat /\ n > 0
      /\ b \in DOMAIN tab => Len(tab[b].nodes) = n - 1
      /\ b \notin DOMAIN tab => n = 1
    <2>1. ListOf(tab, b).nodes \in Seq(Key) /\ r.nodes \in Seq(Key)
        BY NewListFacts DEF ListOf, Lists
    <2>2. Len(ListOf(tab, b).nodes) \in Nat
        BY <2>1, LenProperties
    <2> QED BY <2>2, NewListFacts DEF ListOf
<1> HIDE DEF new, n
<1>3. new = Put(tab, b, r) /\ n = Len(r.nodes)
    BY DEF new, n
<1>4. ASSUME NEW x \in Links(new) PROVE x \in Links(tab) \cup {<<b, n>>}
    <2>1. /\ x = <<x[1], x[2]>> /\ x[1] \in DOMAIN new /\ x[2] \in Nat
          /\ x[2] \in 1..Len(new[x[1]].nodes)
        BY DEF Links
    <2>2. CASE x[1] # b
        <3>1. x[1] \in DOMAIN tab /\ new[x[1]] = tab[x[1]]
            BY <1>1, <2>1, <2>2
        <3> QED BY <2>1, <3>1 DEF Links
    <2>3. CASE x[1] = b /\ x[2] = n
        BY <2>1, <2>3
    <2>4. CASE x[1] = b /\ x[2] # n
        <3>1. x[2] \in 1..(n - 1)
            BY <1>1, <1>2, <1>3, <2>1, <2>4
        <3>2. b \in DOMAIN tab
            BY <1>2, <3>1
        <3>3. Len(tab[b].nodes) = n - 1 /\ x[1] = b
            BY <1>2, <2>4, <3>2
        <3>4. x[1] \in DOMAIN tab /\ x[2] \in 1..Len(tab[x[1]].nodes)
            BY <3>1, <3>2, <3>3
        <3> QED BY <2>1, <3>4 DEF Links
    <2> QED BY <2>2, <2>3, <2>4
<1>5. ASSUME NEW x \in Links(tab) PROVE x \in Links(new)
    <2>1. /\ x = <<x[1], x[2]>> /\ x[1] \in DOMAIN tab /\ x[2] \in Nat
          /\ x[2] \in 1..Len(tab[x[1]].nodes)
        BY DEF Links
    <2>2. CASE x[1] # b
        BY <1>1, <2>1, <2>2 DEF Links
    <2>3. CASE x[1] = b
        <3>1. x[2] \in 1..Len(new[x[1]].nodes)
            BY <1>1, <1>2, <1>3, <2>1, <2>3
        <3> QED BY <1>1, <2>1, <3>1 DEF Links
    <2> QED BY <2>2, <2>3
<1>6. <<b, n>> \in Links(new)
    BY <1>1, <1>2, <1>3 DEF Links
<1>7. <<b, n>> \notin Links(tab)
    <2>1. SUFFICES ASSUME <<b, n>> \in Links(tab) PROVE FALSE
        OBVIOUS
    <2>2. b \in DOMAIN tab /\ n \in 1..Len(tab[b].nodes)
        BY <2>1 DEF Links
    <2> QED BY <1>2, <2>2
<1> QED BY <1>3, <1>4, <1>5, <1>6, <1>7

(* ... and one that lost a node loses one.                                 *)
LEMMA LinksShrink ==
    ASSUME NEW tab, \A c \in DOMAIN tab : tab[c] \in Lists,
           NEW b \in DOMAIN tab, NEW r \in Lists,
           Len(r.nodes) = Len(tab[b].nodes) - 1
    PROVE  /\ Links(Put(tab, b, r)) = Links(tab) \ {<<b, Len(tab[b].nodes)>>}
           /\ <<b, Len(tab[b].nodes)>> \in Links(tab)
<1> DEFINE new == Put(tab, b, r)  n == Len(tab[b].nodes)
<1>1. /\ DOMAIN new = DOMAIN tab /\ new[b] = r
      /\ \A c \in DOMAIN tab : c # b => new[c] = tab[c]
    BY DEF Put
<1>2. n \in Nat /\ n > 0 /\ Len(r.nodes) = n - 1
    <2>1. tab[b].nodes \in Seq(Key) /\ r.nodes \in Seq(Key)
        BY DEF Lists
    <2>2. n \in Nat /\ Len(r.nodes) \in Nat
        BY <2>1, LenProperties
    <2> QED BY <2>2
<1> HIDE DEF new, n
<1>3. new = Put(tab, b, r) /\ n = Len(tab[b].nodes)
    BY DEF new, n
<1>4. ASSUME NEW x \in Links(new) PROVE x \in Links(tab) \ {<<b, n>>}
    <2>1. /\ x = <<x[1], x[2]>> /\ x[1] \in DOMAIN tab /\ x[2] \in Nat
          /\ x[2] \in 1..Len(new[x[1]].nodes)
        BY <1>1 DEF Links
    <2>2. CASE x[1] # b
        BY <1>1, <2>1, <2>2 DEF Links
    <2>3. CASE x[1] = b
        <3>1. x[2] \in 1..(n - 1)
            BY <1>1, <1>2, <2>1, <2>3
        <3>2. x[2] \in 1..Len(tab[x[1]].nodes) /\ x[2] # n
            BY <1>2, <1>3, <2>3, <3>1
        <3>3. x \in Links(tab)
            BY <2>1, <3>2 DEF Links
        <3>4. x # <<b, n>>
            BY <2>1, <3>2
        <3> QED BY <3>3, <3>4
    <2> QED BY <2>2, <2>3
<1>5. ASSUME NEW x \in Links(tab), x # <<b, n>> PROVE x \in Links(new)
    <2>1. /\ x = <<x[1], x[2]>> /\ x[1] \in DOMAIN tab /\ x[2] \in Nat
          /\ x[2] \in 1..Len(tab[x[1]].nodes)
        BY DEF Links
    <2>2. CASE x[1] # b
        BY <1>1, <2>1, <2>2 DEF Links
    <2>3. CASE x[1] = b
        <3>1. x[2] # n
            BY <1>5, <2>1, <2>3
        <3>2. x[2] \in 1..Len(new[x[1]].nodes)
            BY <1>1, <1>2, <1>3, <2>1, <2>3, <3>1
        <3> QED BY <1>1, <2>1, <3>2 DEF Links
    <2> QED BY <2>2, <2>3
<1>6. <<b, n>> \in Links(tab)
    BY <1>2, <1>3 DEF Links
<1> QED BY <1>3, <1>4, <1>5, <1>6

(* One more place, and one fewer, counted.                                 *)
LEMMA CountGrow ==
    ASSUME NEW tab, \A c \in DOMAIN tab : tab[c] \in Lists, IsFiniteSet(Links(tab)),
           NEW b, NEW r \in Lists, Len(r.nodes) = Len(ListOf(tab, b).nodes) + 1
    PROVE  /\ IsFiniteSet(Links(Put(tab, b, r)))
           /\ Cardinality(Links(Put(tab, b, r))) = Cardinality(Links(tab)) + 1
<1>1. /\ Links(Put(tab, b, r)) = Links(tab) \cup {<<b, Len(r.nodes)>>}
      /\ <<b, Len(r.nodes)>> \notin Links(tab)
    BY LinksGrow
<1>2. /\ IsFiniteSet(Links(tab) \cup {<<b, Len(r.nodes)>>})
      /\ Cardinality(Links(tab) \cup {<<b, Len(r.nodes)>>}) = Cardinality(Links(tab)) + 1
    <2> DEFINE s == Links(tab)  x == <<b, Len(r.nodes)>>
    <2> HIDE DEF s, x
    <2>1. s = Links(tab) /\ x = <<b, Len(r.nodes)>>
        BY DEF s, x
    <2>2. IsFiniteSet(s) /\ x \notin s
        BY <1>1, <2>1
    <2>3. IsFiniteSet(s \cup {x}) /\ Cardinality(s \cup {x}) = Cardinality(s) + 1
        BY <2>2, FS_AddElement
    <2> QED BY <2>3 DEF s, x
<1> QED BY <1>1, <1>2

(* One place fewer, counted.                                               *)
LEMMA CountShrink ==
    ASSUME NEW tab, \A c \in DOMAIN tab : tab[c] \in Lists, IsFiniteSet(Links(tab)),
           NEW b \in DOMAIN tab, NEW r \in Lists,
           Len(r.nodes) = Len(tab[b].nodes) - 1
    PROVE  /\ IsFiniteSet(Links(Put(tab, b, r)))
           /\ Cardinality(Links(Put(tab, b, r))) = Cardinality(Links(tab)) - 1
           /\ Cardinality(Links(tab)) > 0
<1>1. /\ Links(Put(tab, b, r)) = Links(tab) \ {<<b, Len(tab[b].nodes)>>}
      /\ <<b, Len(tab[b].nodes)>> \in Links(tab)
    BY LinksShrink
<1>2. Cardinality(Links(tab)) \in Nat /\ Cardinality(Links(tab)) # 0
    BY <1>1, FS_CardinalityType, FS_EmptySet
<1>3. /\ IsFiniteSet(Links(tab) \ {<<b, Len(tab[b].nodes)>>})
      /\ Cardinality(Links(tab) \ {<<b, Len(tab[b].nodes)>>}) = Cardinality(Links(tab)) - 1
    BY <1>1, FS_RemoveElement
<1> QED BY <1>1, <1>2, <1>3

-----------------------------------------------------------------------------
(* TableInv: every step keeps the types and the count of the places.       *)

(* The index of a bucket.                                                  *)
LEMMA BucketRange ==
    ASSUME TableInv, NEW k \in Key
    PROVE  Bucket(k) \in 0..(max - 1)
<1>1. Hash[k] \in Nat /\ max \in Nat \ {0}
    BY DictHashAssumption DEF TableInv, TypeOK
<1> QED BY <1>1, ModRange DEF Bucket

(* A list put into a bucket leaves lists in the buckets.                   *)
LEMMA PutLists ==
    ASSUME NEW tab, \A c \in DOMAIN tab : tab[c] \in Lists, NEW b, NEW r \in Lists,
           NEW m, DOMAIN tab \subseteq 0..(m - 1), b \in 0..(m - 1)
    PROVE  /\ DOMAIN Put(tab, b, r) \subseteq 0..(m - 1)
           /\ \A c \in DOMAIN Put(tab, b, r) : Put(tab, b, r)[c] \in Lists
<1> DEFINE new == Put(tab, b, r)
<1>1. /\ DOMAIN new = DOMAIN tab \cup {b} /\ new[b] = r
      /\ \A c \in DOMAIN tab : c # b => new[c] = tab[c]
    BY DEF Put
<1> HIDE DEF new
<1>2. DOMAIN new \subseteq 0..(m - 1)
    BY <1>1
<1>3. \A c \in DOMAIN new : new[c] \in Lists
    BY <1>1
<1> QED BY <1>2, <1>3 DEF new

(* A list of the table, made or not.                                       *)
LEMMA BucketLists ==
    ASSUME TableInv, NEW b
    PROVE  /\ BucketList(b) \in Lists /\ BucketList(b) = ListOf(table, b)
           /\ BucketList(b) # NewList => b \in DOMAIN table
           /\ \A n \in Linked(BucketList(b)) : b \in DOMAIN table /\ n \in Linked(table[b])
    BY NewListFacts DEF BucketList, ListOf, TableInv

(* The walk moved on, field by field.                                      *)
LEMMA WalkMoved ==
    ASSUME NEW m \in Nat,
           NEW w \in [on: BOOLEAN, bucket: 0..m, node: Key \cup {NULL}, num: Nat],
           NEW n \in Key \cup {NULL}, NEW i \in Nat, NEW b \in 0..m,
           NEW new, new = [w EXCEPT !.node = n, !.num = i, !.bucket = b]
    PROVE  /\ new \in [on: BOOLEAN, bucket: 0..m, node: Key \cup {NULL}, num: Nat]
           /\ new.on = w.on /\ new.node = n /\ new.num = i /\ new.bucket = b
    OBVIOUS

(* The next node of a walk.                                                *)
LEMMA AdvanceType ==
    ASSUME TableInv, walk.on, walk.bucket < max, NEW next \in Key \cup {NULL}, Advance(next)
    PROVE  /\ walk' \in [on: BOOLEAN, bucket: 0..max, node: Key \cup {NULL}, num: Nat]
           /\ walk'.on /\ walk'.node = next /\ walk'.num = walk.num + 1
           /\ walk'.bucket = IF next = NULL THEN walk.bucket + 1 ELSE walk.bucket
           /\ walk'.node # NULL => walk'.bucket < max
<1>1. /\ walk \in [on: BOOLEAN, bucket: 0..max, node: Key \cup {NULL}, num: Nat]
      /\ max \in Nat
    BY DEF TableInv, TypeOK
<1>2. /\ walk.bucket \in 0..max /\ walk.num \in Nat
      /\ walk.bucket + 1 \in 0..max /\ walk.num + 1 \in Nat
    BY <1>1
<1> DEFINE b == IF next = NULL THEN walk.bucket + 1 ELSE walk.bucket
<1>3. walk' = [walk EXCEPT !.node = next, !.num = walk.num + 1, !.bucket = b]
    BY DEF Advance
<1>4. b \in 0..max
    BY <1>2
<1>5. next # NULL => b < max
    OBVIOUS
<1>6. /\ walk' \in [on: BOOLEAN, bucket: 0..max, node: Key \cup {NULL}, num: Nat]
      /\ walk'.on = walk.on /\ walk'.node = next /\ walk'.num = walk.num + 1
      /\ walk'.bucket = b
    <2> HIDE DEF b
    <2> QED BY <1>1, <1>2, <1>3, <1>4, WalkMoved
<1> QED BY <1>5, <1>6

(* The node after a linked one, or none.                                   *)
LEMMA NextNodeType ==
    ASSUME NEW l \in Lists, NEW n \in Linked(l)
    PROVE  NextNode(l, n) \in Key \cup {NULL}
<1>1. IndexOf(l, n) \in 0..(Size(l) - 1) /\ l.nodes \in Seq(Key) /\ Size(l) = Len(l.nodes)
      /\ Size(l) \in Nat
    BY LinkedAt DEF Lists
<1> QED BY <1>1 DEF NextNode, NodeAt

(* dict_hash_new: no bucket is made yet.                                   *)
LEMMA TableInit == Init => TableInv
<1> SUFFICES ASSUME Init PROVE TableInv
    OBVIOUS
<1>1. DOMAIN table = {} /\ Links(table) = {}
    BY DEF Init, Links
<1>2. IsFiniteSet(Links(table)) /\ Cardinality(Links(table)) = 0
    BY <1>1, FS_EmptySet
<1>3. max \in Nat /\ max >= 8 /\ size = 0 /\ crowded \in BOOLEAN
    BY DictHashAssumption DEF Init
<1>4. data \in [Key -> Value \cup {NULL}] /\ map \in [Key -> Value \cup {NULL}]
    BY DEF Init
<1>5. /\ walk \in [on: BOOLEAN, bucket: 0..max, node: Key \cup {NULL}, num: Nat]
      /\ walk.node = NULL
    BY <1>3 DEF Init, Off
<1> QED BY <1>1, <1>2, <1>3, <1>4, <1>5 DEF TableInv, TypeOK

(* dict_hash_set of a new key: one place and one in dh->size.              *)
LEMMA TableSetNew ==
    ASSUME TableInv, NEW k \in Key, NEW v \in Value, dict_hash_set_new(k, v)
    PROVE  TableInv'
<1> DEFINE b == Bucket(k)  r == Append1(BucketList(b), k)
<1>1. b \in 0..(max - 1) /\ BucketList(b) \in Lists /\ BucketList(b) = ListOf(table, b)
    BY BucketRange, BucketLists
<1>2. r \in Lists /\ Len(r.nodes) = Len(ListOf(table, b).nodes) + 1
    BY <1>1, Appended DEF Size
<1>3. /\ table' = Put(table, b, r) /\ data' = [data EXCEPT ![k] = v]
      /\ map' = [map EXCEPT ![k] = v] /\ size' = size + 1
      /\ max' \in {max, 2 * max} /\ crowded' \in BOOLEAN
      /\ walk' \in {walk, [Off EXCEPT !.on = TRUE]} /\ ~walk.on
    BY DEF dict_hash_set_new, TableInv, TypeOK
<1> HIDE DEF b, r
<1>4. /\ \A c \in DOMAIN table : table[c] \in Lists
      /\ IsFiniteSet(Links(table)) /\ size = Cardinality(Links(table)) /\ size \in Nat
      /\ DOMAIN table \subseteq 0..(max - 1) /\ max \in Nat /\ max >= 8
      /\ walk \in [on: BOOLEAN, bucket: 0..max, node: Key \cup {NULL}, num: Nat]
      /\ walk.node = NULL
    BY <1>3 DEF TableInv, TypeOK
<1>5. IsFiniteSet(Links(table')) /\ size' = Cardinality(Links(table'))
    BY <1>2, <1>3, <1>4, CountGrow
<1>6. /\ DOMAIN table' \subseteq 0..(max - 1)
      /\ \A c \in DOMAIN table' : table'[c] \in Lists
    BY <1>1, <1>2, <1>3, <1>4, PutLists
<1>7. /\ max' \in Nat /\ max' >= 8 /\ max <= max' /\ DOMAIN table' \subseteq 0..(max' - 1)
    BY <1>3, <1>4, <1>6
<1>8. /\ walk' \in [on: BOOLEAN, bucket: 0..max', node: Key \cup {NULL}, num: Nat]
      /\ walk'.node = NULL
    <2>1. CASE walk' = walk
        BY <1>4, <1>7, <2>1
    <2>2. CASE walk' = [Off EXCEPT !.on = TRUE]
        <3>1. walk' = [on |-> TRUE, bucket |-> 0, node |-> NULL, num |-> 0]
            BY <2>2 DEF Off
        <3>2. 0 \in 0..max'
            BY <1>7
        <3> QED BY <3>1, <3>2
    <2> QED BY <1>3, <2>1, <2>2
<1>9. /\ data' \in [Key -> Value \cup {NULL}] /\ map' \in [Key -> Value \cup {NULL}]
    BY <1>3 DEF TableInv, TypeOK
<1>10. \A c \in DOMAIN table' : table'[c].nodes \in Seq(Key)
    BY <1>6 DEF Lists
<1> QED BY <1>3, <1>4, <1>5, <1>6, <1>7, <1>8, <1>9, <1>10 DEF TableInv, TypeOK

(* dict_hash_set of a key that is there changes no bucket.                 *)
LEMMA TableSetAgain ==
    ASSUME TableInv, NEW k \in Key, NEW v \in Value, dict_hash_set_again(k, v)
    PROVE  TableInv'
<1>1. /\ data' = [data EXCEPT ![k] = v] /\ map' = [map EXCEPT ![k] = v]
      /\ UNCHANGED <<max, size, table, walk, crowded>>
    BY DEF dict_hash_set_again
<1>2. data' \in [Key -> Value \cup {NULL}] /\ map' \in [Key -> Value \cup {NULL}]
    BY <1>1 DEF TableInv, TypeOK
<1>3. Links(table') = Links(table)
    BY <1>1
<1> QED BY <1>1, <1>2, <1>3 DEF TableInv, TypeOK

(* A step of the rehash that only moves on.                                *)
LEMMA TableWalk ==
    ASSUME TableInv, UNCHANGED <<max, size, table, data, map, crowded>>,
           walk' \in [on: BOOLEAN, bucket: 0..max, node: Key \cup {NULL}, num: Nat],
           walk'.node # NULL => walk'.on /\ walk'.bucket < max
    PROVE  TableInv'
<1>1. Links(table') = Links(table)
    OBVIOUS
<1> QED BY <1>1 DEF TableInv, TypeOK

(* A node popped and one appended: as many places as before.               *)
LEMMA TableRehashMove ==
    ASSUME TableInv, rehash_move
    PROVE  TableInv'
<1> DEFINE w == walk.bucket  b == Bucket(walk.node)
<1>1. /\ walk.on /\ w \in DOMAIN table /\ walk.node \in Linked(table[w])
      /\ table[w] \in Lists /\ b # w /\ UNCHANGED <<max, size, data, map, crowded>>
    BY BucketLists DEF rehash_move, TableInv
<1>2. PICK p \in Popped(table[w], walk.num) :
            /\ p.node # NULL
            /\ table' = Put(Put(table, w, p.list), b, Append1(BucketList(b), p.node))
    BY DEF rehash_move
<1>3. Advance(NextNode(table[w], walk.node))
    BY DEF rehash_move
<1>4. walk.node \in Key
    BY <1>1, LinkedAt
<1>5. b \in 0..(max - 1) /\ BucketList(b) \in Lists /\ BucketList(b) = ListOf(table, b)
    BY <1>4, BucketRange, BucketLists
<1> HIDE DEF b, w
<1>6. /\ \A c \in DOMAIN table : table[c] \in Lists
      /\ IsFiniteSet(Links(table)) /\ size = Cardinality(Links(table)) /\ size \in Nat
      /\ DOMAIN table \subseteq 0..(max - 1) /\ max \in Nat
      /\ walk.num \in Nat
    BY DEF TableInv, TypeOK
<1>7. /\ p.list \in Lists
      /\ \E k \in 0..(Size(table[w]) - 1) :
            p.node = table[w].nodes[k + 1] /\ RemovedAt(table[w].nodes, p.list.nodes, k)
    BY <1>1, <1>2, <1>6, PoppedRemoves DEF Removes
<1>8. Len(p.list.nodes) = Len(table[w].nodes) - 1 /\ p.node \in Key
    BY <1>1, <1>7 DEF RemovedAt, Size, Lists
<1> DEFINE tab == Put(table, w, p.list)  r == Append1(BucketList(b), p.node)
<1>9. /\ DOMAIN tab \subseteq 0..(max - 1) /\ \A c \in DOMAIN tab : tab[c] \in Lists
      /\ ListOf(tab, b) = ListOf(table, b)
    <2>1. w \in 0..(max - 1)
        BY <1>1, <1>6
    <2>2. DOMAIN tab \subseteq 0..(max - 1) /\ \A c \in DOMAIN tab : tab[c] \in Lists
        BY <1>6, <1>7, <2>1, PutLists
    <2> QED BY <1>1, <2>2 DEF ListOf, Put
<1>10. /\ IsFiniteSet(Links(tab)) /\ Cardinality(Links(tab)) = size - 1
    BY <1>1, <1>6, <1>7, <1>8, CountShrink
<1>11. r \in Lists /\ Len(r.nodes) = Len(ListOf(tab, b).nodes) + 1
    BY <1>5, <1>8, <1>9, Appended DEF Size
<1> HIDE DEF tab, r
<1>12. table' = Put(tab, b, r)
    BY <1>2 DEF tab, r
<1>13. IsFiniteSet(Links(table')) /\ Cardinality(Links(table')) = size
    <2>1. Cardinality(Links(Put(tab, b, r))) = Cardinality(Links(tab)) + 1
          /\ IsFiniteSet(Links(Put(tab, b, r)))
        BY <1>9, <1>10, <1>11, CountGrow
    <2> QED BY <1>6, <1>10, <1>12, <2>1
<1>14. /\ DOMAIN table' \subseteq 0..(max - 1)
       /\ \A c \in DOMAIN table' : table'[c] \in Lists
    BY <1>5, <1>9, <1>11, <1>12, PutLists
<1>15. /\ walk' \in [on: BOOLEAN, bucket: 0..max, node: Key \cup {NULL}, num: Nat]
       /\ walk'.node # NULL => walk'.on /\ walk'.bucket < max
    <2>1. walk.bucket < max
        BY <1>1, <1>6 DEF w
    <2> QED BY <1>1, <1>3, <2>1, AdvanceType, NextNodeType
<1>16. \A c \in DOMAIN table' : table'[c].nodes \in Seq(Key)
    BY <1>14 DEF Lists
<1> QED BY <1>1, <1>13, <1>14, <1>15, <1>16 DEF TableInv, TypeOK

(* No step of dict_hash_rehash changes the count of the places.            *)
LEMMA TableRehash ==
    ASSUME TableInv, dict_hash_rehash
    PROVE  TableInv'
<1>1. /\ walk \in [on: BOOLEAN, bucket: 0..max, node: Key \cup {NULL}, num: Nat]
      /\ max \in Nat
    BY DEF TableInv, TypeOK
<1>2. CASE rehash_bucket
    <2>1. /\ walk' = [walk EXCEPT !.node = NodeAt(BucketList(walk.bucket), 0), !.num = 0,
                         !.bucket = IF NodeAt(BucketList(@), 0) = NULL THEN @ + 1 ELSE @]
          /\ UNCHANGED <<max, size, table, data, map, crowded>>
          /\ walk.on /\ walk.bucket < max
        BY <1>2 DEF rehash_bucket
    <2>2. NodeAt(BucketList(walk.bucket), 0) \in Key \cup {NULL}
        BY BucketLists DEF NodeAt, Size, Lists
    <2>3. /\ walk' \in [on: BOOLEAN, bucket: 0..max, node: Key \cup {NULL}, num: Nat]
          /\ walk'.node # NULL => walk'.on /\ walk'.bucket < max
        <3> DEFINE n == NodeAt(BucketList(walk.bucket), 0)
                   b == IF n = NULL THEN walk.bucket + 1 ELSE walk.bucket
        <3>1. walk' = [walk EXCEPT !.node = n, !.num = 0, !.bucket = b]
            BY <1>1, <2>1
        <3>2. n \in Key \cup {NULL}
            BY <2>2
        <3>3. b \in 0..max /\ (n # NULL => b < max)
            BY <1>1, <2>1
        <3> HIDE DEF n, b
        <3>4. /\ walk' \in [on: BOOLEAN, bucket: 0..max, node: Key \cup {NULL}, num: Nat]
              /\ walk'.on = walk.on /\ walk'.node = n /\ walk'.bucket = b
            BY <1>1, <3>1, <3>2, <3>3, WalkMoved
        <3> QED BY <2>1, <3>3, <3>4
    <2> QED BY <2>1, <2>3, TableWalk
<1>3. CASE rehash_keep
    <2>1. /\ walk.bucket \in DOMAIN table /\ walk.node \in Linked(table[walk.bucket])
          /\ walk.on /\ UNCHANGED <<max, size, table, data, map, crowded>>
          /\ Advance(NextNode(table[walk.bucket], walk.node))
        BY <1>3, BucketLists DEF rehash_keep
    <2>2. table[walk.bucket] \in Lists /\ walk.bucket < max
        BY <1>1, <2>1 DEF TableInv, TypeOK
    <2> QED BY <2>1, <2>2, AdvanceType, NextNodeType, TableWalk
<1>4. CASE rehash_move
    BY <1>4, TableRehashMove
<1>5. CASE rehash_lost
    <2>1. /\ walk.on /\ walk.node # NULL /\ Advance(NULL)
          /\ UNCHANGED <<max, size, table, data, map, crowded>>
        BY <1>5 DEF rehash_lost
    <2>2. walk.bucket < max
        BY <2>1 DEF TableInv
    <2> QED BY <2>1, <2>2, AdvanceType, TableWalk
<1>6. CASE rehash_end
    <2>1. walk' = Off /\ UNCHANGED <<max, size, table, data, map, crowded>>
        BY <1>6 DEF rehash_end
    <2>2. /\ walk' \in [on: BOOLEAN, bucket: 0..max, node: Key \cup {NULL}, num: Nat]
          /\ walk'.node = NULL
        BY <1>1, <2>1 DEF Off
    <2> QED BY <2>1, <2>2, TableWalk
<1> QED BY <1>2, <1>3, <1>4, <1>5, <1>6 DEF dict_hash_rehash

(* dict_hash_del: one place fewer, whichever node the index found.         *)
LEMMA TableDel ==
    ASSUME TableInv, NEW k \in Key, dict_hash_del(k)
    PROVE  TableInv'
<1>1. /\ map' = [map EXCEPT ![k] = NULL] /\ UNCHANGED <<max, walk, crowded>>
    BY DEF dict_hash_del
<1>2. map' \in [Key -> Value \cup {NULL}]
    BY <1>1 DEF TableInv, TypeOK
<1>3. CASE ~Contains(k)
    <2>1. UNCHANGED <<table, data, size>>
        BY <1>3 DEF dict_hash_del
    <2>2. Links(table') = Links(table)
        BY <2>1
    <2> QED BY <1>1, <1>2, <2>1, <2>2 DEF TableInv, TypeOK
<1>4. CASE Contains(k)
    <2> DEFINE b == Bucket(k)
    <2>1. PICK p \in Deleted(table[b], IndexOf(table[b], k)) : table' = Put(table, b, p.list)
        BY <1>4 DEF dict_hash_del
    <2>2. data' = [data EXCEPT ![k] = NULL] /\ size' = size - 1
        BY <1>4 DEF dict_hash_del
    <2>3. b \in DOMAIN table /\ k \in Linked(table[b]) /\ table[b] \in Lists
        BY <1>4 DEF Contains, TableInv
    <2> HIDE DEF b
    <2>4. /\ p.list \in Lists
          /\ \E i \in 0..(Size(table[b]) - 1) : RemovedAt(table[b].nodes, p.list.nodes, i)
        BY <2>1, <2>3, DeletedRemoves DEF Removes
    <2>5. Len(p.list.nodes) = Len(table[b].nodes) - 1
        BY <2>4 DEF RemovedAt
    <2>6. /\ \A c \in DOMAIN table : table[c] \in Lists
          /\ IsFiniteSet(Links(table)) /\ size = Cardinality(Links(table)) /\ size \in Nat
          /\ DOMAIN table \subseteq 0..(max - 1) /\ max \in Nat
        BY DEF TableInv, TypeOK
    <2>7. IsFiniteSet(Links(table')) /\ size' = Cardinality(Links(table')) /\ size' \in Nat
        <3>1. /\ IsFiniteSet(Links(Put(table, b, p.list)))
              /\ Cardinality(Links(Put(table, b, p.list))) = Cardinality(Links(table)) - 1
              /\ Cardinality(Links(table)) > 0
            BY <2>3, <2>4, <2>5, <2>6, CountShrink
        <3> QED BY <2>1, <2>2, <2>6, <3>1
    <2>8. /\ DOMAIN table' \subseteq 0..(max - 1)
          /\ \A c \in DOMAIN table' : table'[c] \in Lists
        <3>1. b \in 0..(max - 1)
            BY <2>3, <2>6
        <3> QED BY <2>1, <2>4, <2>6, <3>1, PutLists
    <2>9. \A c \in DOMAIN table' : table'[c].nodes \in Seq(Key)
        BY <2>8 DEF Lists
    <2>10. data' \in [Key -> Value \cup {NULL}]
        BY <2>2 DEF TableInv, TypeOK
    <2> QED BY <1>1, <1>2, <2>7, <2>8, <2>9, <2>10 DEF TableInv, TypeOK
<1> QED BY <1>3, <1>4

(* TableInv is inductive.                                                  *)
LEMMA TableStep == ASSUME TableInv, [Step]_vars PROVE TableInv'
<1>1. CASE UNCHANGED vars
    <2>1. Links(table') = Links(table)
        BY <1>1 DEF vars
    <2> QED BY <1>1, <2>1 DEF vars, TableInv, TypeOK
<1>2. CASE \E k \in Key, v \in Value : dict_hash_set_new(k, v) \/ dict_hash_set_again(k, v)
    BY <1>2, TableSetNew, TableSetAgain
<1>3. CASE dict_hash_rehash
    BY <1>3, TableRehash
<1>4. CASE \E k \in Key : dict_hash_del(k)
    BY <1>4, TableDel
<1> QED BY <1>1, <1>2, <1>3, <1>4 DEF Step

-----------------------------------------------------------------------------
(* Clean: what holds while no rehash met a crowded bucket.                 *)

(* The lists of a table are exact, and no two link the same node.          *)
Sound(tab) ==
    /\ \A b \in DOMAIN tab : tab[b] \in Lists /\ FastExact(tab[b]) /\ Distinct(tab[b])
    /\ \A b, c \in DOMAIN tab : b # c => Linked(tab[b]) \cap Linked(tab[c]) = {}

(* A table new is tab with the node n linked in bucket b besides.          *)
Grown(tab, new, b, n) ==
    /\ Sound(new) /\ DOMAIN new = DOMAIN tab \cup {b}
    /\ \A c \in DOMAIN tab : c # b => new[c] = tab[c]
    /\ new[b].fast = ListOf(tab, b).fast
    /\ Linked(new[b]) = Linked(ListOf(tab, b)) \cup {n}
    /\ \A k : (\E c \in DOMAIN new : k \in Linked(new[c]))
                 <=> k = n \/ \E c \in DOMAIN tab : k \in Linked(tab[c])

(* A node that no bucket links, appended to one.                           *)
LEMMA GrownTable ==
    ASSUME NEW tab, Sound(tab), NEW b, NEW n \in Key,
           \A c \in DOMAIN tab : n \notin Linked(tab[c]),
           NEW new, new = Put(tab, b, Append1(ListOf(tab, b), n))
    PROVE  Grown(tab, new, b, n)
<1> DEFINE l == ListOf(tab, b)  r == Append1(l, n)
<1>1. /\ DOMAIN new = DOMAIN tab \cup {b} /\ new[b] = r
      /\ \A c \in DOMAIN tab : c # b => new[c] = tab[c]
    BY DEF Put
<1>2. /\ l \in Lists /\ FastExact(l) /\ Distinct(l) /\ n \notin Linked(l)
      /\ b \in DOMAIN tab => l = tab[b]
      /\ b \notin DOMAIN tab => Linked(l) = {}
    BY NewListFacts DEF ListOf, Sound
<1> HIDE DEF l
<1>3. /\ r \in Lists /\ FastExact(r) /\ Distinct(r) /\ r.fast = l.fast
      /\ Linked(r) = Linked(l) \cup {n}
    BY <1>2, Appended
<1> HIDE DEF r
<1>4. \A c \in DOMAIN tab : c # b => Linked(l) \cap Linked(tab[c]) = {}
    BY <1>2 DEF Sound
<1>5. \A c \in DOMAIN new : new[c] \in Lists /\ FastExact(new[c]) /\ Distinct(new[c])
    BY <1>1, <1>3 DEF Sound
<1>6. ASSUME NEW c \in DOMAIN new, NEW d \in DOMAIN new, c # d
      PROVE  Linked(new[c]) \cap Linked(new[d]) = {}
    <2>1. CASE c # b /\ d # b
        BY <1>1, <1>6, <2>1 DEF Sound
    <2>2. CASE c = b
        BY <1>1, <1>3, <1>4, <1>6, <2>2
    <2>3. CASE d = b
        BY <1>1, <1>3, <1>4, <1>6, <2>3
    <2> QED BY <2>1, <2>2, <2>3
<1>7. ASSUME NEW k
      PROVE  (\E c \in DOMAIN new : k \in Linked(new[c]))
                <=> k = n \/ \E c \in DOMAIN tab : k \in Linked(tab[c])
    BY <1>1, <1>2, <1>3
<1> QED BY <1>1, <1>3, <1>5, <1>6, <1>7 DEF Sound, Grown, l

(* A node taken out of its bucket.                                         *)
LEMMA ShrunkTable ==
    ASSUME NEW tab, Sound(tab), NEW b \in DOMAIN tab, NEW r \in Lists, FastExact(r),
           NEW k, RemovedAt(tab[b].nodes, r.nodes, k),
           NEW n, n = tab[b].nodes[k + 1], n \in Linked(tab[b]),
           NEW new, new = Put(tab, b, r)
    PROVE  /\ Sound(new) /\ DOMAIN new = DOMAIN tab
           /\ \A c \in DOMAIN tab : c # b => new[c] = tab[c]
           /\ new[b] = r /\ Linked(r) = Linked(tab[b]) \ {n}
           /\ \A c \in DOMAIN new : n \notin Linked(new[c])
           /\ \A q : (\E c \in DOMAIN new : q \in Linked(new[c]))
                        <=> q # n /\ \E c \in DOMAIN tab : q \in Linked(tab[c])
<1>1. /\ DOMAIN new = DOMAIN tab /\ new[b] = r
      /\ \A c \in DOMAIN tab : c # b => new[c] = tab[c]
    BY DEF Put
<1>2. tab[b] \in Lists /\ Distinct(tab[b])
    BY DEF Sound
<1>3. Distinct(r) /\ Linked(r) = Linked(tab[b]) \ {n}
    BY <1>2, RemovedLinks
<1>4. \A c \in DOMAIN tab : c # b => n \notin Linked(tab[c])
    BY DEF Sound
<1>5. \A c \in DOMAIN new : new[c] \in Lists /\ FastExact(new[c]) /\ Distinct(new[c])
    BY <1>1, <1>3 DEF Sound
<1>6. ASSUME NEW c \in DOMAIN new, NEW d \in DOMAIN new, c # d
      PROVE  Linked(new[c]) \cap Linked(new[d]) = {}
    <2>1. Linked(tab[c]) \cap Linked(tab[d]) = {}
        BY <1>1, <1>6 DEF Sound
    <2>2. Linked(new[c]) \subseteq Linked(tab[c]) /\ Linked(new[d]) \subseteq Linked(tab[d])
        BY <1>1, <1>3
    <2> QED BY <2>1, <2>2
<1>7. \A c \in DOMAIN new : n \notin Linked(new[c])
    BY <1>1, <1>3, <1>4
<1>8. ASSUME NEW q
      PROVE  (\E c \in DOMAIN new : q \in Linked(new[c]))
                <=> q # n /\ \E c \in DOMAIN tab : q \in Linked(tab[c])
    BY <1>1, <1>3, <1>4, <1>7
<1> QED BY <1>1, <1>3, <1>5, <1>6, <1>7, <1>8 DEF Sound

(* A table of TableInv and Clean is sound, and a sound one is clean.       *)
LEMMA CleanSound ==
    /\ TableInv /\ Exact /\ Apart => Sound(table)
    /\ Sound(table) => Exact /\ Apart
    BY DEF TableInv, Exact, Apart, Sound

(* When nobody rehashes every key is in the bucket of its hash.            *)
LEMMA Idle ==
    ASSUME TableInv, Homes, Kept, ~walk.on, NEW k \in Key
    PROVE  /\ Contains(k) <=> map[k] # NULL
           /\ Contains(k) <=> \E b \in DOMAIN table : k \in Linked(table[b])
           /\ \A b \in DOMAIN table : k \in Linked(table[b]) => b = Bucket(k)
<1>1. \A b \in DOMAIN table : k \in Linked(table[b]) => b = Bucket(k)
    BY DEF Homes, Waiting
<1>2. Contains(k) <=> \E b \in DOMAIN table : k \in Linked(table[b])
    BY <1>1 DEF Contains
<1> QED BY <1>1, <1>2 DEF Kept

(* An empty table is clean.                                                *)
LEMMA CleanInit == Init => Clean
<1> SUFFICES ASSUME Init PROVE Clean
    OBVIOUS
<1>1. DOMAIN table = {} /\ Keys = {} /\ size = 0 /\ ~walk.on
    BY DEF Init, Keys, Off
<1>2. Counted
    BY <1>1, FS_EmptySet DEF Counted
<1>3. Kept
    BY <1>1 DEF Init, Kept
<1> QED BY <1>1, <1>2, <1>3 DEF Clean, Homes, Exact, Apart, Walking

(* The keys counted when one is added or goes.                             *)
LEMMA KeyAdded ==
    ASSUME Counted, NEW k \in Key, k \notin Keys
    PROVE  IsFiniteSet(Keys \cup {k}) /\ Cardinality(Keys \cup {k}) = size + 1
    BY FS_AddElement DEF Counted

(* One key fewer, counted.                                                 *)
LEMMA KeyGone ==
    ASSUME Counted, NEW k \in Keys
    PROVE  IsFiniteSet(Keys \ {k}) /\ Cardinality(Keys \ {k}) = size - 1
    BY FS_RemoveElement DEF Counted

(* A new key is linked in its bucket; when the table is doubled every key  *)
(* waits for the rehash, in the bucket of its hash modulo the old size.    *)
LEMMA CleanSetNew ==
    ASSUME TableInv, Clean, NEW k \in Key, NEW v \in Value, dict_hash_set_new(k, v), ~crowded'
    PROVE  Clean'
<1> DEFINE b == Bucket(k)
<1>1. /\ ~walk.on /\ ~Contains(k)
      /\ table' = Put(table, b, Append1(ListOf(table, b), k))
      /\ data' = [data EXCEPT ![k] = v] /\ map' = [map EXCEPT ![k] = v]
      /\ size' = size + 1
    BY DEF dict_hash_set_new, BucketList, ListOf
<1>2. \/ max' = max /\ walk' = walk
      \/ /\ max' = 2 * max /\ walk' = [Off EXCEPT !.on = TRUE]
         /\ \A c \in DOMAIN table' : ~Crowded(table'[c])
    BY DEF dict_hash_set_new
<1>3. \A q \in Key : /\ Contains(q) <=> map[q] # NULL
                     /\ Contains(q) <=> \E c \in DOMAIN table : q \in Linked(table[c])
                     /\ \A c \in DOMAIN table : q \in Linked(table[c]) => c = Bucket(q)
    BY <1>1, Idle DEF Clean
<1>4. Sound(table)
    BY CleanSound DEF Clean
<1>5. v # NULL
    BY DictHashAssumption
<1>6. \A c \in DOMAIN table : k \notin Linked(table[c])
    BY <1>1, <1>3
<1> HIDE DEF b
<1>7. /\ Sound(table') /\ DOMAIN table' = DOMAIN table \cup {b}
      /\ \A c \in DOMAIN table : c # b => table'[c] = table[c]
      /\ Linked(table'[b]) = Linked(ListOf(table, b)) \cup {k}
      /\ \A q : (\E c \in DOMAIN table' : q \in Linked(table'[c]))
                   <=> q = k \/ \E c \in DOMAIN table : q \in Linked(table[c])
    <2>1. Grown(table, table', b, k)
        BY <1>1, <1>4, <1>6, GrownTable
    <2> QED BY <2>1 DEF Grown
<1>8. Exact' /\ Apart'
    BY <1>7, CleanSound DEF Sound, Exact, Apart
<1>9. Kept'
    <2>1. ASSUME NEW q \in Key
          PROVE  /\ data'[q] = map'[q]
                 /\ map'[q] # NULL <=> \E c \in DOMAIN table' : q \in Linked(table'[c])
        <3>1. data[q] = map[q] /\ data \in [Key -> Value \cup {NULL}]
              /\ map \in [Key -> Value \cup {NULL}]
            BY DEF Clean, Kept, TableInv, TypeOK
        <3>2. CASE q = k
            BY <1>1, <1>5, <1>7, <3>1, <3>2
        <3>3. CASE q # k
            BY <1>1, <1>3, <1>7, <3>1, <3>3
        <3> QED BY <3>2, <3>3
    <2> QED BY <2>1 DEF Kept
<1>10. Counted'
    <2>1. k \notin Keys
        BY <1>1, <1>3 DEF Keys
    <2>2. IsFiniteSet(Keys \cup {k}) /\ Cardinality(Keys \cup {k}) = size + 1
        BY <2>1, KeyAdded DEF Clean
    <2>3. Keys' = Keys \cup {k}
        BY <1>1, <1>5 DEF Keys, TableInv, TypeOK
    <2> QED BY <1>1, <2>2, <2>3 DEF Counted
<1>11. \A c \in DOMAIN table' : \A q \in Linked(table'[c]) : q \in Key /\ Hash[q] % max = c
    <2>1. ASSUME NEW c \in DOMAIN table', NEW q \in Linked(table'[c])
          PROVE  q \in Key /\ Hash[q] % max = c
        <3>1. q \in Key
            BY <1>7, LinkedAt DEF Sound
        <3>2. q = k \/ \E d \in DOMAIN table : q \in Linked(table[d])
            BY <1>7
        <3>3. CASE c = b /\ q = k
            BY <3>1, <3>3 DEF b, Bucket
        <3>4. CASE c = b /\ q # k
            <4>1. q \in Linked(ListOf(table, b))
                BY <1>7, <3>4
            <4>2. b \in DOMAIN table /\ q \in Linked(table[b])
                BY <4>1, NewListFacts DEF ListOf
            <4> QED BY <1>3, <3>1, <3>4, <4>2 DEF Bucket
        <3>5. CASE c # b
            BY <1>3, <1>7, <3>1, <3>5 DEF Bucket
        <3> QED BY <3>3, <3>4, <3>5
    <2> QED BY <2>1
<1>12. CASE max' = max /\ walk' = walk
    <2>1. Homes'
        BY <1>11, <1>12 DEF Homes, Bucket
    <2>2. Walking'
        BY <1>1, <1>12 DEF Walking
    <2> QED BY <1>8, <1>9, <1>10, <2>1, <2>2 DEF Clean
<1>13. CASE /\ max' = 2 * max /\ walk' = [Off EXCEPT !.on = TRUE]
            /\ \A c \in DOMAIN table' : ~Crowded(table'[c])
    <2>1. max \in Nat /\ Half' = max /\ max' = 2 * Half'
        BY <1>13 DEF Half, TableInv, TypeOK
    <2>2. walk' = [on |-> TRUE, bucket |-> 0, node |-> NULL, num |-> 0]
        BY <1>13 DEF Off
    <2>3. DOMAIN table' \subseteq 0..(max - 1)
        <3>1. b \in 0..(max - 1) /\ DOMAIN table \subseteq 0..(max - 1)
            BY BucketRange DEF b, TableInv, TypeOK
        <3> QED BY <1>7, <3>1
    <2>4. ASSUME NEW c \in DOMAIN table', NEW q \in Linked(table'[c])
          PROVE  Waiting(q, c)'
        <3>1. c \in 0..(max - 1) /\ Hash[q] % max = c
            BY <1>11, <2>3
        <3>2. walk'.on /\ walk'.bucket = 0 /\ walk'.node = NULL
            BY <2>2
        <3>3. c < max /\ (c > 0 \/ c = 0)
            BY <2>1, <3>1
        <3> QED BY <2>1, <3>1, <3>2, <3>3 DEF Waiting
    <2>5. Homes'
        BY <2>4 DEF Homes
    <2>6. \A c \in DOMAIN table' : table'[c].fast = NULL /\ Size(table'[c]) <= 2
        <3>1. \A c \in DOMAIN table' : Size(table'[c]) \in Nat
            BY <1>7 DEF Sound, Size, Lists
        <3> QED BY <1>13, <3>1 DEF Crowded
    <2>7. Walking'
        BY <2>1, <2>2, <2>6 DEF Walking
    <2> QED BY <1>8, <1>9, <1>10, <2>5, <2>7 DEF Clean
<1> QED BY <1>2, <1>12, <1>13

(* A key set again keeps its place, and the new value is stored.           *)
LEMMA CleanSetAgain ==
    ASSUME TableInv, Clean, NEW k \in Key, NEW v \in Value, dict_hash_set_again(k, v)
    PROVE  Clean'
<1>1. /\ ~walk.on /\ Contains(k) /\ data' = [data EXCEPT ![k] = v]
      /\ map' = [map EXCEPT ![k] = v] /\ UNCHANGED <<max, size, table, walk, crowded>>
    BY DEF dict_hash_set_again
<1>2. map[k] # NULL /\ v # NULL
    BY <1>1, Idle, DictHashAssumption DEF Clean
<1>3. /\ \A q \in Key : data'[q] = map'[q] /\ (map'[q] # NULL <=> map[q] # NULL)
    BY <1>1, <1>2 DEF Clean, Kept, TableInv, TypeOK
<1>4. Kept'
    BY <1>1, <1>3 DEF Clean, Kept
<1>5. Keys' = Keys
    BY <1>3 DEF Keys
<1>6. Counted'
    BY <1>1, <1>5 DEF Clean, Counted
<1>7. Exact' /\ Apart'
    BY <1>1 DEF Clean, Exact, Apart
<1>8. Homes' /\ Walking'
    BY <1>1 DEF Clean, Homes, Walking, Bucket, Waiting, Half, Standing
<1> QED BY <1>4, <1>6, <1>7, <1>8 DEF Clean

(* A deletion takes the key's own list node, and the fast node stays exact.*)
LEMMA CleanDel ==
    ASSUME TableInv, Clean, NEW k \in Key, dict_hash_del(k)
    PROVE  Clean'
<1> DEFINE b == Bucket(k)
<1>1. /\ ~walk.on /\ map' = [map EXCEPT ![k] = NULL] /\ UNCHANGED <<max, walk, crowded>>
    BY DEF dict_hash_del
<1>2. \A q \in Key : /\ Contains(q) <=> map[q] # NULL
                     /\ Contains(q) <=> \E c \in DOMAIN table : q \in Linked(table[c])
                     /\ \A c \in DOMAIN table : q \in Linked(table[c]) => c = Bucket(q)
    BY <1>1, Idle DEF Clean
<1>3. /\ \A q \in Key : data[q] = map[q] /\ data \in [Key -> Value \cup {NULL}]
      /\ map \in [Key -> Value \cup {NULL}]
    BY DEF Clean, Kept, TableInv, TypeOK
<1>4. Walking'
    BY <1>1 DEF Walking
<1>5. CASE ~Contains(k)
    <2>1. UNCHANGED <<table, data, size>>
        BY <1>5 DEF dict_hash_del
    <2>2. map' = map
        BY <1>1, <1>2, <1>3, <1>5
    <2>3. Kept' /\ Counted'
        BY <2>1, <2>2 DEF Clean, Kept, Counted, Keys
    <2>4. Homes' /\ Exact' /\ Apart'
        BY <1>1, <2>1 DEF Clean, Homes, Exact, Apart, Bucket, Waiting, Half
    <2> QED BY <1>4, <2>3, <2>4 DEF Clean
<1>6. CASE Contains(k)
    <2>1. PICK p \in Deleted(table[b], IndexOf(table[b], k)) : table' = Put(table, b, p.list)
        BY <1>6 DEF dict_hash_del
    <2>2. data' = [data EXCEPT ![k] = NULL] /\ size' = size - 1
        BY <1>6 DEF dict_hash_del
    <2>3. b \in DOMAIN table /\ k \in Linked(table[b])
        BY <1>6 DEF Contains
    <2> HIDE DEF b
    <2>4. Sound(table)
        BY CleanSound DEF Clean
    <2>5. table[b] \in Lists /\ FastExact(table[b]) /\ Distinct(table[b])
        BY <2>3, <2>4 DEF Sound
    <2>6. /\ p.list \in Lists /\ FastExact(p.list)
          /\ table[b].nodes[IndexOf(table[b], k) + 1] = k
          /\ RemovedAt(table[b].nodes, p.list.nodes, IndexOf(table[b], k))
        BY <2>1, <2>3, <2>5, DeletedRight
    <2>7. /\ Sound(table') /\ DOMAIN table' = DOMAIN table
          /\ \A c \in DOMAIN table : c # b => table'[c] = table[c]
          /\ table'[b] = p.list /\ Linked(p.list) = Linked(table[b]) \ {k}
          /\ \A q : (\E c \in DOMAIN table' : q \in Linked(table'[c]))
                       <=> q # k /\ \E c \in DOMAIN table : q \in Linked(table[c])
        BY <2>1, <2>3, <2>4, <2>6, ShrunkTable
    <2>8. Exact' /\ Apart'
        BY <2>7, CleanSound DEF Sound, Exact, Apart
    <2>9. Kept'
        <3>1. ASSUME NEW q \in Key
              PROVE  /\ data'[q] = map'[q]
                     /\ map'[q] # NULL <=> \E c \in DOMAIN table' : q \in Linked(table'[c])
            <4>1. CASE q = k
                BY <1>1, <1>3, <2>2, <2>7, <4>1
            <4>2. CASE q # k
                BY <1>1, <1>2, <1>3, <2>2, <2>7, <4>2
            <4> QED BY <4>1, <4>2
        <3> QED BY <3>1 DEF Kept
    <2>10. Counted'
        <3>1. k \in Keys
            BY <1>2, <1>6 DEF Keys
        <3>2. IsFiniteSet(Keys \ {k}) /\ Cardinality(Keys \ {k}) = size - 1
            BY <3>1, KeyGone DEF Clean
        <3>3. Keys' = Keys \ {k}
            BY <1>1, <1>3 DEF Keys
        <3> QED BY <2>2, <3>2, <3>3 DEF Counted
    <2>11. Homes'
        <3>1. ASSUME NEW c \in DOMAIN table', NEW q \in Linked(table'[c])
              PROVE  Hash[q] % max = c
            <4>1. c \in DOMAIN table /\ q \in Linked(table[c])
                BY <2>7
            <4>2. q \in Key
                BY <2>4, <4>1, LinkedAt DEF Sound
            <4> QED BY <1>2, <4>1, <4>2 DEF Bucket
        <3> QED BY <1>1, <3>1 DEF Homes, Bucket
    <2> QED BY <1>4, <2>8, <2>9, <2>10, <2>11 DEF Clean
<1> QED BY <1>5, <1>6

-----------------------------------------------------------------------------
(* Clean: the steps of the rehash.                                         *)

(* Where the walk stands in the old half, and what it still waits for: at  *)
(* most one more node, which is the next one.                              *)
LEMMA Stands ==
    ASSUME TableInv, Clean, walk.on, walk.node # NULL, walk.bucket < Half
    PROVE  LET l == table[walk.bucket]
           IN  /\ walk.bucket \in DOMAIN table /\ l \in Lists /\ Distinct(l) /\ l.fast = NULL
               /\ Size(l) \in {1, 2} /\ walk.num \in {0, 1}
               /\ walk.node \in Linked(l) /\ walk.node = NodeAt(l, At(l, walk.num))
               /\ NextNode(l, walk.node) = IF walk.num = 0 THEN NodeAt(l, 1) ELSE NULL
               /\ walk.num = 0 => \A k \in Linked(l) : k = walk.node \/ k = NodeAt(l, 1)
<1> DEFINE l == table[walk.bucket]  n == walk.node
<1>1. /\ walk.bucket \in DOMAIN table /\ n \in Linked(l) /\ Standing(l)
      /\ l.fast = NULL /\ Size(l) <= 2
    BY DEF Clean, Walking
<1>2. l \in Lists /\ Distinct(l)
    BY <1>1, CleanSound DEF Clean, Sound
<1> HIDE DEF l, n
<1>3. /\ IndexOf(l, n) \in 0..(Size(l) - 1) /\ Size(l) \in Nat /\ Size(l) = Len(l.nodes)
    BY <1>1, <1>2, LinkedAt
<1>4. Size(l) \in {1, 2}
    <2>1. Size(l) \in Nat /\ Size(l) <= 2 /\ Size(l) # 0
        BY <1>1, <1>3
    <2> QED BY <2>1
<1>5. /\ \/ walk.num = 0 /\ n = NodeAt(l, 0)
         \/ walk.num = 1 /\ n = NodeAt(l, Size(l) - 1)
      /\ n = NodeAt(l, At(l, walk.num))
    BY <1>1 DEF Standing, At, n
<1>6. CASE walk.num = 0
    <2>1. IndexOf(l, n) = 0
        BY <1>2, <1>4, <1>5, <1>6, IndexUnique
    <2>2. NextNode(l, n) = NodeAt(l, 1)
        BY <2>1 DEF NextNode
    <2>3. ASSUME NEW k \in Linked(l) PROVE k = n \/ k = NodeAt(l, 1)
        <3>1. PICK i \in 1..Len(l.nodes) : l.nodes[i] = k
            BY DEF Linked
        <3>2. i = 1 \/ (i = 2 /\ Size(l) = 2)
            BY <1>3, <1>4, <3>1
        <3>3. NodeAt(l, 0) = l.nodes[1]
            BY <1>4 DEF NodeAt
        <3>4. Size(l) = 2 => NodeAt(l, 1) = l.nodes[2]
            BY DEF NodeAt
        <3> QED BY <1>5, <1>6, <3>1, <3>2, <3>3, <3>4
    <2> QED BY <1>1, <1>2, <1>4, <1>5, <1>6, <2>2, <2>3 DEF l, n
<1>7. CASE walk.num = 1
    <2>1. IndexOf(l, n) = Size(l) - 1
        <3>1. Size(l) - 1 \in 0..(Size(l) - 1)
            BY <1>4
        <3> QED BY <1>2, <1>5, <1>7, <3>1, IndexUnique
    <2>2. NodeAt(l, (Size(l) - 1) + 1) = NULL
        BY <1>4 DEF NodeAt
    <2>3. NextNode(l, n) = NULL
        BY <2>1, <2>2 DEF NextNode
    <2> QED BY <1>1, <1>2, <1>4, <1>5, <1>7, <2>3 DEF l, n
<1> QED BY <1>5, <1>6, <1>7

(* What waits, other than the node the walk leaves, goes on waiting.       *)
LEMMA WaitsOn ==
    ASSUME TableInv, Clean, walk.on, walk.node # NULL,
           Advance(NextNode(table[walk.bucket], walk.node)), max' = max,
           NEW c \in DOMAIN table, NEW k \in Linked(table[c]), k # walk.node, Waiting(k, c)
    PROVE  Waiting(k, c)'
<1> DEFINE w == walk.bucket  l == table[w]  next == NextNode(l, walk.node)
<1>1. w \in DOMAIN table /\ walk.node \in Linked(l) /\ l \in Lists /\ w < max
    BY DEF Clean, Walking, TableInv
<1>2. next \in Key \cup {NULL}
    BY <1>1, NextNodeType
<1>3. /\ walk'.on /\ walk'.node = next /\ walk'.num = walk.num + 1
      /\ walk'.bucket = IF next = NULL THEN w + 1 ELSE w
    BY <1>1, <1>2, AdvanceType
<1>4. Half' = Half /\ w \in Nat /\ c \in Nat
    BY DEF Half, TableInv, TypeOK
<1>5. /\ c < Half /\ Hash[k] % Half = c
      /\ c > w \/ (c = w /\ walk.num = 0)
    BY DEF Waiting, w
<1>6. CASE c > w
    <2>1. c > walk'.bucket \/ (c = walk'.bucket /\ walk'.node = NULL)
        <3> HIDE DEF next, w
        <3> QED BY <1>3, <1>4, <1>6
    <2> QED BY <1>3, <1>4, <1>5, <2>1 DEF Waiting
<1>7. CASE c = w /\ walk.num = 0
    <2>1. next = NodeAt(l, 1) /\ (k = walk.node \/ k = NodeAt(l, 1)) /\ k \in Key
        BY <1>1, <1>5, <1>7, Stands, LinkedAt
    <2>2. k # NULL
        BY <2>1, NodeAssumption DEF Key
    <2>3. next = k /\ next # NULL
        BY <2>1, <2>2
    <2>4. walk'.node = k /\ walk'.bucket = c
        BY <1>3, <1>7, <2>3
    <2> QED BY <1>3, <1>4, <1>5, <2>4 DEF Waiting
<1> QED BY <1>5, <1>6, <1>7

(* The first node of a bucket, or the next bucket.                         *)
LEMMA CleanBucket ==
    ASSUME TableInv, Clean, rehash_bucket
    PROVE  Clean'
<1> DEFINE w == walk.bucket  l == BucketList(w)  n == NodeAt(l, 0)
<1>1. /\ walk.on /\ walk.node = NULL /\ w < max
      /\ UNCHANGED <<max, size, table, data, map, crowded>>
    BY DEF rehash_bucket
<1>2. /\ walk \in [on: BOOLEAN, bucket: 0..max, node: Key \cup {NULL}, num: Nat]
      /\ max \in Nat /\ w \in Nat
    BY DEF TableInv, TypeOK
<1>3. l \in Lists /\ Size(l) \in Nat /\ Size(l) = Len(l.nodes)
    BY BucketLists DEF Lists, Size
<1>4. n \in Key \cup {NULL}
    BY <1>3 DEF NodeAt, Lists
<1>5. /\ walk'.on /\ walk'.node = n /\ walk'.num = 0
      /\ walk'.bucket = IF n = NULL THEN w + 1 ELSE w
    <2> DEFINE b == IF n = NULL THEN w + 1 ELSE w
    <2>1. walk' = [walk EXCEPT !.node = n, !.num = 0, !.bucket = b]
        BY DEF rehash_bucket
    <2>2. b \in 0..max
        BY <1>1, <1>2
    <2> HIDE DEF b, n
    <2>3. walk'.on = walk.on /\ walk'.node = n /\ walk'.num = 0 /\ walk'.bucket = b
        BY <1>2, <1>4, <2>1, <2>2, WalkMoved
    <2> QED BY <1>1, <2>3 DEF b
<1>6. n = NULL => Linked(l) = {}
    <2>1. SUFFICES ASSUME n = NULL, NEW k \in Linked(l) PROVE FALSE
        OBVIOUS
    <2>2. Size(l) > 0
        BY <1>3, <2>1 DEF Linked
    <2>3. n = l.nodes[1] /\ l.nodes[1] \in Key
        BY <1>3, <2>2 DEF NodeAt, Lists
    <2> QED BY <2>1, <2>3, NodeAssumption DEF Key
<1>7. n # NULL => w \in DOMAIN table /\ l = table[w] /\ n \in Linked(table[w])
    <2>1. SUFFICES ASSUME n # NULL
                   PROVE  w \in DOMAIN table /\ l = table[w] /\ n \in Linked(table[w])
        OBVIOUS
    <2>2. n = l.nodes[1] /\ 1 \in 1..Len(l.nodes)
        BY <1>3, <2>1 DEF NodeAt
    <2>3. n \in Linked(l)
        BY <2>2 DEF Linked
    <2> QED BY <2>3, NewListFacts DEF BucketList
<1>8. Half' = Half
    BY <1>1 DEF Half
<1>9. ASSUME NEW c \in DOMAIN table, NEW k \in Linked(table[c]), Waiting(k, c)
      PROVE  Waiting(k, c)'
    <2>1. c < Half /\ Hash[k] % Half = c /\ (c > w \/ c = w) /\ c \in Nat
        BY <1>9 DEF Waiting, TableInv, TypeOK
    <2>2. c = w => n # NULL
        BY <1>6 DEF BucketList
    <2>3. \/ c > walk'.bucket
          \/ c = walk'.bucket /\ (walk'.node = NULL \/ walk'.num = 0)
        <3> HIDE DEF n, w
        <3> QED BY <1>2, <1>5, <2>1, <2>2
    <2> QED BY <1>5, <1>8, <2>1, <2>3 DEF Waiting
<1>10. Homes'
    BY <1>1, <1>9 DEF Clean, Homes, Bucket
<1>11. Exact' /\ Apart' /\ Kept' /\ Counted'
    BY <1>1 DEF Clean, Exact, Apart, Kept, Counted, Keys
<1>12. Walking'
    <2>1. /\ max' = 2 * Half'
          /\ \A b \in DOMAIN table' : /\ table'[b].fast = NULL
                                      /\ b < Half' => Size(table'[b]) <= 2
        BY <1>1, <1>8 DEF Clean, Walking
    <2>2. walk'.node # NULL => walk'.bucket = w /\ walk'.node = n /\ n # NULL
        BY <1>5
    <2>3. walk'.node # NULL => Standing(table[walk.bucket])'
        BY <1>1, <1>5, <1>7, <2>2 DEF Standing
    <2> QED BY <1>1, <1>7, <2>1, <2>2, <2>3 DEF Walking
<1> QED BY <1>10, <1>11, <1>12 DEF Clean

(* A node that is in its bucket already stays there.                       *)
LEMMA CleanKeep ==
    ASSUME TableInv, Clean, rehash_keep
    PROVE  Clean'
<1> DEFINE w == walk.bucket  l == table[w]  n == walk.node  next == NextNode(l, n)
<1>1. /\ walk.on /\ Bucket(n) = w /\ Advance(next)
      /\ w \in DOMAIN table /\ n \in Linked(l) /\ l \in Lists
      /\ UNCHANGED <<max, size, table, data, map, crowded>>
    BY BucketLists DEF rehash_keep, TableInv
<1>2. n \in Key /\ n # NULL /\ next \in Key \cup {NULL} /\ w < max
    BY <1>1, LinkedAt, NextNodeType, NodeAssumption DEF Key, TableInv, TypeOK
<1>3. /\ walk'.on /\ walk'.node = next /\ walk'.num = walk.num + 1
      /\ walk'.bucket = IF next = NULL THEN w + 1 ELSE w
    BY <1>1, <1>2, AdvanceType
<1>4. Half' = Half
    BY <1>1 DEF Half
<1>5. ASSUME NEW c \in DOMAIN table, NEW k \in Linked(table[c])
      PROVE  Hash[k] % max = c \/ Waiting(k, c)'
    <2>1. CASE k = n
        <3>1. c = w
            BY <1>1, <2>1 DEF Clean, Apart
        <3> QED BY <1>1, <2>1, <3>1 DEF Bucket
    <2>2. CASE k # n
        <3>1. Hash[k] % max = c \/ Waiting(k, c)
            BY DEF Clean, Homes, Bucket
        <3> QED BY <1>1, <1>2, <2>2, <3>1, WaitsOn
    <2> QED BY <2>1, <2>2
<1>6. Homes'
    BY <1>1, <1>5 DEF Homes, Bucket
<1>7. Exact' /\ Apart' /\ Kept' /\ Counted'
    BY <1>1 DEF Clean, Exact, Apart, Kept, Counted, Keys
<1>8. next # NULL => next \in Linked(l)
    <2>1. /\ IndexOf(l, n) \in 0..(Size(l) - 1) /\ Size(l) = Len(l.nodes) /\ Size(l) \in Nat
        BY <1>1, LinkedAt
    <2> SUFFICES ASSUME next # NULL PROVE next \in Linked(l)
        OBVIOUS
    <2> DEFINE i == IndexOf(l, n) + 1
    <2>2. next = NodeAt(l, i)
        BY DEF NextNode
    <2>3. i \in 0..(Size(l) - 1)
        BY <2>2 DEF NodeAt
    <2>4. i + 1 \in 1..Len(l.nodes) /\ NodeAt(l, i) = l.nodes[i + 1]
        <3> HIDE DEF i, l
        <3> QED BY <2>1, <2>3 DEF NodeAt
    <2> HIDE DEF i, l, next
    <2> QED BY <2>2, <2>4 DEF Linked
<1>9. next # NULL /\ w < Half => walk'.num = 1 /\ next = NodeAt(l, Size(l) - 1)
    <2>1. SUFFICES ASSUME next # NULL, w < Half
                   PROVE  walk'.num = 1 /\ next = NodeAt(l, Size(l) - 1)
        OBVIOUS
    <2>2. /\ Size(l) \in {1, 2} /\ walk.num \in {0, 1}
          /\ next = IF walk.num = 0 THEN NodeAt(l, 1) ELSE NULL
        BY <1>1, <1>2, <2>1, Stands
    <2>3. walk.num = 0 /\ next = NodeAt(l, 1)
        BY <2>1, <2>2
    <2>4. Size(l) = 2
        BY <2>1, <2>2, <2>3 DEF NodeAt
    <2> QED BY <1>3, <2>3, <2>4
<1>10. Walking'
    <2>1. /\ max' = 2 * Half'
          /\ \A b \in DOMAIN table' : /\ table'[b].fast = NULL
                                      /\ b < Half' => Size(table'[b]) <= 2
        BY <1>1, <1>4 DEF Clean, Walking
    <2>2. walk'.node # NULL => walk'.bucket = w /\ walk'.node = next /\ next # NULL
        BY <1>3
    <2>3. walk'.node # NULL => /\ walk'.bucket \in DOMAIN table'
                               /\ walk'.node \in Linked(table'[walk'.bucket])
        BY <1>1, <1>8, <2>2
    <2>4. walk'.node # NULL /\ walk'.bucket < Half' => Standing(table[walk.bucket])'
        BY <1>1, <1>4, <1>9, <2>2 DEF Standing
    <2> QED BY <2>1, <2>3, <2>4 DEF Walking
<1> QED BY <1>6, <1>7, <1>10 DEF Clean

(* A node of the old half goes to the bucket half the table further: it is *)
(* the one popped, and every other node stays where it was.                *)
LEMMA CleanMove ==
    ASSUME TableInv, Clean, rehash_move
    PROVE  Clean'
<1> DEFINE w == walk.bucket  l == table[w]  n == walk.node  next == NextNode(l, n)
           b == Bucket(n)
<1>1. /\ walk.on /\ b # w /\ Advance(next)
      /\ w \in DOMAIN table /\ n \in Linked(l) /\ l \in Lists
      /\ UNCHANGED <<max, size, data, map, crowded>>
    BY BucketLists DEF rehash_move, TableInv
<1>2. PICK p \in Popped(l, walk.num) :
            table' = Put(Put(table, w, p.list), b, Append1(BucketList(b), p.node))
    BY DEF rehash_move
<1>3. /\ n \in Key /\ n # NULL /\ next \in Key \cup {NULL} /\ w < max /\ w \in Nat
    BY <1>1, LinkedAt, NextNodeType, NodeAssumption DEF Key, TableInv, TypeOK
<1>4. /\ walk'.on /\ walk'.node = next /\ walk'.num = walk.num + 1
      /\ walk'.bucket = IF next = NULL THEN w + 1 ELSE w
    BY <1>1, <1>3, AdvanceType
<1>5. Half' = Half
    BY <1>1 DEF Half
<1>6. Waiting(n, w) /\ w < Half /\ b = w + Half
    <2>1. Waiting(n, w)
        BY <1>1 DEF Clean, Homes
    <2>2. w < Half /\ Hash[n] % Half = w
        BY <2>1 DEF Waiting
    <2>3. max = 2 * Half /\ Half \in Nat \ {0}
        BY <1>1, <1>3, <2>2 DEF Clean, Walking, Half, TableInv, TypeOK
    <2>4. Hash[n] % (2 * Half) \in {Hash[n] % Half, (Hash[n] % Half) + Half}
        BY <1>3, <2>3, SplitBucket, DictHashAssumption
    <2>5. b \in {w, w + Half}
        BY <2>2, <2>3, <2>4 DEF Bucket
    <2> QED BY <1>1, <2>1, <2>2, <2>5
<1>7. /\ Distinct(l) /\ l.fast = NULL /\ Size(l) \in {1, 2} /\ walk.num \in {0, 1}
      /\ n = NodeAt(l, At(l, walk.num))
      /\ next = IF walk.num = 0 THEN NodeAt(l, 1) ELSE NULL
    BY <1>1, <1>3, <1>6, Stands
<1>8. /\ p.list \in Lists /\ p.list.fast = NULL /\ p.node = n
      /\ RemovedAt(l.nodes, p.list.nodes, At(l, walk.num))
    BY <1>1, <1>2, <1>7, PoppedSmall
<1>9. At(l, walk.num) \in 0..(Size(l) - 1) /\ n = l.nodes[At(l, walk.num) + 1]
    <2>1. At(l, walk.num) \in 0..(Size(l) - 1)
        BY <1>7 DEF At
    <2> QED BY <1>7, <2>1 DEF NodeAt
<1>10. Sound(table)
    BY CleanSound DEF Clean
<1> DEFINE tab == Put(table, w, p.list)
<1>11. /\ Sound(tab) /\ DOMAIN tab = DOMAIN table
       /\ \A c \in DOMAIN table : c # w => tab[c] = table[c]
       /\ tab[w] = p.list /\ Linked(p.list) = Linked(l) \ {n}
       /\ \A c \in DOMAIN tab : n \notin Linked(tab[c])
       /\ \A q : (\E c \in DOMAIN tab : q \in Linked(tab[c]))
                    <=> q # n /\ \E c \in DOMAIN table : q \in Linked(table[c])
    <2>1. FastExact(p.list)
        BY <1>8 DEF FastExact
    <2> QED BY <1>1, <1>8, <1>9, <1>10, <2>1, ShrunkTable
<1> HIDE DEF tab
<1>12. Grown(tab, table', b, n)
    <2>1. ListOf(tab, b) = BucketList(b)
        BY <1>1, <1>11 DEF ListOf, BucketList
    <2>2. table' = Put(tab, b, Append1(ListOf(tab, b), n))
        BY <1>2, <1>8, <2>1 DEF tab
    <2> HIDE DEF b, n
    <2> QED BY <1>3, <1>11, <2>2, GrownTable
<1>13. /\ Sound(table') /\ DOMAIN table' = DOMAIN table \cup {b}
       /\ table'[w] = p.list
       /\ \A c \in DOMAIN table : c # b /\ c # w => table'[c] = table[c]
       /\ table'[b].fast = NULL
       /\ Linked(table'[b]) = Linked(ListOf(table, b)) \cup {n}
       /\ \A q : (\E c \in DOMAIN table' : q \in Linked(table'[c]))
                    <=> q = n \/ \E c \in DOMAIN table : q \in Linked(table[c])
    <2>1. ListOf(tab, b) = ListOf(table, b)
        BY <1>1, <1>11 DEF ListOf
    <2>2. ListOf(table, b).fast = NULL
        BY <1>1, NewListFacts DEF ListOf, Clean, Walking
    <2> HIDE DEF b, n, l
    <2> QED BY <1>1, <1>11, <1>12, <2>1, <2>2 DEF Grown
<1>14. Exact' /\ Apart'
    BY <1>13, CleanSound DEF Sound, Exact, Apart
<1>15. Kept' /\ Counted'
    <2>1. \A q : (\E c \in DOMAIN table' : q \in Linked(table'[c]))
                    <=> \E c \in DOMAIN table : q \in Linked(table[c])
        BY <1>1, <1>13
    <2>2. Kept'
        BY <1>1, <2>1 DEF Clean, Kept
    <2> QED BY <1>1, <2>2 DEF Clean, Counted, Keys
<1>16. ASSUME NEW c \in DOMAIN table', NEW k \in Linked(table'[c])
       PROVE  Hash[k] % max = c \/ Waiting(k, c)'
    <2>1. CASE c = b /\ k = n
        BY <2>1 DEF Bucket
    <2>2. CASE ~(c = b /\ k = n)
        <3>1. c \in DOMAIN table /\ k \in Linked(table[c])
            <4>1. CASE c = b
                BY <1>13, <2>2, <4>1, NewListFacts DEF ListOf
            <4>2. CASE c = w
                BY <1>1, <1>11, <1>13, <4>2
            <4>3. CASE c # b /\ c # w
                BY <1>13, <4>3
            <4> QED BY <4>1, <4>2, <4>3
        <3>2. k # n
            <4>1. CASE c = w
                BY <1>11, <1>13, <4>1
            <4>2. CASE c # w
                BY <1>1, <3>1, <4>2 DEF Clean, Apart
            <4> QED BY <4>1, <4>2
        <3>3. Hash[k] % max = c \/ Waiting(k, c)
            BY <3>1 DEF Clean, Homes, Bucket
        <3> QED BY <1>1, <1>3, <3>1, <3>2, <3>3, WaitsOn
    <2> QED BY <2>1, <2>2
<1>17. Homes'
    BY <1>1, <1>16 DEF Homes, Bucket
<1>18. /\ max' = 2 * Half'
       /\ \A c \in DOMAIN table' : table'[c].fast = NULL
       /\ \A c \in DOMAIN table' : c < Half' => Size(table'[c]) <= 2
    <2>1. /\ max' = 2 * Half'
          /\ \A c \in DOMAIN table : table[c].fast = NULL /\ (c < Half => Size(table[c]) <= 2)
        BY <1>1, <1>5 DEF Clean, Walking
    <2>2. \A c \in DOMAIN table' : table'[c].fast = NULL
        BY <1>8, <1>13, <2>1
    <2>3. ~(b < Half)
        BY <1>3, <1>6 DEF Half, TableInv, TypeOK
    <2>4. Size(p.list) <= 2
        <3>1. Len(p.list.nodes) = Len(l.nodes) - 1
            BY <1>8 DEF RemovedAt
        <3>2. Len(l.nodes) = 1 \/ Len(l.nodes) = 2
            BY <1>7 DEF Size
        <3> HIDE DEF l
        <3>3. CASE Len(l.nodes) = 1
            BY <3>1, <3>3 DEF Size
        <3>4. CASE Len(l.nodes) = 2
            BY <3>1, <3>4 DEF Size
        <3> QED BY <3>2, <3>3, <3>4
    <2>5. \A c \in DOMAIN table' : c < Half' => Size(table'[c]) <= 2
        BY <1>5, <1>13, <2>1, <2>3, <2>4
    <2> QED BY <2>1, <2>2, <2>5
<1>19. next # NULL => /\ next \in Linked(p.list) /\ walk'.num = 1
                      /\ next = NodeAt(p.list, Size(p.list) - 1)
    <2>1. SUFFICES ASSUME next # NULL
                   PROVE  /\ next \in Linked(p.list) /\ walk'.num = 1
                          /\ next = NodeAt(p.list, Size(p.list) - 1)
        OBVIOUS
    <2>2. walk.num = 0 /\ next = NodeAt(l, 1)
        BY <1>7, <2>1
    <2>3. Size(l) = 2 /\ next = l.nodes[2]
        BY <1>7, <2>1, <2>2 DEF NodeAt
    <2>4. Len(p.list.nodes) = 1 /\ p.list.nodes[1] = l.nodes[2]
        BY <1>8, <2>2, <2>3 DEF RemovedAt, At, Size
    <2> HIDE DEF next, l
    <2>5. NodeAt(p.list, Size(p.list) - 1) = next
        BY <2>3, <2>4 DEF NodeAt, Size
    <2>6. next \in Linked(p.list)
        BY <2>3, <2>4 DEF Linked
    <2> QED BY <1>4, <2>2, <2>5, <2>6
<1>20. Walking'
    <2>1. walk'.node # NULL => walk'.bucket = w /\ walk'.node = next /\ next # NULL
        BY <1>4
    <2>2. walk'.node # NULL => /\ walk'.bucket \in DOMAIN table'
                               /\ walk'.node \in Linked(table'[walk'.bucket])
        BY <1>1, <1>13, <1>19, <2>1
    <2>3. walk'.node # NULL => Standing(table[walk.bucket])'
        BY <1>13, <1>19, <2>1 DEF Standing
    <2> QED BY <1>18, <2>2, <2>3 DEF Walking
<1> QED BY <1>14, <1>15, <1>17, <1>20 DEF Clean

(* The walk never stands on a node that was freed, and at the end of the   *)
(* table no key waits.                                                     *)
LEMMA CleanRehash ==
    ASSUME TableInv, Clean, dict_hash_rehash
    PROVE  Clean'
<1>1. CASE rehash_bucket
    BY <1>1, CleanBucket
<1>2. CASE rehash_keep
    BY <1>2, CleanKeep
<1>3. CASE rehash_move
    BY <1>3, CleanMove
<1>4. CASE rehash_lost
    BY <1>4 DEF rehash_lost, Clean, Walking, BucketList
<1>5. CASE rehash_end
    <2>1. /\ walk.bucket = max /\ walk' = Off
          /\ UNCHANGED <<max, size, table, data, map, crowded>>
        BY <1>5 DEF rehash_end
    <2>2. ~walk'.on
        BY <2>1 DEF Off
    <2>3. ASSUME NEW c \in DOMAIN table, NEW k PROVE ~Waiting(k, c)
        <3>1. c \in 0..(max - 1) /\ max \in Nat
            BY DEF TableInv, TypeOK
        <3> QED BY <2>1, <3>1 DEF Waiting
    <2>4. Homes'
        BY <2>1, <2>3 DEF Clean, Homes, Bucket
    <2>5. Exact' /\ Apart' /\ Kept' /\ Counted'
        BY <2>1 DEF Clean, Exact, Apart, Kept, Counted, Keys
    <2> QED BY <2>2, <2>4, <2>5 DEF Clean, Walking
<1> QED BY <1>1, <1>2, <1>3, <1>4, <1>5 DEF dict_hash_rehash

(* HashInv is inductive: crowded never becomes false again.                *)
LEMMA HashStep == HashInv /\ [Step]_vars => HashInv'
<1> SUFFICES ASSUME HashInv, [Step]_vars PROVE HashInv'
    OBVIOUS
<1>1. TableInv /\ TableInv'
    BY TableStep DEF HashInv
<1>2. crowded => crowded'
    BY DEF Step, vars, dict_hash_set_new, dict_hash_set_again, dict_hash_rehash, rehash_bucket,
           rehash_keep, rehash_move, rehash_lost, rehash_end, dict_hash_del
<1>3. ASSUME ~crowded' PROVE Clean'
    <2>1. Clean
        BY <1>2, <1>3 DEF HashInv
    <2>2. CASE UNCHANGED vars
        <3>1. Homes' /\ Exact' /\ Apart'
            BY <2>1, <2>2 DEF vars, Clean, Homes, Exact, Apart, Bucket, Waiting, Half
        <3>2. Kept' /\ Counted' /\ Walking'
            BY <2>1, <2>2 DEF vars, Clean, Kept, Counted, Keys, Walking, Standing, Half
        <3> QED BY <3>1, <3>2 DEF Clean
    <2>3. CASE \E k \in Key, v \in Value : dict_hash_set_new(k, v) \/ dict_hash_set_again(k, v)
        BY <1>1, <1>3, <2>1, <2>3, CleanSetNew, CleanSetAgain
    <2>4. CASE dict_hash_rehash
        BY <1>1, <2>1, <2>4, CleanRehash
    <2>5. CASE \E k \in Key : dict_hash_del(k)
        BY <1>1, <2>1, <2>5, CleanDel
    <2> QED BY <2>2, <2>3, <2>4, <2>5 DEF Step
<1> QED BY <1>1, <1>3 DEF HashInv

-----------------------------------------------------------------------------

(* HashInv is invariant.                                                   *)
THEOREM HashInvariance == Spec => []HashInv
<1>1. Init => HashInv
    BY TableInit, CleanInit DEF HashInv
<1> QED BY <1>1, HashStep, PTL DEF Spec

(* Type correctness: the walk never leaves the array, and every bucket is  *)
(* a list of nodes, also after a rehash of crowded buckets.                *)
THEOREM HashTypes == Spec => []TypeOK
<1>1. HashInv => TypeOK
    BY DEF HashInv, TableInv
<1> QED BY <1>1, HashInvariance, PTL

(* A key is found exactly if it was set and not deleted since, with the    *)
(* value set last, and dh->size counts the keys, if no rehash met a        *)
(* crowded bucket: dict_hash_set, dict_hash_del and dict_hash_rehash.      *)
THEOREM HashLookupFinds == Spec => []LookupFinds
<1>1. HashInv => LookupFinds
    <2> SUFFICES ASSUME HashInv, ~crowded PROVE KeysFound /\ size = Cardinality(Keys)
        BY DEF LookupFinds, Keys
    <2>1. TableInv /\ Clean
        BY DEF HashInv
    <2>2. ASSUME ~walk.on, NEW k \in Key
          PROVE  /\ Contains(k) <=> map[k] # NULL
                 /\ Contains(k) => data[k] = map[k]
        BY <2>1, <2>2, Idle DEF Clean, Kept
    <2> QED BY <2>1, <2>2 DEF KeysFound, Clean, Counted
<1> QED BY <1>1, HashInvariance, PTL

(* The index at which a key is found leads back to its own list node, so   *)
(* that dict_hash_del unlinks that one.                                    *)
THEOREM HashIndexFindsKey == Spec => []IndexFindsKey
<1>1. HashInv => IndexFindsKey
    <2> SUFFICES ASSUME HashInv, ~crowded, NEW k \in Key, Contains(k)
                 PROVE  Found(table[Bucket(k)], IndexOf(table[Bucket(k)], k)) = {k}
        BY DEF IndexFindsKey
    <2> DEFINE l == table[Bucket(k)]
    <2>1. k \in Linked(l) /\ l \in Lists /\ FastExact(l) /\ Distinct(l)
        BY DEF HashInv, TableInv, Clean, Exact, Contains
    <2> HIDE DEF l
    <2>2. IndexOf(l, k) \in 0..(Size(l) - 1) /\ NodeAt(l, IndexOf(l, k)) = k
        BY <2>1, LinkedAt
    <2>3. Found(l, IndexOf(l, k)) = {k}
        BY <2>1, <2>2, FoundRight
    <2> QED BY <2>3 DEF l
<1> QED BY <1>1, HashInvariance, PTL

(* Also in the middle of a rehash no bucket links a key twice or a dhn     *)
(* that was freed, no two link the same key, and the walk stands on a node *)
(* that is linked.                                                         *)
THEOREM HashLinkedOnce == Spec => []LinkedOnce
<1>1. HashInv => LinkedOnce
    <2> SUFFICES ASSUME HashInv, ~crowded PROVE LinkedOnce
        BY DEF LinkedOnce
    <2>1. TableInv /\ Clean
        BY DEF HashInv
    <2>2. ASSUME NEW b \in DOMAIN table
          PROVE  Distinct(table[b]) /\ \A k \in Linked(table[b]) : data[k] # NULL
        <3>1. table[b] \in Lists /\ Distinct(table[b])
            BY <2>1 DEF TableInv, Clean, Exact
        <3>2. ASSUME NEW k \in Linked(table[b]) PROVE data[k] # NULL
            <4>1. k \in Key
                BY <3>1, LinkedAt
            <4> QED BY <2>1, <4>1 DEF Clean, Kept
        <3> QED BY <3>1, <3>2
    <2>3. walk.on /\ walk.node # NULL => walk.node \in Linked(BucketList(walk.bucket))
        BY <2>1 DEF Clean, Walking, BucketList
    <2> QED BY <2>1, <2>2, <2>3 DEF LinkedOnce, Clean, Apart
<1> QED BY <1>1, HashInvariance, PTL
=============================================================================
