---------------------------- MODULE DictListProofs ----------------------------
(***************************************************************************)
(* Proofs about DictList, for any nodes, readers and indexes, where nobody *)
(* pops the head of a list: the fast node is exact, concurrent readers     *)
(* find the right nodes, and the list is an indexed sequence.              *)
(***************************************************************************)
EXTENDS DictList, TLAPS, SequenceTheorems

-----------------------------------------------------------------------------
(* The operators of DictListOps on a list whose fast node is exact.        *)

Lists == [nodes: Seq(Node), fast: Node \cup {NULL}, num: Int]

ListOK(l) == l \in Lists /\ Distinct(l) /\ FastExact(l)

(* An index in range names a node, and no other index names it.            *)
LEMMA NodeAtRange ==
    ASSUME NEW l \in Lists, Distinct(l), NEW i \in 0..(Size(l) - 1)
    PROVE  /\ NodeAt(l, i) \in Node \cap Linked(l)
           /\ NodeAt(l, i) = l.nodes[i + 1]
           /\ IndexOf(l, NodeAt(l, i)) = i
<1>1. /\ l.nodes \in Seq(Node) /\ Len(l.nodes) \in Nat
      /\ i + 1 \in 1..Len(l.nodes)
  BY DEF Lists, Size
<1>2. NodeAt(l, i) = l.nodes[i + 1] /\ l.nodes[i + 1] \in Node
  BY <1>1 DEF NodeAt
<1>3. NodeAt(l, i) \in Linked(l)
  BY <1>1, <1>2 DEF Linked
<1>4. \A j \in 0..(Size(l) - 1) : l.nodes[j + 1] = NodeAt(l, i) => j = i
  BY <1>1, <1>2 DEF Distinct, Size
<1> QED
  BY <1>1, <1>2, <1>3, <1>4 DEF IndexOf

(* What is linked has an index.                                            *)
LEMMA FastIndex ==
    ASSUME NEW l, ListOK(l), l.fast # NULL
    PROVE  /\ l.num \in 0..(Size(l) - 1)
           /\ l.fast \in Linked(l)
           /\ IndexOf(l, l.fast) = l.num
<1>1. l.fast = NodeAt(l, l.num) /\ l.num \in Int
  BY DEF ListOK, FastExact, Lists
<1>2. l.num \in 0..(Size(l) - 1)
  BY <1>1 DEF NodeAt
<1> QED
  BY <1>1, <1>2, NodeAtRange DEF ListOK

(* dict_list_get_node finds the node of its index, wherever it starts.     *)
LEMMA FoundExact ==
    ASSUME NEW l, ListOK(l), NEW i \in 0..(Size(l) - 1)
    PROVE  Found(l, i) = {NodeAt(l, i)}
<1>1. CASE l.fast = NULL
  BY <1>1 DEF Found
<1>2. CASE l.fast # NULL
  <2>1. /\ l.num \in Int /\ l.fast \in Linked(l)
        /\ IndexOf(l, l.fast) + i - l.num = i
        /\ l.fast = NodeAt(l, l.num)
    BY <1>2, FastIndex DEF ListOK, FastExact, Lists
  <2>2. CASE i = l.num
    BY <1>2, <2>1, <2>2 DEF Found
  <2>3. CASE i # l.num /\ ~Near(l, i)
    BY <1>2, <2>3 DEF Found
  <2>4. CASE i # l.num /\ Near(l, i)
    BY <1>2, <2>1, <2>4 DEF Found
  <2> QED
    BY <2>2, <2>3, <2>4
<1> QED
  BY <1>1, <1>2

LEMMA IndexRange ==
    ASSUME NEW l \in Lists, NEW num \in Int, InRange(l, num)
    PROVE  Index(l, num) \in 0..(Size(l) - 1)
  BY DEF InRange, Index, Size, Lists

-----------------------------------------------------------------------------
(* The sequences that an insertion and a removal leave.                    *)

LEMMA InsertProperties ==
    ASSUME NEW s \in Seq(Node), NEW k \in 0..Len(s), NEW n \in Node
    PROVE  /\ InsertBefore(s, k, n) \in Seq(Node)
           /\ Len(InsertBefore(s, k, n)) = Len(s) + 1
           /\ \A i \in 1..k : InsertBefore(s, k, n)[i] = s[i]
           /\ InsertBefore(s, k, n)[k + 1] = n
           /\ \A i \in (k + 2)..(Len(s) + 1) : InsertBefore(s, k, n)[i] = s[i - 1]
<1> DEFINE a == SubSeq(s, 1, k)  b == SubSeq(s, k + 1, Len(s))  an == a \o <<n>>
<1>1. Len(s) \in Nat /\ \A i \in 1..Len(s) : s[i] \in Node
  BY ElementOfSeq, LenProperties
<1>2. /\ a \in Seq(Node) /\ Len(a) = k
      /\ \A i \in 1..k : a[i] = s[i]
  <2>1. \A i \in 1..k : s[i] \in Node
    BY <1>1
  <2> QED
    BY <1>1, <2>1, SubSeqProperties
<1>3. /\ b \in Seq(Node) /\ Len(b) = Len(s) - k
      /\ \A i \in 1..(Len(s) - k) : b[i] = s[k + i]
  <2>1. \A i \in (k + 1)..Len(s) : s[i] \in Node
    BY <1>1
  <2> QED
    BY <1>1, <2>1, SubSeqProperties
<1>4. <<n>> \in Seq(Node) /\ Len(<<n>>) = 1 /\ <<n>>[1] = n
  OBVIOUS
<1>5. /\ an \in Seq(Node) /\ Len(an) = k + 1
      /\ \A i \in 1..(k + 1) : an[i] = IF i <= k THEN s[i] ELSE n
  <2> HIDE DEF a
  <2> QED
    BY <1>2, <1>4, ConcatProperties
<1>6. /\ an \o b \in Seq(Node) /\ Len(an \o b) = Len(s) + 1
      /\ \A i \in 1..k : (an \o b)[i] = s[i]
      /\ (an \o b)[k + 1] = n
      /\ \A i \in (k + 2)..(Len(s) + 1) : (an \o b)[i] = s[i - 1]
  <2> HIDE DEF an, b
  <2>1. /\ an \o b \in Seq(Node) /\ Len(an \o b) = Len(an) + Len(b)
        /\ \A i \in 1..(Len(an) + Len(b)) :
                (an \o b)[i] = IF i <= Len(an) THEN an[i] ELSE b[i - Len(an)]
    BY <1>3, <1>5, ConcatProperties
  <2>2. Len(an \o b) = Len(s) + 1 /\ Len(an) = k + 1 /\ Len(b) = Len(s) - k
    BY <1>1, <1>3, <1>5, <2>1
  <2>3. /\ \A i \in 1..k : (an \o b)[i] = s[i]
        /\ (an \o b)[k + 1] = n
    BY <1>1, <1>5, <2>1, <2>2
  <2>4. ASSUME NEW i \in (k + 2)..(Len(s) + 1)
        PROVE  (an \o b)[i] = s[i - 1]
    <3>1. /\ i \in 1..(Len(an) + Len(b)) /\ ~(i <= Len(an))
          /\ i - Len(an) \in 1..(Len(s) - k) /\ k + (i - Len(an)) = i - 1
      BY <1>1, <2>2
    <3>2. (an \o b)[i] = b[i - Len(an)] /\ b[i - Len(an)] = s[k + (i - Len(an))]
      BY <1>3, <2>1, <3>1
    <3> QED
      BY <3>1, <3>2, Zenon
  <2> QED
    BY <2>1, <2>2, <2>3, <2>4
<1>7. InsertBefore(s, k, n) = an \o b
  BY DEF InsertBefore
<1> HIDE DEF an, b
<1> QED
  BY <1>6, <1>7

LEMMA WithoutProperties ==
    ASSUME NEW s \in Seq(Node), NEW k \in 0..(Len(s) - 1)
    PROVE  /\ Without(s, k) \in Seq(Node)
           /\ Len(Without(s, k)) = Len(s) - 1
           /\ \A i \in 1..k : Without(s, k)[i] = s[i]
           /\ \A i \in (k + 1)..(Len(s) - 1) : Without(s, k)[i] = s[i + 1]
<1> DEFINE a == SubSeq(s, 1, k)  b == SubSeq(s, k + 2, Len(s))
<1>1. Len(s) \in Nat /\ \A i \in 1..Len(s) : s[i] \in Node
  BY ElementOfSeq, LenProperties
<1>2. /\ a \in Seq(Node) /\ Len(a) = k
      /\ \A i \in 1..k : a[i] = s[i]
  <2>1. \A i \in 1..k : s[i] \in Node
    BY <1>1
  <2> QED
    BY <1>1, <2>1, SubSeqProperties
<1>3. /\ b \in Seq(Node) /\ Len(b) = Len(s) - k - 1
      /\ \A i \in 1..(Len(s) - k - 1) : b[i] = s[k + 1 + i]
  <2>1. \A i \in (k + 2)..Len(s) : s[i] \in Node
    BY <1>1
  <2> QED
    BY <1>1, <2>1, SubSeqProperties
<1>4. /\ a \o b \in Seq(Node) /\ Len(a \o b) = Len(a) + Len(b)
      /\ \A i \in 1..(Len(a) + Len(b)) :
            (a \o b)[i] = IF i <= Len(a) THEN a[i] ELSE b[i - Len(a)]
  <2> HIDE DEF a, b
  <2> QED
    BY <1>2, <1>3, ConcatProperties
<1> DEFINE t == a \o b
<1>5. Without(s, k) = t
  BY DEF Without
<1>6. /\ t \in Seq(Node) /\ Len(t) = Len(s) - 1
      /\ \A i \in 1..k : t[i] = s[i]
      /\ \A i \in (k + 1)..(Len(s) - 1) : t[i] = s[i + 1]
  <2> HIDE DEF a, b
  <2> QED
    BY <1>1, <1>2, <1>3, <1>4
<1> HIDE DEF t
<1> QED
  BY <1>5, <1>6

NoRepeat(s) == \A i, j \in 1..Len(s) : s[i] = s[j] => i = j

LEMMA InsertDistinct ==
    ASSUME NEW s \in Seq(Node), NoRepeat(s), NEW k \in 0..Len(s),
           NEW n \in Node, \A i \in 1..Len(s) : s[i] # n
    PROVE  NoRepeat(InsertBefore(s, k, n))
<1> DEFINE t == InsertBefore(s, k, n)
<1>1. /\ Len(s) \in Nat /\ Len(t) = Len(s) + 1
      /\ \A i \in 1..k : t[i] = s[i]
      /\ t[k + 1] = n
      /\ \A i \in (k + 2)..(Len(s) + 1) : t[i] = s[i - 1]
  BY InsertProperties, SMTT(40)
<1> HIDE DEF t
<1> DEFINE old(i) == IF i <= k THEN i ELSE i - 1
<1>2. \A i \in 1..Len(t) : i # k + 1 => old(i) \in 1..Len(s) /\ t[i] = s[old(i)]
  BY <1>1
<1>3. ASSUME NEW i \in 1..Len(t), NEW j \in 1..Len(t), t[i] = t[j]
      PROVE  i = j
  <2>1. CASE i = k + 1 /\ j # k + 1
    BY <1>1, <1>2, <1>3, <2>1
  <2>2. CASE i # k + 1 /\ j = k + 1
    BY <1>1, <1>2, <1>3, <2>2
  <2>3. CASE i # k + 1 /\ j # k + 1
    <3>1. old(i) = old(j)
      BY <1>2, <1>3, <2>3 DEF NoRepeat
    <3>2. i \in Int /\ j \in Int /\ k \in Int
      BY <1>1
    <3> QED
      BY <2>3, <3>1, <3>2
  <2> QED
    BY <1>3, <2>1, <2>2, <2>3
<1>4. NoRepeat(t)
  BY <1>3 DEF NoRepeat
<1> QED
  BY <1>4 DEF t

LEMMA WithoutDistinct ==
    ASSUME NEW s \in Seq(Node), NoRepeat(s), NEW k \in 0..(Len(s) - 1)
    PROVE  NoRepeat(Without(s, k))
<1> DEFINE t == Without(s, k)
<1>1. /\ Len(s) \in Nat /\ Len(t) = Len(s) - 1
      /\ \A i \in 1..k : t[i] = s[i]
      /\ \A i \in (k + 1)..(Len(s) - 1) : t[i] = s[i + 1]
  BY WithoutProperties
<1> HIDE DEF t
<1> DEFINE old(i) == IF i <= k THEN i ELSE i + 1
<1>2. \A i \in 1..Len(t) : old(i) \in 1..Len(s) /\ t[i] = s[old(i)]
  BY <1>1
<1>3. ASSUME NEW i \in 1..Len(t), NEW j \in 1..Len(t), t[i] = t[j]
      PROVE  i = j
  <2>1. old(i) = old(j)
    BY <1>2, <1>3 DEF NoRepeat
  <2>2. i \in Int /\ j \in Int /\ k \in Int
    BY <1>1
  <2> QED
    BY <2>1, <2>2
<1>4. NoRepeat(t)
  BY <1>3 DEF NoRepeat
<1> QED
  BY <1>4 DEF t

LEMMA AppendIsInsert ==
    ASSUME NEW s \in Seq(Node), NEW n \in Node
    PROVE  Append(s, n) = InsertBefore(s, Len(s), n)
<1>1. Len(s) \in Nat
  BY LenProperties
<1>2. SubSeq(s, 1, Len(s)) = s /\ SubSeq(s, Len(s) + 1, Len(s)) = <<>>
  BY <1>1, SubSeqFull, SubSeqEmpty
<1>3. s \o <<n>> \in Seq(Node)
  BY AppendProperties, AppendIsConcat
<1> QED
  BY <1>2, <1>3, AppendIsConcat, ConcatEmptySeq DEF InsertBefore

LEMMA PrependIsInsert ==
    ASSUME NEW s \in Seq(Node), NEW n \in Node
    PROVE  <<n>> \o s = InsertBefore(s, 0, n)
<1>1. SubSeq(s, 1, Len(s)) = s /\ SubSeq(s, 1, 0) = <<>>
  BY SubSeqFull, SubSeqEmpty
<1>2. <<>> \o <<n>> = <<n>>
  BY ConcatEmptySeq
<1>3. InsertBefore(s, 0, n) = SubSeq(s, 1, 0) \o <<n>> \o SubSeq(s, 1, Len(s))
  BY DEF InsertBefore
<1> QED
  BY <1>1, <1>2, <1>3

LEMMA FrontIsWithout ==
    ASSUME NEW s \in Seq(Node), s # <<>>
    PROVE  SubSeq(s, 1, Len(s) - 1) = Without(s, Len(s) - 1)
<1>1. Len(s) \in Nat /\ Len(s) > 0 /\ \A i \in 1..(Len(s) - 1) : s[i] \in Node
  BY LenProperties, EmptySeq, ElementOfSeq
<1>2. SubSeq(s, Len(s) + 1, Len(s)) = <<>>
  BY <1>1, SubSeqEmpty
<1>3. SubSeq(s, 1, Len(s) - 1) \in Seq(Node)
  BY <1>1, SubSeqProperties
<1>4. Without(s, Len(s) - 1) = SubSeq(s, 1, Len(s) - 1) \o SubSeq(s, Len(s) + 1, Len(s))
  BY <1>1 DEF Without
<1> QED
  BY <1>2, <1>3, <1>4, ConcatEmptySeq

-----------------------------------------------------------------------------
(* Push: where the node goes, and that the fast node stays exact.          *)

PushAt(l, num) ==
    IF num > Size(l) - 1 THEN Size(l) ELSE IF num < -Size(l) THEN 0 ELSE Index(l, num)

LEMMA InsertedOK ==
    ASSUME NEW l, ListOK(l), NEW k \in 0..Size(l), NEW n \in Node \ Linked(l),
           NEW r, r.nodes = InsertBefore(l.nodes, k, n),
           r = [nodes |-> r.nodes, fast |-> r.fast, num |-> r.num],
           r.fast \in Node \cup {NULL}, r.num \in Int,
           r.fast # NULL => \E i \in 0..(Size(l) - 1) :
                                /\ r.fast = NodeAt(l, i)
                                /\ r.num = IF i < k THEN i ELSE i + 1
    PROVE  ListOK(r)
<1> DEFINE s == l.nodes  t == InsertBefore(s, k, n)
<1>1. /\ s \in Seq(Node) /\ Len(s) \in Nat /\ Size(l) = Len(s) /\ k \in 0..Len(s)
      /\ NoRepeat(s) /\ \A i \in 1..Len(s) : s[i] # n
  BY DEF ListOK, Lists, Size, Distinct, NoRepeat, Linked
<1> HIDE DEF s
<1>2. /\ t \in Seq(Node) /\ Len(t) = Len(s) + 1
      /\ \A i \in 1..k : t[i] = s[i]
      /\ \A i \in (k + 2)..(Len(s) + 1) : t[i] = s[i - 1]
  BY <1>1, InsertProperties, ZenonT(60)
<1>3. NoRepeat(t)
  BY <1>1, InsertDistinct
<1> HIDE DEF t
<1>4. r.nodes = t
  BY DEF s, t
<1>5. r \in Lists /\ Distinct(r)
  BY <1>2, <1>3, <1>4 DEF Lists, Distinct, NoRepeat, Size
<1>6. FastExact(r)
  <2>1. SUFFICES ASSUME NEW i \in 0..(Size(l) - 1), r.fast = NodeAt(l, i),
                        r.num = IF i < k THEN i ELSE i + 1
                 PROVE  r.fast = NodeAt(r, r.num)
    BY DEF FastExact
  <2>2. r.fast = s[i + 1] /\ i \in 0..(Len(s) - 1)
    BY <1>1, <2>1 DEF NodeAt, s
  <2>3. NodeAt(r, r.num) = t[r.num + 1]
    BY <1>1, <1>2, <1>4, <2>1 DEF NodeAt, Size
  <2>4. CASE i < k
    BY <1>1, <1>2, <2>1, <2>2, <2>3, <2>4
  <2>5. CASE ~(i < k)
    <3>1. i + 2 \in (k + 2)..(Len(s) + 1) /\ r.num + 1 = i + 2 /\ (i + 2) - 1 = i + 1
      BY <1>1, <2>1, <2>2, <2>5
    <3>2. t[i + 2] = s[(i + 2) - 1]
      BY <1>2, <3>1
    <3> QED
      BY <2>2, <2>3, <3>1, <3>2
  <2> QED
    BY <2>4, <2>5
<1> QED
  BY <1>5, <1>6 DEF ListOK

LEMMA PushedOK ==
    ASSUME NEW l, ListOK(l), NEW n \in Node \ Linked(l), NEW num \in Int,
           NEW r \in Pushed(l, n, num)
    PROVE  ListOK(r) /\ r.nodes = InsertBefore(l.nodes, PushAt(l, num), n)
<1>1. /\ l \in Lists /\ l.nodes \in Seq(Node) /\ Len(l.nodes) \in Nat
      /\ Size(l) = Len(l.nodes)
      /\ l.fast \in Node \cup {NULL} /\ l.num \in Int
  BY DEF ListOK, Lists, Size
<1>2. l.fast # NULL => l.num \in 0..(Size(l) - 1) /\ l.fast = NodeAt(l, l.num)
  BY FastIndex DEF ListOK, FastExact
<1>3. CASE num > Size(l) - 1
  <2>1. r = Append1(l, n) /\ PushAt(l, num) = Size(l)
    BY <1>1, <1>3 DEF Pushed, PushAt
  <2>2. /\ r = [nodes |-> r.nodes, fast |-> r.fast, num |-> r.num]
        /\ r.nodes = Append(l.nodes, n) /\ r.fast = l.fast /\ r.num = l.num
    BY <1>1, <2>1 DEF Append1, Lists
  <2>3. r.nodes = InsertBefore(l.nodes, Size(l), n)
    BY <1>1, <2>2, AppendIsInsert
  <2>4. Size(l) \in 0..Size(l) /\ \A i \in 0..(Size(l) - 1) : i < Size(l)
    BY <1>1
  <2>5. r.fast # NULL => /\ l.num \in 0..(Size(l) - 1) /\ r.fast = NodeAt(l, l.num)
                         /\ r.num = IF l.num < Size(l) THEN l.num ELSE l.num + 1
    BY <1>1, <1>2, <2>2
  <2>6. ListOK(r)
    BY <1>1, <2>2, <2>3, <2>4, <2>5, InsertedOK
  <2> QED
    BY <2>1, <2>3, <2>6
<1>4. CASE ~(num > Size(l) - 1) /\ num < -Size(l)
  <2>1. r = PushHead(l, n) /\ PushAt(l, num) = 0
    BY <1>1, <1>4 DEF Pushed, PushAt
  <2>2. /\ r = [nodes |-> r.nodes, fast |-> r.fast, num |-> r.num]
        /\ r.nodes = <<n>> \o l.nodes /\ r.fast = l.fast
        /\ r.num = IF l.fast = NULL THEN l.num ELSE l.num + 1
    BY <1>1, <2>1 DEF PushHead, Lists
  <2>3. r.nodes = InsertBefore(l.nodes, 0, n)
    BY <1>1, <2>2, PrependIsInsert
  <2>4. 0 \in 0..Size(l) /\ \A i \in 0..(Size(l) - 1) : ~(i < 0)
    BY <1>1
  <2>5. r.fast # NULL => /\ l.num \in 0..(Size(l) - 1) /\ r.fast = NodeAt(l, l.num)
                         /\ r.num = IF l.num < 0 THEN l.num ELSE l.num + 1
    BY <1>1, <1>2, <2>2
  <2>6. r.num \in Int
    BY <1>1, <2>2
  <2>7. ListOK(r)
    BY <1>1, <2>2, <2>3, <2>4, <2>5, <2>6, InsertedOK
  <2> QED
    BY <2>1, <2>3, <2>7
<1>5. CASE ~(num > Size(l) - 1) /\ ~(num < -Size(l))
  <2> DEFINE i == Index(l, num)
  <2>1. i \in 0..(Size(l) - 1) /\ PushAt(l, num) = i
    BY <1>1, <1>5, IndexRange, SMTT(40) DEF InRange, PushAt
  <2>2. PICK at \in Found(l, i) \cap Linked(l) : r = PushBefore(l, at, i, n)
    BY <1>1, <1>5 DEF Pushed
  <2> HIDE DEF i
  <2>3. at = NodeAt(l, i) /\ at \in Node /\ IndexOf(l, at) = i
    BY <1>1, <2>1, <2>2, FoundExact, NodeAtRange DEF ListOK
  <2>4. /\ r = [nodes |-> r.nodes, fast |-> r.fast, num |-> r.num]
        /\ r.nodes = InsertBefore(l.nodes, i, n) /\ r.fast = at /\ r.num = i + 1
    BY <2>2, <2>3 DEF PushBefore
  <2>5. i \in 0..Size(l) /\ ~(i < i) /\ i + 1 \in Int
    BY <1>1, <2>1
  <2>6. r.fast # NULL => r.fast = NodeAt(l, i) /\ r.num = IF i < i THEN i ELSE i + 1
    BY <2>3, <2>4, <2>5
  <2>7. ListOK(r)
    BY <1>1, <2>1, <2>3, <2>4, <2>5, <2>6, InsertedOK
  <2> QED
    BY <2>1, <2>4, <2>7
<1> QED
  BY <1>3, <1>4, <1>5

-----------------------------------------------------------------------------
(* Pop and del: which node goes, and that the fast node stays exact.       *)

LEMMA RemovedOK ==
    ASSUME NEW l, ListOK(l), NEW k \in 0..(Size(l) - 1),
           NEW r, r.nodes = Without(l.nodes, k),
           r = [nodes |-> r.nodes, fast |-> r.fast, num |-> r.num],
           r.num \in Int,
           r.fast # NULL => r.fast = NodeAt(l, k + 1) /\ r.num = k
    PROVE  ListOK(r)
<1> DEFINE s == l.nodes  t == Without(s, k)
<1>1. /\ s \in Seq(Node) /\ Len(s) \in Nat /\ Size(l) = Len(s) /\ k \in 0..(Len(s) - 1)
      /\ NoRepeat(s)
  BY DEF ListOK, Lists, Size, Distinct, NoRepeat
<1> HIDE DEF s
<1>2. /\ t \in Seq(Node) /\ Len(t) = Len(s) - 1
      /\ \A i \in (k + 1)..(Len(s) - 1) : t[i] = s[i + 1]
  BY <1>1, WithoutProperties
<1>3. NoRepeat(t)
  BY <1>1, WithoutDistinct
<1> HIDE DEF t
<1>4. r.nodes = t
  BY DEF s, t
<1>5. r.fast # NULL => /\ k + 1 \in (k + 1)..(Len(s) - 1)
                       /\ r.fast = s[k + 2] /\ r.fast \in Node
  <2>1. SUFFICES ASSUME r.fast # NULL, r.fast = NodeAt(l, k + 1)
                 PROVE  /\ k + 1 \in (k + 1)..(Len(s) - 1)
                        /\ r.fast = s[k + 2] /\ r.fast \in Node
    OBVIOUS
  <2>2. k + 1 \in 0..(Len(s) - 1) /\ r.fast = s[(k + 1) + 1]
    BY <1>1, <2>1 DEF NodeAt, s
  <2>3. (k + 1) + 1 = k + 2 /\ k + 2 \in 1..Len(s) /\ k + 1 \in (k + 1)..(Len(s) - 1)
    BY <1>1, <2>2
  <2> QED
    BY <1>1, <2>2, <2>3, ElementOfSeq
<1>6. r \in Lists /\ Distinct(r)
  BY <1>2, <1>3, <1>4, <1>5 DEF Lists, Distinct, NoRepeat, Size
<1>7. FastExact(r)
  <2>1. SUFFICES ASSUME r.fast # NULL, r.num = k
                 PROVE  r.fast = NodeAt(r, k)
    BY DEF FastExact
  <2>2. t[k + 1] = s[(k + 1) + 1] /\ (k + 1) + 1 = k + 2
    BY <1>1, <1>2, <1>5, <2>1
  <2>3. NodeAt(r, k) = t[k + 1]
    BY <1>1, <1>2, <1>4, <1>5, <2>1 DEF NodeAt, Size
  <2> QED
    BY <1>5, <2>1, <2>2, <2>3
<1> QED
  BY <1>6, <1>7 DEF ListOK

LEMMA UnlinkOK ==
    ASSUME NEW l, ListOK(l), NEW i \in 0..(Size(l) - 1), NEW n \in Found(l, i)
    PROVE  /\ ListOK(Unlink(l, n, i))
           /\ Unlink(l, n, i).nodes = Without(l.nodes, i)
           /\ n = NodeAt(l, i) /\ n \in Node
<1> DEFINE r == Unlink(l, n, i)
<1>1. n = NodeAt(l, i) /\ IndexOf(l, n) = i /\ n \in Node
  BY FoundExact, NodeAtRange DEF ListOK
<1>2. /\ r = [nodes |-> r.nodes, fast |-> r.fast, num |-> r.num]
      /\ r.nodes = Without(l.nodes, i) /\ r.fast = NodeAt(l, i + 1) /\ r.num = i
  BY <1>1 DEF Unlink
<1> HIDE DEF r
<1>3. r.num \in Int
  BY <1>2 DEF ListOK, Lists, Size
<1>4. ListOK(r)
  BY <1>2, <1>3, RemovedOK
<1> QED
  BY <1>1, <1>2, <1>4 DEF r

PopAt(l, num) == IF num > Size(l) - 1 THEN Size(l) - 1 ELSE Index(l, num)

LEMMA PoppedOK ==
    ASSUME NEW l, ListOK(l), NEW num \in Int, num # 0, num >= -Size(l),
           NEW p \in Popped(l, num)
    PROVE  /\ ListOK(p.list)
           /\ l.nodes = <<>> => p.list = l /\ p.node = NULL
           /\ l.nodes # <<>> => /\ PopAt(l, num) \in 0..(Size(l) - 1)
                               /\ p.list.nodes = Without(l.nodes, PopAt(l, num))
                               /\ p.node = NodeAt(l, PopAt(l, num))
                               /\ p.node \in Node
<1>1. /\ l \in Lists /\ l.nodes \in Seq(Node) /\ Len(l.nodes) \in Nat
      /\ Size(l) = Len(l.nodes) /\ l.num \in Int
  BY DEF ListOK, Lists, Size
<1>2. CASE l.nodes = <<>>
  BY <1>2 DEF Popped
<1>3. CASE l.nodes # <<>> /\ num > Size(l) - 1
  <2>1. Size(l) > 0
    BY <1>1, <1>3, EmptySeq
  <2>2. p = [list |-> PopTail(l), node |-> l.nodes[Size(l)]]
    BY <1>1, <1>3 DEF Popped
  <2> DEFINE r == p.list
  <2>3. /\ r = [nodes |-> r.nodes, fast |-> r.fast, num |-> r.num]
        /\ r.nodes = SubSeq(l.nodes, 1, Len(l.nodes) - 1) /\ r.fast = NULL /\ r.num \in Int
    BY <1>1, <2>2 DEF PopTail, Lists
  <2>4. r.nodes = Without(l.nodes, Size(l) - 1) /\ Size(l) - 1 \in 0..(Size(l) - 1)
    BY <1>1, <1>3, <2>1, <2>3, FrontIsWithout
  <2> HIDE DEF r
  <2>5. ListOK(r)
    BY <2>3, <2>4, RemovedOK
  <2>6. p.node = NodeAt(l, Size(l) - 1) /\ PopAt(l, num) = Size(l) - 1
    <3>1. (Size(l) - 1) + 1 = Size(l)
      BY <1>1
    <3> QED
      BY <1>1, <1>3, <2>2, <2>4, <3>1 DEF NodeAt, PopAt
  <2>7. p.node \in Node
    BY <2>4, <2>6, NodeAtRange DEF ListOK
  <2> QED
    BY <1>3, <2>4, <2>5, <2>6, <2>7 DEF r
<1>4. CASE l.nodes # <<>> /\ ~(num > Size(l) - 1)
  <2> DEFINE i == Index(l, num)
  <2>1. i \in 0..(Size(l) - 1) /\ PopAt(l, num) = i
    BY <1>1, <1>4, IndexRange DEF InRange, PopAt
  <2>2. PICK n \in Found(l, i) : p = [list |-> Unlink(l, n, i), node |-> n]
    BY <1>1, <1>4 DEF Popped
  <2> HIDE DEF i
  <2> QED
    BY <1>4, <2>1, <2>2, UnlinkOK
<1> QED
  BY <1>2, <1>3, <1>4

LEMMA DeletedOK ==
    ASSUME NEW l, ListOK(l), NEW num \in Int, NEW p \in Deleted(l, num)
    PROVE  /\ ListOK(p.list)
           /\ ~InRange(l, num) => p.list = l /\ p.node = NULL
           /\ InRange(l, num) => /\ p.list.nodes = Without(l.nodes, Index(l, num))
                                /\ p.node = NodeAt(l, Index(l, num))
                                /\ p.node \in Node
<1>1. CASE ~InRange(l, num)
  BY <1>1 DEF Deleted
<1>2. CASE InRange(l, num)
  <2> DEFINE i == Index(l, num)
  <2>1. i \in 0..(Size(l) - 1)
    BY <1>2, IndexRange DEF ListOK
  <2>2. PICK n \in Found(l, i) : p = [list |-> Unlink(l, n, i), node |-> n]
    BY <1>2 DEF Deleted
  <2> HIDE DEF i
  <2>3. /\ ListOK(p.list) /\ p.list.nodes = Without(l.nodes, i)
        /\ p.node = NodeAt(l, i) /\ p.node \in Node
    BY <2>1, <2>2, UnlinkOK
  <2> QED
    BY <1>2, <2>3 DEF i
<1> QED
  BY <1>1, <1>2

(* A lookup leaves the nodes alone and makes its own node the fast one.    *)
LEMMA RememberOK ==
    ASSUME NEW l, ListOK(l), NEW i \in 0..(Size(l) - 1)
    PROVE  /\ ListOK(Remember(l, NodeAt(l, i), i))
           /\ Remember(l, NodeAt(l, i), i).nodes = l.nodes
<1> DEFINE r == Remember(l, NodeAt(l, i), i)
<1>1. /\ NodeAt(l, i) \in Node /\ i \in Int
  BY NodeAtRange DEF ListOK, Lists, Size
<1>2. r \in Lists /\ r.nodes = l.nodes /\ r.fast = NodeAt(l, i) /\ r.num = i
  BY <1>1 DEF Remember, ListOK, Lists
<1> HIDE DEF r
<1>3. Distinct(r) /\ NodeAt(r, i) = NodeAt(l, i)
  BY <1>2 DEF ListOK, Distinct, Size, NodeAt
<1>4. ListOK(r) /\ r.nodes = l.nodes
  BY <1>2, <1>3 DEF ListOK, FastExact
<1> QED
  BY <1>4 DEF r

-----------------------------------------------------------------------------
(* Every step keeps ListInv.                                               *)

LEMMA ListInvOK == ListInv => ListOK(list)
  BY DEF ListInv, TypeOK, ListOK, Lists, FastNodeExact

LEMMA ListInvInit == Init => ListInv
  BY DEF Init, ListInv, TypeOK, FastNodeExact, ReadsRight, NewList, NoEach, FastExact,
         Distinct, Size

LEMMA get_Inv ==
    ASSUME ListInv, NEW t \in Readers, dict_list_get(t)
    PROVE  ListInv'
<1>1. ListOK(list) /\ TypeOK
  BY ListInvOK DEF ListInv
<1>2. ASSUME NEW num \in Num, dict_list_get_out(t, num)
      PROVE  ListInv'
  BY <1>2, DictListAssumption
     DEF dict_list_get_out, ListInv, TypeOK, Returns, FastNodeExact, ReadsRight
<1>3. ASSUME NEW num \in Num, dict_list_get_find(t, num)
      PROVE  ListInv'
  <2>1. /\ num \in Int /\ InRange(list, num)
        /\ UNCHANGED <<list, each, ret>>
    BY <1>3, DictListAssumption DEF dict_list_get_find
  <2>2. Index(list, num) \in 0..(Size(list) - 1)
    BY <1>1, <2>1, IndexRange DEF ListOK
  <2>3. /\ NodeAt(list, Index(list, num)) \in Node
        /\ got' = [got EXCEPT ![t] = NodeAt(list, Index(list, num))]
        /\ arg' = [arg EXCEPT ![t] = num]
        /\ pc' = [pc EXCEPT ![t] = "store"]
    <3>1. NodeAt(list, Index(list, num)) \in Node
      BY <1>1, <2>2, NodeAtRange DEF ListOK
    <3>2. Found(list, Index(list, num)) = {NodeAt(list, Index(list, num))}
      BY <1>1, <2>2, FoundExact
    <3> QED
      BY <1>3, <3>1, <3>2 DEF dict_list_get_find
  <2>4. TypeOK'
    BY <1>1, <2>1, <2>3 DEF TypeOK
  <2>5. Distinct(list)' /\ FastNodeExact'
    BY <2>1 DEF ListInv, Distinct, Size, FastNodeExact, FastExact, NodeAt
  <2>6. ASSUME NEW u \in Readers, pc'[u] = "store"
        PROVE  InRange(list, arg'[u]) /\ got'[u] = NodeAt(list, Index(list, arg'[u]))
    <3>1. CASE u = t
      BY <1>1, <2>1, <2>3, <3>1 DEF TypeOK
    <3>2. CASE u # t
      BY <1>1, <2>3, <2>6, <3>2 DEF TypeOK, ListInv, ReadsRight
    <3> QED
      BY <3>1, <3>2
  <2> QED
    BY <2>1, <2>4, <2>5, <2>6 DEF ListInv, ReadsRight, InRange, Index, NodeAt, Size
<1>4. ASSUME dict_list_get_store(t)
      PROVE  ListInv'
  <2> DEFINE num == arg[t]  i == Index(list, num)
  <2>1. /\ pc[t] = "store" /\ num \in Int /\ InRange(list, num) /\ got[t] = NodeAt(list, i)
    BY <1>1, <1>4 DEF dict_list_get_store, ListInv, ReadsRight, TypeOK
  <2>2. i \in 0..(Size(list) - 1)
    BY <1>1, <2>1, IndexRange DEF ListOK
  <2>3. /\ list' = Remember(list, NodeAt(list, i), i)
        /\ ret' = [op |-> "get", num |-> num, node |-> NodeAt(list, i)]
        /\ pc' = [pc EXCEPT ![t] = "idle"] /\ UNCHANGED <<arg, got, each>>
    BY <1>4, <2>1 DEF dict_list_get_store, Returns
  <2>4. ListOK(list') /\ list'.nodes = list.nodes /\ NodeAt(list, i) \in Node
    BY <1>1, <2>2, <2>3, RememberOK, NodeAtRange DEF ListOK
  <2>5. TypeOK'
    BY <1>1, <2>1, <2>3, <2>4 DEF TypeOK, ListOK, Lists
  <2>6. ASSUME NEW u \in Readers, pc'[u] = "store"
        PROVE  InRange(list', arg[u]) /\ got[u] = NodeAt(list', Index(list', arg[u]))
    <3>1. /\ arg[u] \in Int /\ InRange(list, arg[u])
          /\ got[u] = NodeAt(list, Index(list, arg[u]))
      BY <1>1, <2>3, <2>6 DEF TypeOK, ListInv, ReadsRight
    <3> QED
      BY <2>4, <3>1 DEF InRange, Index, NodeAt, Size
  <2> QED
    BY <2>3, <2>4, <2>5, <2>6 DEF ListInv, ListOK, ReadsRight, FastNodeExact, Distinct,
       Size, FastExact, NodeAt, InRange, Index
<1> QED
  BY <1>2, <1>3, <1>4 DEF dict_list_get

RetTypes == [op: {"new", "push", "pop", "del", "get", "set"}, num: Int, node: Node \cup {NULL}]

EachTypes == [on: BOOLEAN, node: Node \cup {NULL}, num: Nat]

(* A writer runs when no reader is between finding and storing, or it      *)
(* leaves the nodes alone.                                                 *)
LEMMA write_Inv ==
    ASSUME ListInv, UNCHANGED readers, ListOK(list'), each' \in EachTypes, ret' \in RetTypes,
           ~Reading \/ list'.nodes = list.nodes
    PROVE  ListInv'
<1>1. TypeOK' /\ Distinct(list)' /\ FastNodeExact'
  BY DEF ListInv, TypeOK, readers, EachTypes, RetTypes, ListOK, Lists, Distinct, Size,
         FastNodeExact, FastExact, NodeAt
<1>2. ASSUME NEW t \in Readers, pc'[t] = "store"
      PROVE  InRange(list', arg'[t]) /\ got'[t] = NodeAt(list', Index(list', arg'[t]))
  <2>1. pc[t] = "store" /\ arg'[t] = arg[t] /\ got'[t] = got[t] /\ list'.nodes = list.nodes
    BY <1>2 DEF readers, Reading
  <2>2. InRange(list, arg[t]) /\ got[t] = NodeAt(list, Index(list, arg[t]))
    BY <2>1 DEF ListInv, ReadsRight
  <2> QED
    BY <2>1, <2>2 DEF InRange, Index, NodeAt, Size
<1> QED
  BY <1>1, <1>2 DEF ListInv, ReadsRight, InRange, Index, NodeAt, Size

LEMMA push_Inv ==
    ASSUME ListInv, NEW num \in Num, dict_list_push(num)
    PROVE  ListInv'
<1>1. /\ ListOK(list) /\ num \in Int /\ ~Reading /\ UNCHANGED readers
      /\ each' \in EachTypes
  BY ListInvOK, DictListAssumption
     DEF dict_list_push, wlocked, ListInv, TypeOK, EachTypes
<1>2. PICK n \in Node \ Linked(list) : list' \in Pushed(list, n, num) /\ Returns("push", num, n)
  BY DEF dict_list_push
<1>3. ret' \in RetTypes
  BY <1>1, <1>2 DEF Returns, RetTypes
<1>4. ListOK(list')
  BY <1>1, <1>2, PushedOK
<1> QED
  BY <1>1, <1>3, <1>4, write_Inv

LEMMA pop_Inv ==
    ASSUME ListInv, HeadPops = FALSE, NEW num \in Num, dict_list_pop(num)
    PROVE  ListInv'
<1>1. /\ ListOK(list) /\ num \in Int /\ num # 0 /\ num >= -Size(list)
      /\ ~Reading /\ UNCHANGED readers /\ each' \in EachTypes
  BY ListInvOK, DictListAssumption
     DEF dict_list_pop, wlocked, ListInv, TypeOK, EachTypes
<1>2. PICK p \in Popped(list, num) : list' = p.list /\ Returns("pop", num, p.node)
  BY DEF dict_list_pop
<1>3. ListOK(p.list) /\ p.node \in Node \cup {NULL}
  BY <1>1, <1>2, PoppedOK
<1>4. ret' \in RetTypes
  BY <1>1, <1>2, <1>3 DEF Returns, RetTypes
<1> QED
  BY <1>1, <1>2, <1>3, <1>4, write_Inv

LEMMA del_Inv ==
    ASSUME ListInv, NEW num \in Num, dict_list_del(num)
    PROVE  ListInv'
<1>1. /\ ListOK(list) /\ num \in Int
      /\ ~Reading /\ UNCHANGED readers /\ each' \in EachTypes
  BY ListInvOK, DictListAssumption
     DEF dict_list_del, wlocked, ListInv, TypeOK, EachTypes
<1>2. PICK p \in Deleted(list, num) : list' = p.list /\ Returns("del", num, p.node)
  BY DEF dict_list_del, Delete
<1>3. ListOK(p.list) /\ p.node \in Node \cup {NULL}
  BY <1>1, <1>2, DeletedOK
<1>4. ret' \in RetTypes
  BY <1>1, <1>2, <1>3 DEF Returns, RetTypes
<1> QED
  BY <1>1, <1>2, <1>3, <1>4, write_Inv

(* What a lookup that remembers does, from set or from a callback.         *)
LEMMA LookupOK ==
    ASSUME ListOK(list), NEW num \in Int, NEW op \in {"get", "set"},
           IF InRange(list, num)
           THEN \E n \in Found(list, Index(list, num)) :
                    list' = Remember(list, n, Index(list, num)) /\ Returns(op, num, n)
           ELSE UNCHANGED list /\ Returns(op, num, NULL)
    PROVE  /\ ListOK(list') /\ list'.nodes = list.nodes /\ ret' \in RetTypes
           /\ ret' = [op |-> op, num |-> num,
                      node |-> IF InRange(list, num) THEN NodeAt(list, Index(list, num)) ELSE NULL]
<1>1. CASE ~InRange(list, num)
  BY <1>1 DEF Returns, RetTypes
<1>2. CASE InRange(list, num)
  <2> DEFINE i == Index(list, num)
  <2>1. i \in 0..(Size(list) - 1)
    BY <1>2, IndexRange DEF ListOK
  <2>2. PICK n \in Found(list, i) : list' = Remember(list, n, i) /\ Returns(op, num, n)
    BY <1>2
  <2> HIDE DEF i
  <2>3. n = NodeAt(list, i) /\ n \in Node
    BY <2>1, <2>2, FoundExact, NodeAtRange DEF ListOK
  <2>4. ListOK(list') /\ list'.nodes = list.nodes
    BY <2>1, <2>2, <2>3, RememberOK
  <2>5. ret' = [op |-> op, num |-> num, node |-> NodeAt(list, i)] /\ ret' \in RetTypes
    BY <2>2, <2>3 DEF Returns, RetTypes
  <2> QED
    BY <1>2, <2>4, <2>5 DEF i
<1> QED
  BY <1>1, <1>2

LEMMA set_Inv ==
    ASSUME ListInv, NEW num \in Num, dict_list_set(num)
    PROVE  ListInv'
<1>1. /\ ListOK(list) /\ num \in Int
      /\ ~Reading /\ UNCHANGED readers /\ each' \in EachTypes
  BY ListInvOK, DictListAssumption
     DEF dict_list_set, wlocked, ListInv, TypeOK, EachTypes
<1>2. ListOK(list') /\ ret' \in RetTypes
  BY <1>1, LookupOK DEF dict_list_set, Set
<1> QED
  BY <1>1, <1>2, write_Inv

LEMMA NextLookup ==
    ASSUME ListInv, NEW op \in EachOps, dict_list_each_next(op)
    PROVE  /\ each.num \in Int /\ op \in {"get", "set"}
           /\ IF InRange(list, each.num)
              THEN \E n \in Found(list, Index(list, each.num)) :
                    /\ list' = Remember(list, n, Index(list, each.num))
                    /\ Returns(op, each.num, n)
              ELSE UNCHANGED list /\ Returns(op, each.num, NULL)
<1>1. each.num \in Nat /\ op \in {"get", "set"}
  BY DictListAssumption DEF ListInv, TypeOK
<1>2. Index(list, each.num) = each.num
  BY <1>1 DEF Index
<1>3. CASE op = "set"
  BY <1>1, <1>3 DEF dict_list_each_next, Set
<1>4. CASE op = "get"
  BY <1>1, <1>2, <1>4 DEF dict_list_each_next
<1> QED
  BY <1>1, <1>3, <1>4

LEMMA each_Inv ==
    ASSUME ListInv, dict_list_each
    PROVE  ListInv'
<1>1. ListOK(list) /\ TypeOK
  BY ListInvOK DEF ListInv
<1>2. \A i \in Int : NodeAt(list, i) \in Node \cup {NULL}
  BY <1>1, NodeAtRange DEF NodeAt, ListOK
<1>3. CASE dict_list_each_begin
  BY <1>1, <1>2, <1>3, write_Inv DEF dict_list_each_begin, EachTypes, RetTypes, TypeOK
<1>4. CASE dict_list_each_end
  BY <1>1, <1>4, write_Inv DEF dict_list_each_end, NoEach, EachTypes, RetTypes, TypeOK
<1>5. ASSUME NEW op \in EachOps, dict_list_each_next(op)
      PROVE  ListInv'
  <2>1. ListOK(list') /\ list'.nodes = list.nodes /\ ret' \in RetTypes
    BY <1>1, <1>5, NextLookup, LookupOK
  <2>2. PICK i \in 0..(Size(list) - 1) : each.node = NodeAt(list, i) /\ IndexOf(list, each.node) = i
    <3>1. PICK k \in 1..Len(list.nodes) : each.node = list.nodes[k]
      BY <1>5 DEF dict_list_each_next, Linked
    <3> DEFINE m == k - 1
    <3>2. m \in 0..(Size(list) - 1) /\ m + 1 = k
      BY <1>1 DEF ListOK, Lists, Size
    <3> HIDE DEF m
    <3>3. NodeAt(list, m) = list.nodes[m + 1] /\ IndexOf(list, NodeAt(list, m)) = m
      BY <1>1, <3>2, NodeAtRange DEF ListOK
    <3>4. each.node = NodeAt(list, m)
      BY <3>1, <3>2, <3>3
    <3> QED
      BY <3>2, <3>3, <3>4
  <2>3. each' \in EachTypes
    <3>1. each' = [each EXCEPT !.node = NodeAt(list, IndexOf(list, each.node) + 1),
                               !.num = each.num + 1]
      BY <1>5 DEF dict_list_each_next
    <3>2. Size(list) \in Nat /\ each \in EachTypes
      BY <1>1 DEF ListOK, Lists, Size, TypeOK, EachTypes
    <3>3. NodeAt(list, IndexOf(list, each.node) + 1) \in Node \cup {NULL}
      BY <1>2, <2>2, <3>2
    <3> DEFINE next == NodeAt(list, IndexOf(list, each.node) + 1)
    <3>4. each' = [each EXCEPT !.node = next, !.num = each.num + 1] /\ next \in Node \cup {NULL}
      BY <3>1, <3>3
    <3> HIDE DEF next
    <3>5. each' = [on |-> each.on, node |-> next, num |-> each.num + 1]
      BY <3>2, <3>4 DEF EachTypes
    <3>6. each.on \in BOOLEAN /\ each.num + 1 \in Nat
      BY <3>2 DEF EachTypes
    <3> QED
      BY <3>4, <3>5, <3>6 DEF EachTypes
  <2> QED
    BY <1>5, <2>1, <2>3, write_Inv DEF dict_list_each_next
<1> QED
  BY <1>3, <1>4, <1>5 DEF dict_list_each

(* The fast node is always exact and every reader has found the right node *)
(* (dl->fast, dict_list_get_node), when nobody pops the head.              *)
THEOREM ListInvariance ==
    ASSUME HeadPops = FALSE
    PROVE  Spec => []ListInv
<1>1. ASSUME ListInv, [Next]_vars
      PROVE  ListInv'
  <2>1. CASE UNCHANGED vars
    BY <1>1, <2>1 DEF vars, ListInv, TypeOK, Distinct, Size, FastNodeExact, FastExact,
       NodeAt, ReadsRight, InRange, Index
  <2>2. CASE Next
    BY <1>1, <2>2, get_Inv, push_Inv, pop_Inv, del_Inv, set_Inv, each_Inv, HeadPops = FALSE
       DEF Next
  <2> QED
    BY <1>1, <2>1, <2>2
<1> QED
  BY <1>1, ListInvInit, PTL DEF Spec

(* What the code relies on: the walk beside the fast node ends at the node *)
(* of the index, for every reader.                                         *)
THEOREM ListSafety ==
    ASSUME HeadPops = FALSE
    PROVE  Spec => [](FastNodeExact /\ ReadsRight)
<1>1. ListInv => FastNodeExact /\ ReadsRight
  BY DEF ListInv
<1> QED
  BY <1>1, ListInvariance, PTL

-----------------------------------------------------------------------------
(* The list implements the indexed sequence.                               *)

LEMMA AbstractAt ==
    ASSUME ListOK(list), NEW num \in Int
    PROVE  /\ InRange(list, num) => /\ Abstract!Position(num) = Index(list, num) + 1
                                    /\ Abstract!Position(num) # 0
                                    /\ Abstract!At(num) = NodeAt(list, Index(list, num))
           /\ ~InRange(list, num) => Abstract!Position(num) = 0 /\ Abstract!At(num) = NULL
<1>1. Size(list) = Len(list.nodes) /\ Size(list) \in Nat /\ list \in Lists
  BY DEF ListOK, Lists, Size
<1>2. ASSUME InRange(list, num)
      PROVE  /\ Abstract!Position(num) = Index(list, num) + 1
             /\ Index(list, num) \in 0..(Size(list) - 1)
  BY <1>1, <1>2, IndexRange DEF InRange, Index, Abstract!Position, Abstract!Size
<1>3. ASSUME ~InRange(list, num)
      PROVE  Abstract!Position(num) = 0
  BY <1>1, <1>3 DEF InRange, Abstract!Position, Abstract!Size
<1>4. ASSUME InRange(list, num)
      PROVE  Abstract!At(num) = NodeAt(list, Index(list, num))
  <2>1. NodeAt(list, Index(list, num)) = list.nodes[Index(list, num) + 1]
    BY <1>1, <1>2, <1>4, NodeAtRange DEF ListOK
  <2> QED
    BY <1>1, <1>2, <1>4, <2>1 DEF Abstract!At
<1>5. ~InRange(list, num) => Abstract!At(num) = NULL
  BY <1>3 DEF Abstract!At
<1> QED
  BY <1>1, <1>2, <1>3, <1>4, <1>5

LEMMA AbstractRemoved ==
    ASSUME ListOK(list), NEW k \in 0..(Size(list) - 1)
    PROVE  Abstract!Removed(k + 1) = Without(list.nodes, k)
<1>1. Size(list) = Len(list.nodes) /\ Size(list) \in Nat
  BY DEF ListOK, Lists, Size
<1>2. (k + 1) - 1 = k /\ (k + 1) + 1 = k + 2
  BY <1>1
<1> QED
  BY <1>1, <1>2 DEF Abstract!Removed, Abstract!Size, Without

(* A get or a set changes nothing but what is remembered.                  *)
LEMMA AbstractAccess ==
    ASSUME ListOK(list), Num = Int, NEW num \in Int, NEW op \in {"get", "set"},
           list'.nodes = list.nodes,
           InRange(list, num) => ret' = [op |-> op, num |-> num,
                                         node |-> NodeAt(list, Index(list, num))],
           ~InRange(list, num) => ret' = [op |-> op, num |-> num, node |-> NULL]
    PROVE  Abstract!Next
<1>1. ret' = [op |-> op, num |-> num, node |-> Abstract!At(num)]
  BY AbstractAt
<1>2. Abstract!Access(op, num)
  BY <1>1 DEF Abstract!Access, Abstract!Returns
<1> QED
  BY <1>2 DEF Abstract!Next

AbstractStep == Abstract!Next \/ UNCHANGED <<list.nodes, ret>>

LEMMA get_Step ==
    ASSUME ListInv, Num = Int, NEW t \in Readers, dict_list_get(t)
    PROVE  AbstractStep
<1>1. ListOK(list) /\ TypeOK
  BY ListInvOK DEF ListInv
<1>2. ASSUME NEW num \in Num, dict_list_get_out(t, num)
      PROVE  AbstractStep
  BY <1>1, <1>2, Num = Int, AbstractAccess DEF dict_list_get_out, Returns, AbstractStep
<1>3. ASSUME NEW num \in Num, dict_list_get_find(t, num)
      PROVE  AbstractStep
  BY <1>3 DEF dict_list_get_find, AbstractStep
<1>4. ASSUME dict_list_get_store(t)
      PROVE  AbstractStep
  <2>1. /\ arg[t] \in Int /\ InRange(list, arg[t])
        /\ got[t] = NodeAt(list, Index(list, arg[t]))
    BY <1>1, <1>4 DEF dict_list_get_store, ListInv, ReadsRight, TypeOK
  <2>2. /\ list'.nodes = list.nodes
        /\ ret' = [op |-> "get", num |-> arg[t], node |-> NodeAt(list, Index(list, arg[t]))]
    BY <1>4, <2>1 DEF dict_list_get_store, Returns, Remember
  <2> QED
    BY <1>1, <2>1, <2>2, Num = Int, AbstractAccess DEF AbstractStep
<1> QED
  BY <1>2, <1>3, <1>4 DEF dict_list_get

(* Where the abstract sequence inserts and removes, counting from 1.       *)
LEMMA AbstractClamped ==
    ASSUME ListOK(list), NEW num \in Int
    PROVE  /\ Abstract!Clamped(num, Size(list) + 1) = PushAt(list, num) + 1
           /\ PushAt(list, num) \in 0..Size(list)
           /\ list.nodes # <<>> /\ num >= -Size(list) =>
                 Abstract!Clamped(num, Size(list)) = PopAt(list, num) + 1
<1>1. Size(list) = Len(list.nodes) /\ Size(list) \in Nat /\ list.nodes \in Seq(Node)
  BY DEF ListOK, Lists, Size
<1>2. CASE InRange(list, num)
  <2>1. Abstract!Position(num) = Index(list, num) + 1 /\ Index(list, num) \in 0..(Size(list) - 1)
    BY <1>2, AbstractAt, IndexRange DEF ListOK
  <2> QED
    BY <1>1, <1>2, <2>1 DEF Abstract!Clamped, Abstract!Size, InRange, PushAt, PopAt
<1>3. CASE num > Size(list) - 1
  <2>1. Abstract!Clamped(num, Size(list) + 1) = Size(list) + 1 /\ PushAt(list, num) = Size(list)
    BY <1>1, <1>3 DEF Abstract!Clamped, Abstract!Size, PushAt
  <2>2. list.nodes # <<>> => Size(list) > 0
    BY <1>1, EmptySeq
  <2>3. list.nodes # <<>> => /\ Abstract!Clamped(num, Size(list)) = Size(list)
                             /\ PopAt(list, num) = Size(list) - 1
    BY <1>1, <1>3, <2>2 DEF Abstract!Clamped, Abstract!Size, PopAt
  <2> QED
    BY <1>1, <2>1, <2>3
<1>4. CASE num < -Size(list)
  BY <1>1, <1>4 DEF Abstract!Clamped, Abstract!Size, PushAt, PopAt
<1> QED
  BY <1>1, <1>2, <1>3, <1>4 DEF InRange

LEMMA push_Step ==
    ASSUME ListInv, Num = Int, NEW num \in Num, dict_list_push(num)
    PROVE  AbstractStep
<1> DEFINE k == PushAt(list, num)
<1>1. ListOK(list) /\ num \in Int
  BY Num = Int, ListInvOK
<1>2. PICK n \in Node \ Linked(list) : list' \in Pushed(list, n, num) /\ Returns("push", num, n)
  BY DEF dict_list_push
<1>3. list'.nodes = InsertBefore(list.nodes, k, n)
  BY <1>1, <1>2, PushedOK
<1>4. Abstract!Clamped(num, Size(list) + 1) = k + 1 /\ k \in 0..Size(list)
  BY <1>1, AbstractClamped
<1> HIDE DEF k
<1>5. Size(list) = Len(list.nodes) /\ Size(list) \in Nat /\ (k + 1) - 1 = k
  BY <1>1, <1>4 DEF ListOK, Lists, Size
<1>6. \A i \in 1..Size(list) : list.nodes[i] # n
  BY <1>2, <1>5 DEF Linked
<1>7. Abstract!Push(num, n)
  BY <1>2, <1>3, <1>4, <1>5, <1>6
     DEF Abstract!Push, Abstract!Size, Abstract!Returns, Returns, InsertBefore
<1> QED
  BY <1>2, <1>7, Num = Int DEF AbstractStep, Abstract!Next

LEMMA pop_Step ==
    ASSUME ListInv, HeadPops = FALSE, Num = Int, NEW num \in Num, dict_list_pop(num)
    PROVE  AbstractStep
<1> DEFINE k == PopAt(list, num)
<1>1. ListOK(list) /\ num \in Int /\ num # 0 /\ num >= -Size(list)
  BY Num = Int, ListInvOK DEF dict_list_pop
<1>2. PICK p \in Popped(list, num) : list' = p.list /\ Returns("pop", num, p.node)
  BY DEF dict_list_pop
<1>3. CASE list.nodes = <<>>
  <2>1. list' = list /\ Returns("pop", num, NULL)
    BY <1>1, <1>2, <1>3, PoppedOK
  <2>2. Abstract!Pop(num)
    BY <1>3, <2>1 DEF Abstract!Pop, Abstract!Returns, Returns
  <2> QED
    BY <2>2, Num = Int DEF AbstractStep, Abstract!Next
<1>4. CASE list.nodes # <<>>
  <2>1. /\ k \in 0..(Size(list) - 1)
        /\ list'.nodes = Without(list.nodes, k)
        /\ Returns("pop", num, NodeAt(list, k))
    BY <1>1, <1>2, <1>4, PoppedOK
  <2>2. Abstract!Clamped(num, Size(list)) = k + 1
    BY <1>1, <1>4, AbstractClamped
  <2> HIDE DEF k
  <2>3. Abstract!Removed(k + 1) = Without(list.nodes, k)
    BY <1>1, <2>1, AbstractRemoved
  <2>4. NodeAt(list, k) = list.nodes[k + 1]
    BY <1>1, <2>1, NodeAtRange DEF ListOK
  <2>5. Abstract!Pop(num)
    BY <1>4, <2>1, <2>2, <2>3, <2>4
       DEF Abstract!Pop, Abstract!Size, Size, Abstract!Returns, Returns
  <2> QED
    BY <2>5, Num = Int DEF AbstractStep, Abstract!Next
<1> QED
  BY <1>3, <1>4

LEMMA del_Step ==
    ASSUME ListInv, Num = Int, NEW num \in Num, dict_list_del(num)
    PROVE  AbstractStep
<1> DEFINE i == Index(list, num)
<1>1. ListOK(list) /\ num \in Int
  BY Num = Int, ListInvOK
<1>2. PICK p \in Deleted(list, num) : list' = p.list /\ Returns("del", num, p.node)
  BY DEF dict_list_del, Delete
<1>3. CASE ~InRange(list, num)
  <2>1. list' = list /\ Returns("del", num, NULL)
    BY <1>1, <1>2, <1>3, DeletedOK
  <2>2. Abstract!Position(num) = 0 /\ Abstract!At(num) = NULL
    BY <1>1, <1>3, AbstractAt
  <2> QED
    BY <2>1, <2>2, Num = Int
       DEF AbstractStep, Abstract!Next, Abstract!Del, Abstract!Returns, Returns
<1>4. CASE InRange(list, num)
  <2>1. list'.nodes = Without(list.nodes, i) /\ Returns("del", num, p.node)
    BY <1>1, <1>2, <1>4, DeletedOK
  <2>2. p.node = NodeAt(list, i) /\ i \in 0..(Size(list) - 1)
    <3>1. i \in 0..(Size(list) - 1)
      BY <1>1, <1>4, IndexRange DEF ListOK
    <3>2. PICK n \in Found(list, i) : p.node = n
      BY <1>2, <1>4 DEF Deleted
    <3> QED
      BY <1>1, <3>1, <3>2, FoundExact
  <2>3. /\ Abstract!Position(num) = i + 1 /\ Abstract!Position(num) # 0
        /\ Abstract!At(num) = NodeAt(list, i)
    BY <1>1, <1>4, AbstractAt
  <2> HIDE DEF i
  <2>4. Abstract!Removed(i + 1) = Without(list.nodes, i)
    BY <1>1, <2>2, AbstractRemoved
  <2>5. Abstract!Del(num)
    BY <2>1, <2>2, <2>3, <2>4 DEF Abstract!Del, Abstract!Returns, Returns
  <2> QED
    BY <2>5, Num = Int DEF AbstractStep, Abstract!Next
<1> QED
  BY <1>3, <1>4

LEMMA set_Step ==
    ASSUME ListInv, Num = Int, NEW num \in Num, dict_list_set(num)
    PROVE  AbstractStep
<1>1. ListOK(list) /\ num \in Int
  BY Num = Int, ListInvOK
<1>2. /\ list'.nodes = list.nodes
      /\ ret' = [op |-> "set", num |-> num,
                 node |-> IF InRange(list, num) THEN NodeAt(list, Index(list, num)) ELSE NULL]
  BY <1>1, LookupOK DEF dict_list_set, Set
<1> QED
  BY <1>1, <1>2, Num = Int, AbstractAccess DEF AbstractStep

LEMMA each_Step ==
    ASSUME ListInv, Num = Int, dict_list_each
    PROVE  AbstractStep
<1>1. CASE dict_list_each_begin \/ dict_list_each_end
  BY <1>1 DEF dict_list_each_begin, dict_list_each_end, AbstractStep
<1>2. ASSUME NEW op \in EachOps, dict_list_each_next(op)
      PROVE  AbstractStep
  <2> DEFINE num == each.num
  <2>1. num \in Int /\ op \in {"get", "set"} /\ ListOK(list)
    BY <1>2, NextLookup, ListInvOK
  <2>2. /\ list'.nodes = list.nodes
        /\ ret' = [op |-> op, num |-> num,
                   node |-> IF InRange(list, num) THEN NodeAt(list, Index(list, num)) ELSE NULL]
    BY <1>2, <2>1, NextLookup, LookupOK
  <2> HIDE DEF num
  <2> QED
    BY <2>1, <2>2, Num = Int, AbstractAccess DEF AbstractStep
<1> QED
  BY <1>1, <1>2 DEF dict_list_each

(* The list with its fast node and its readers is an indexed sequence,     *)
(* whatever the callers do (__dict_list_push_3_imple, __dict_list_del,     *)
(* dict_list_get_node), when nobody pops the head.                         *)
THEOREM ListImplementsIndexed ==
    ASSUME HeadPops = FALSE, Num = Int
    PROVE  Spec => ImplementsIndexedList
<1>1. Init => Abstract!Init
  BY DEF Init, NewList, Abstract!Init
<1>2. ASSUME ListInv, [Next]_vars
      PROVE  [Abstract!Next]_(Abstract!vars)
  <2>1. CASE UNCHANGED vars
    BY <2>1 DEF vars, Abstract!vars
  <2>2. CASE Next
    <3>1. AbstractStep
      BY <1>2, <2>2, HeadPops = FALSE, Num = Int, get_Step, push_Step, pop_Step, del_Step,
         set_Step, each_Step DEF Next
    <3> QED
      BY <3>1 DEF AbstractStep, Abstract!vars
  <2> QED
    BY <1>2, <2>1, <2>2
<1> QED
  BY <1>1, <1>2, ListInvariance, HeadPops = FALSE, PTL
     DEF Spec, ImplementsIndexedList, Abstract!Spec
=============================================================================
