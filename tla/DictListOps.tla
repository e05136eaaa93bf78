----------------------------- MODULE DictListOps ------------------------------
(***************************************************************************)
(* The doubly linked list of dict.c as a value: l.nodes is the sequence    *)
(* that head, next, prev and tail spell out, l.fast and l.num are          *)
(* dl->fast.node and dl->fast.num, the node found last and its index.      *)
(* Indexes count from 0, as in the code.  An operation that follows the    *)
(* pointers of a freed node may find anything, so lookups are sets of      *)
(* possible outcomes.                                                      *)
(***************************************************************************)
EXTENDS Integers, Sequences

CONSTANTS Node,     \* the memory blocks of list nodes
          NULL

ASSUME NodeAssumption == NULL \notin Node

NewList == [nodes |-> <<>>, fast |-> NULL, num |-> -1]

Size(l) == Len(l.nodes)

Linked(l) == {l.nodes[i] : i \in 1..Len(l.nodes)}

NodeAt(l, i) == IF i \in 0..(Size(l) - 1) THEN l.nodes[i + 1] ELSE NULL

IndexOf(l, n) == CHOOSE i \in 0..(Size(l) - 1) : l.nodes[i + 1] = n

InRange(l, num) == -Size(l) <= num /\ num < Size(l)

Index(l, num) == IF num < 0 THEN num + Size(l) ELSE num

Near(l, i) == \* the walk starts beside the fast node
    \/ i > l.num /\ i <= (l.num + Size(l)) \div 2
    \/ i < l.num /\ i > (l.num - 1) \div 2
(* Mutant: the walk starts at the fast node instead of beside it.          *)
Found_Off(l, i) ==
    CASE l.fast = NULL            -> {NodeAt(l, i)}
      [] l.fast # NULL /\ i = l.num -> {l.fast}
      [] l.fast # NULL /\ i # l.num /\ ~Near(l, i) -> {NodeAt(l, i)}
      [] OTHER -> IF l.fast \in Linked(l)
                  THEN {NodeAt(l, IndexOf(l, l.fast) + i - l.num - 1)}
                  ELSE Node \cup {NULL}

(* dict_list_get_node for an index in 0 .. Size(l) - 1.                    *)
Found(l, i) ==
    CASE l.fast = NULL            -> {NodeAt(l, i)}
      [] l.fast # NULL /\ i = l.num -> {l.fast}
      [] l.fast # NULL /\ i # l.num /\ ~Near(l, i) -> {NodeAt(l, i)}
      [] OTHER -> IF l.fast \in Linked(l)
                  THEN {NodeAt(l, IndexOf(l, l.fast) + i - l.num)}
                  ELSE Node \cup {NULL}

Remember(l, n, i) == [l EXCEPT !.fast = n, !.num = i]
(* Mutant: inserted after.                                                 *)
InsertBefore_After(s, k, n) == SubSeq(s, 1, k + 1) \o <<n>> \o SubSeq(s, k + 2, Len(s))

InsertBefore(s, k, n) == SubSeq(s, 1, k) \o <<n>> \o SubSeq(s, k + 1, Len(s))

Without(s, k) == SubSeq(s, 1, k) \o SubSeq(s, k + 2, Len(s))
Append1(l, n) == [l EXCEPT !.nodes = Append(@, n)]
PushHead(l, n) == [l EXCEPT !.nodes = <<n>> \o @,
                            !.num = IF l.fast = NULL THEN @ ELSE @ + 1]

PushBefore(l, at, i, n) == \* `at' was found at index i
    [nodes |-> InsertBefore(l.nodes, IndexOf(l, at), n), fast |-> at, num |-> i + 1]

PopHead(l) == [l EXCEPT !.nodes = Tail(@)]

PopTail(l) == [l EXCEPT !.nodes = SubSeq(@, 1, Len(@) - 1), !.fast = NULL]
(* Mutant: the fast node stays the removed one.                            *)
Unlink_FastKept(l, n, i) ==
    [nodes |-> Without(l.nodes, IndexOf(l, n)), fast |-> n, num |-> i]

Unlink(l, n, i) == \* n was found at index i
    [nodes |-> Without(l.nodes, IndexOf(l, n)),
     fast |-> NodeAt(l, IndexOf(l, n) + 1), num |-> i]

(* The results of __dict_list_push_3_imple: none when it follows NULL, as  *)
(* it does with a negative num on an empty list.                           *)
Pushed(l, n, num) ==
    CASE num > Size(l) - 1 -> {Append1(l, n)}
      [] num <= Size(l) - 1 /\ num < -Size(l) -> IF l.nodes = <<>> THEN {} ELSE {PushHead(l, n)}
      [] OTHER -> {PushBefore(l, at, Index(l, num), n) :
                    at \in Found(l, Index(l, num)) \cap Linked(l)}

(* The results of __dict_list_pop_3_imple: the list and the node popped.   *)
Popped(l, num) ==
    CASE l.nodes = <<>> -> {[list |-> l, node |-> NULL]}
      [] l.nodes # <<>> /\ (num = 0 \/ num < -Size(l)) ->
            {[list |-> PopHead(l), node |-> Head(l.nodes)]}
      [] l.nodes # <<>> /\ num # 0 /\ num > Size(l) - 1 ->
            {[list |-> PopTail(l), node |-> l.nodes[Size(l)]]}
      [] OTHER -> {[list |-> Unlink(l, n, Index(l, num)), node |-> n] :
                    n \in Found(l, Index(l, num)) \cap Linked(l)}

(* The results of __dict_list_del.                                         *)
Deleted(l, num) ==
    IF InRange(l, num)
    THEN {[list |-> Unlink(l, n, Index(l, num)), node |-> n] :
            n \in Found(l, Index(l, num)) \cap Linked(l)}
    ELSE {[list |-> l, node |-> NULL]}

(* The fast node is where fast.num says.                                   *)
FastExact(l) == l.fast # NULL => l.fast = NodeAt(l, l.num)

Distinct(l) == \A i, j \in 1..Size(l) : l.nodes[i] = l.nodes[j] => i = j
=============================================================================
