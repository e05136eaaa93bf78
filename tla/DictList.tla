------------------------------- MODULE DictList -------------------------------
(***************************************************************************)
(* The list of dict.c under its reader-writer lock: readers look nodes up  *)
(* together and each remembers what it found in dl->fast under fast.lock;  *)
(* push, pop, set and del hold the write lock, so they are one step and    *)
(* need all readers out (RWLock shows that with_wlock excludes them).  One *)
(* traversal (dict_list_each) may run with calls from its callback, alone. *)
(***************************************************************************)
EXTENDS DictListOps

CONSTANTS Readers,      \* threads in dict_list_get
          Num,          \* the indexes that callers use
          HeadPops,     \* callers pop the head
          EachOps       \* what a traversal's callback calls

ASSUME DictListAssumption ==
    /\ Num \subseteq Int /\ HeadPops \in BOOLEAN
    /\ EachOps \subseteq {"get", "set"}

VARIABLES list,     \* the struct dict_list
          pc,       \* "idle", or "store": found, not yet remembered
          arg, got, \* the index a reader asked for and the node it found
          each,     \* the traversal: dln and num, "none" if there is none
          ret       \* the last call and the node it is about

vars == <<list, pc, arg, got, each, ret>>

TypeOK ==
    /\ list \in [nodes: Seq(Node), fast: Node \cup {NULL}, num: Int]
    /\ pc \in [Readers -> {"idle", "store"}]
    /\ arg \in [Readers -> Int] /\ got \in [Readers -> Node \cup {NULL}]
    /\ each \in [on: BOOLEAN, node: Node \cup {NULL}, num: Nat]
    /\ ret \in [op: {"new", "push", "pop", "del", "get", "set"},
                num: Int, node: Node \cup {NULL}]

NoEach == [on |-> FALSE, node |-> NULL, num |-> 0]

(* dict_list_new.                                                          *)
Init ==
    /\ list = NewList
    /\ pc = [t \in Readers |-> "idle"]
    /\ arg = [t \in Readers |-> 0]
    /\ got = [t \in Readers |-> NULL]
    /\ each = NoEach
    /\ ret = [op |-> "new", num |-> 0, node |-> NULL]

Returns(op, num, n) == ret' = [op |-> op, num |-> num, node |-> n]

-----------------------------------------------------------------------------
(* dict_list_get and dict_list_get_dict: under the read lock.              *)

Reading == \E t \in Readers : pc[t] = "store"

dict_list_get_out(t, num) ==
    /\ pc[t] = "idle" /\ ~each.on
    /\ ~InRange(list, num)
    /\ Returns("get", num, NULL)
    /\ UNCHANGED <<list, pc, arg, got, each>>

dict_list_get_find(t, num) ==
    /\ pc[t] = "idle" /\ ~each.on
    /\ InRange(list, num)
    /\ \E n \in Found(list, Index(list, num)) : got' = [got EXCEPT ![t] = n]
    /\ arg' = [arg EXCEPT ![t] = num]
    /\ pc' = [pc EXCEPT ![t] = "store"]
    /\ UNCHANGED <<list, each, ret>>

dict_list_get_store(t) ==
    /\ pc[t] = "store"
    /\ list' = Remember(list, got[t], Index(list, arg[t]))
    /\ Returns("get", arg[t], got[t])
    /\ pc' = [pc EXCEPT ![t] = "idle"]
    /\ UNCHANGED <<arg, got, each>>

-----------------------------------------------------------------------------
(* The writers: the whole body, under the write lock.                      *)

wlocked == ~Reading /\ ~each.on

readers == <<pc, arg, got>>

(* lib_malloc returns any block that is not in use.                        *)
dict_list_push(num) ==
    /\ wlocked
    /\ \E n \in Node \ Linked(list) :
        /\ list' \in Pushed(list, n, num)
        /\ Returns("push", num, n)
    /\ UNCHANGED <<readers, each>>

dict_list_pop(num) ==
    /\ wlocked
    /\ HeadPops \/ (num # 0 /\ num >= -Size(list))
    /\ \E p \in Popped(list, num) :
        /\ list' = p.list
        /\ Returns("pop", num, p.node)
    /\ UNCHANGED <<readers, each>>

Delete(num) ==
    \E p \in Deleted(list, num) : list' = p.list /\ Returns("del", num, p.node)

Set(num) ==
    IF InRange(list, num)
    THEN \E n \in Found(list, Index(list, num)) :
            /\ list' = Remember(list, n, Index(list, num))
            /\ Returns("set", num, n)
    ELSE UNCHANGED list /\ Returns("set", num, NULL)

dict_list_del(num) == wlocked /\ Delete(num) /\ UNCHANGED <<readers, each>>

dict_list_set(num) == wlocked /\ Set(num) /\ UNCHANGED <<readers, each>>

-----------------------------------------------------------------------------
(* dict_list_each_2 with a callback that uses the index it is given.  Its  *)
(* own calls pass the lock, which disable_rwlock has switched off.  One    *)
(* that deleted that index would free the dln_next the traversal holds.    *)

dict_list_each_begin ==
    /\ wlocked /\ EachOps # {}
    /\ each' = [on |-> TRUE, node |-> NodeAt(list, 0), num |-> 0]
    /\ UNCHANGED <<list, readers, ret>>

dict_list_each_next(op) ==
    /\ each.on /\ each.node \in Linked(list)
    /\ each' = [each EXCEPT !.node = NodeAt(list, IndexOf(list, each.node) + 1),
                            !.num = @ + 1]
    /\ CASE op = "set" -> Set(each.num)
         [] op = "get" -> IF InRange(list, each.num)
                          THEN \E n \in Found(list, each.num) :
                                /\ list' = Remember(list, n, each.num)
                                /\ Returns("get", each.num, n)
                          ELSE UNCHANGED list /\ Returns("get", each.num, NULL)
    /\ UNCHANGED readers

dict_list_each_end ==
    /\ each.on /\ each.node = NULL
    /\ each' = NoEach
    /\ UNCHANGED <<list, readers, ret>>

-----------------------------------------------------------------------------

dict_list_get(t) ==
    \/ \E num \in Num : dict_list_get_out(t, num) \/ dict_list_get_find(t, num)
    \/ dict_list_get_store(t)

dict_list_each ==
    dict_list_each_begin \/ dict_list_each_end \/ \E op \in EachOps : dict_list_each_next(op)

Next ==
    \/ \E t \in Readers : dict_list_get(t)
    \/ \E num \in Num : dict_list_push(num) \/ dict_list_pop(num)
                                \/ dict_list_del(num) \/ dict_list_set(num)
    \/ dict_list_each

Spec == Init /\ [][Next]_vars

-----------------------------------------------------------------------------
(* Properties                                                              *)

(* dl->fast names the node at index fast.num, or nothing, whatever pushes, *)
(* pops and deletions have moved since (test 7 of dict.c, fast_num), so    *)
(* the walk that starts beside it ends at the right node.                  *)
FastNodeExact == FastExact(list)

(* A reader has found the node of its index, although other readers move   *)
(* dl->fast while it looks (dict_list_get_node).                           *)
ReadsRight ==
    \A t \in Readers :
        pc[t] = "store" => got[t] = NodeAt(list, Index(list, arg[t]))

Abstract == INSTANCE IndexedList WITH items <- list.nodes

(* The list with its fast node and its concurrent readers behaves as a     *)
(* plain indexed sequence: every call gets, inserts, removes or changes    *)
(* the element that its index names.                                       *)
ImplementsIndexedList == Abstract!Spec

(* The inductive invariant.                                                *)
ListInv ==
    /\ TypeOK
    /\ Distinct(list)
    /\ FastNodeExact
    /\ \A t \in Readers : pc[t] = "store" => InRange(list, arg[t])
    /\ ReadsRight
=============================================================================
