----------------------------- MODULE FastCache -------------------------------
(***************************************************************************)
(* The block cache of fastcache.c: writers hand packets to a queue, one    *)
(* dispatcher thread (_fastcache_write) deals them out to the nodes, one   *)
(* thread per node (__fastcache_write) stores them in a slot of memory or  *)
(* of a file, and one client reads and cleans them by their index (two of  *)
(* them would race in fastcache_read and fastcache_clean).  A packet is    *)
(* its index; none is written while it is in the cache.  A Restart is      *)
(* the end of the process and fastcache_init and fastcache_add of the same *)
(* nodes.                                                                  *)
(***************************************************************************)
EXTENDS Integers, Sequences, FiniteSets, FiniteSetsExt, Functions

CONSTANTS Nodes, File,  \* the nodes and those of them that are files
          block, level, \* their number of slots and their level
          Packets,      \* their indexes: task.id and info.id, not 0
          Writers,
          NULL,         \* nothing; the index 0 of a free slot
          Restarts      \* whether the process may be restarted

FastCacheAssumption ==
    /\ File \subseteq Nodes /\ IsFiniteSet(Nodes)
    /\ block \in [Nodes -> Nat \ {0}] /\ level \in [Nodes -> Nat]
    /\ NULL \notin Packets /\ Restarts \in BOOLEAN
    /\ NULL \notin Nodes \cup Packets

Slots(n) == 0..(block[n] - 1)

VARIABLES nodes,        \* fc->hash, the nodes fastcache_add added
          num, q,       \* fc->num, fc->q
          w, wp,        \* each writer: where it is, with which packet
          d, dp, dn,    \* the dispatcher: where it is, its packet, the node
          nq, count,    \* fn->q, fn->count
          index_s, data, hash,  \* fn->index_s, the slots, fn->hash
          pos,          \* the position of fn->f, shared by all its users
          t, tp, ti,    \* the thread of each node: where, its packet, its i
          c, cp, cn, ci,    \* the client: where, for which index, fn, i
          crossed       \* history: two threads used the position of a file

max == MapThenSumSet(LAMBDA n : block[n], nodes)   \* fc->max

counters == <<num, count>>
writers == <<w, wp>>
dispatcher == <<d, dp, dn>>
store == <<index_s, data, hash, pos, crossed>>
threads == <<t, tp, ti>>
client == <<c, cp, cn, ci>>
vars == <<nodes, counters, q, nq, writers, dispatcher, store, threads, client>>

TypeOK ==
    /\ nodes \in SUBSET Nodes
    /\ num \in Int /\ q \in Seq(Packets) /\ nq \in [Nodes -> Seq(Packets)]
    /\ count \in [Nodes -> Int]
    /\ w \in [Writers -> {"idle", "add", "put"}] /\ wp \in [Writers -> Packets \cup {NULL}]
    /\ d \in {"get", "choose", "count"} /\ dp \in Packets \cup {NULL} /\ dn \in Nodes \cup {NULL}
    /\ \A n \in Nodes :
        /\ index_s[n] \in [Slots(n) -> Packets \cup {NULL}]
        /\ data[n] \in [0..block[n] -> Packets \cup {NULL}]
        /\ hash[n] \in [Packets -> 0..block[n]]
        /\ pos[n] \in 0..(block[n] + 1)
        /\ t[n] \in {"get", "scan", "seek", "data", "index", "hash"}
        /\ tp[n] \in Packets \cup {NULL} /\ ti[n] \in Slots(n)
    /\ c \in {"idle", "read_seek", "read", "del", "index", "count", "num"}
    /\ cp \in Packets \cup {NULL} /\ cn \in Nodes \cup {NULL} /\ ci \in Nat
    /\ crossed \in BOOLEAN

Init ==
    /\ nodes \in SUBSET Nodes
    /\ num = 0 /\ q = <<>> /\ nq = [n \in Nodes |-> <<>>] /\ count = [n \in Nodes |-> 0]
    /\ w = [x \in Writers |-> "idle"] /\ wp = [x \in Writers |-> NULL]
    /\ d = "get" /\ dp = NULL /\ dn = NULL
    /\ index_s = [n \in Nodes |-> [i \in Slots(n) |-> NULL]]
    /\ data = [n \in Nodes |-> [i \in 0..block[n] |-> NULL]]
    /\ hash = [n \in Nodes |-> [p \in Packets |-> 0]]
    /\ pos = [n \in Nodes |-> 0]
    /\ t = [n \in Nodes |-> "get"] /\ tp = [n \in Nodes |-> NULL] /\ ti = [n \in Nodes |-> 0]
    /\ c = "idle" /\ cp = NULL /\ cn = NULL /\ ci = 0
    /\ crossed = FALSE

(* On its way to a slot, and found by its index.                           *)
Waiting(p) ==
    \/ p \in Range(q) \cup {dp} \cup {wp[x] : x \in Writers}
    \/ \E n \in Nodes : p = tp[n] \/ p \in Range(nq[n])

Found(p) == \E n \in Nodes : hash[n][p] # 0

Used(n) == {i \in Slots(n) : index_s[n][i] # NULL}

-----------------------------------------------------------------------------
(* fastcache_write                                                         *)

fastcache_write_test(x, p) ==
    /\ w[x] = "idle" /\ ~Waiting(p) /\ ~Found(p)
    /\ num < max
    /\ w' = [w EXCEPT ![x] = "add"] /\ wp' = [wp EXCEPT ![x] = p]
    /\ UNCHANGED <<nodes, counters, q, nq, dispatcher, store, threads, client>>

fastcache_write_add(x) ==
    /\ w[x] = "add" /\ w' = [w EXCEPT ![x] = "put"]
    /\ num' = num + 1
    /\ UNCHANGED <<nodes, count, q, nq, wp, dispatcher, store, threads, client>>

fastcache_write_put(x) ==
    /\ w[x] = "put" /\ w' = [w EXCEPT ![x] = "idle"]
    /\ q' = Append(q, wp[x]) /\ wp' = [wp EXCEPT ![x] = NULL]
    /\ UNCHANGED <<nodes, counters, nq, dispatcher, store, threads, client>>

fastcache_write(x) ==
    \/ \E p \in Packets : fastcache_write_test(x, p)
    \/ fastcache_write_add(x) \/ fastcache_write_put(x)

-----------------------------------------------------------------------------
(* _fastcache_write                                                        *)

_fastcache_write_get ==
    /\ d = "get" /\ d' = "choose"
    /\ q # <<>> /\ dp' = Head(q) /\ q' = Tail(q)
    /\ UNCHANGED <<nodes, counters, nq, writers, dn, store, threads, client>>

(* Of the nodes that have room and for which limit_speed_check is not      *)
(* FALSE now (ready, any set), the one with the shortest queue in the       *)
(* highest level; without one the dispatcher yields and tries again.       *)
Shortest(room) ==
    {n \in room : \A m \in room : /\ level[m] <= level[n]
                                  /\ level[m] = level[n] => Len(nq[n]) <= Len(nq[m])}

(* Mutant: the room of the node is not tested.                             *)
_fastcache_write_choose_Full ==
    /\ d = "choose" /\ d' = "count"
    /\ \E ready \in SUBSET nodes :
        \E n \in Shortest(ready) :
            /\ dn' = n
            /\ nq' = [nq EXCEPT ![n] = Append(@, dp)]
    /\ dp' = NULL
    /\ UNCHANGED <<nodes, counters, q, writers, store, threads, client>>

_fastcache_write_choose ==
    /\ d = "choose" /\ d' = "count"
    /\ \E ready \in SUBSET nodes :
        \E n \in Shortest({m \in ready : count[m] < block[m]}) :
            /\ dn' = n
            /\ nq' = [nq EXCEPT ![n] = Append(@, dp)]
    /\ dp' = NULL
    /\ UNCHANGED <<nodes, counters, q, writers, store, threads, client>>

_fastcache_write_count ==
    /\ d = "count" /\ d' = "get"
    /\ count' = [count EXCEPT ![dn] = @ + 1]
    /\ dn' = NULL
    /\ UNCHANGED <<nodes, num, q, nq, writers, dp, store, threads, client>>

_fastcache_write ==
    _fastcache_write_get \/ _fastcache_write_choose \/ _fastcache_write_count

-----------------------------------------------------------------------------
(* __fastcache_write, the thread of node n                                 *)

Thread(n, from, to) == t[n] = from /\ t' = [t EXCEPT ![n] = to]

__fastcache_write_get(n) ==
    /\ Thread(n, "get", "scan")
    /\ nq[n] # <<>> /\ tp' = [tp EXCEPT ![n] = Head(nq[n])]
    /\ nq' = [nq EXCEPT ![n] = Tail(@)]
    /\ UNCHANGED <<nodes, counters, q, writers, dispatcher, store, ti, client>>

(* Mutant: the search starts behind the slot it used last, and takes it.   *)
__fastcache_write_scan_Next(n) ==
    /\ Thread(n, "scan", IF n \in File THEN "seek" ELSE "data")
    /\ ti' = [ti EXCEPT ![n] = (@ + 1) % block[n]]
    /\ UNCHANGED <<nodes, counters, q, nq, tp, writers, dispatcher, store, client>>

(* The first free slot from i on, around the end.                          *)
__fastcache_write_scan(n) ==
    /\ Thread(n, "scan", IF n \in File THEN "seek" ELSE "data")
    /\ \E k \in Slots(n) :
        LET At(j) == (ti[n] + j) % block[n]
        IN  /\ index_s[n][At(k)] = NULL /\ \A j \in 0..(k - 1) : index_s[n][At(j)] # NULL
            /\ ti' = [ti EXCEPT ![n] = At(k)]
    /\ UNCHANGED <<nodes, counters, q, nq, tp, writers, dispatcher, store, client>>

(* file_seek and the access after it use the one position of the handle.   *)
ClientSought(n) == c = "read" /\ cn = n /\ n \in File

__fastcache_write_seek(n) ==
    /\ Thread(n, "seek", "data")
    /\ pos' = [pos EXCEPT ![n] = ti[n]]
    /\ crossed' = (crossed \/ ClientSought(n))
    /\ UNCHANGED <<nodes, counters, q, nq, tp, ti, writers, dispatcher, index_s, data, hash, client>>

__fastcache_write_data(n) ==
    /\ Thread(n, "data", "index")
    /\ LET i == IF n \in File THEN pos[n] ELSE ti[n]
       IN  data' = [data EXCEPT ![n][IF i > block[n] THEN block[n] ELSE i] = tp[n]]
    /\ pos' = IF n \in File /\ pos[n] <= block[n] THEN [pos EXCEPT ![n] = @ + 1] ELSE pos
    /\ UNCHANGED <<nodes, counters, q, nq, tp, ti, writers, dispatcher, index_s, hash, crossed, client>>

__fastcache_write_index(n) ==
    /\ Thread(n, "index", "hash")
    /\ index_s' = [index_s EXCEPT ![n][ti[n]] = tp[n]]
    /\ UNCHANGED <<nodes, counters, q, nq, tp, ti, writers, dispatcher, data, hash, pos, crossed, client>>

__fastcache_write_hash(n) ==
    /\ Thread(n, "hash", "get")
    /\ hash' = [hash EXCEPT ![n][tp[n]] = ti[n] + 1]
    /\ tp' = [tp EXCEPT ![n] = NULL]
    /\ UNCHANGED <<nodes, counters, q, nq, ti, writers, dispatcher, index_s, data, pos, crossed, client>>

__fastcache_write(n) ==
    \/ __fastcache_write_get(n) \/ __fastcache_write_scan(n) \/ __fastcache_write_seek(n)
    \/ __fastcache_write_data(n) \/ __fastcache_write_index(n) \/ __fastcache_write_hash(n)

-----------------------------------------------------------------------------
(* fastcache_read and fastcache_clean                                      *)

Client(from, to) == c = from /\ c' = to

Find(p, n) ==
    /\ hash[n][p] # 0
    /\ cp' = p /\ cn' = n /\ ci' = hash[n][p] - 1

fastcache_read_find(p, n) ==
    /\ Client("idle", IF n \in File THEN "read_seek" ELSE "read")
    /\ Find(p, n)
    /\ UNCHANGED <<nodes, counters, q, nq, writers, dispatcher, store, threads>>

fastcache_read_seek ==
    /\ Client("read_seek", "read")
    /\ pos' = [pos EXCEPT ![cn] = ci]
    /\ crossed' = (crossed \/ t[cn] = "data")
    /\ UNCHANGED <<nodes, counters, q, nq, writers, dispatcher, index_s, data, hash, threads,
                   cp, cn, ci>>

(* What file_read or the copy of the block gives the client.               *)
Read == LET i == IF cn \in File THEN pos[cn] ELSE ci
        IN  data[cn][IF i > block[cn] THEN block[cn] ELSE i]

fastcache_read_data ==
    /\ Client("read", "idle")
    /\ pos' = IF cn \in File /\ pos[cn] <= block[cn] THEN [pos EXCEPT ![cn] = @ + 1] ELSE pos
    /\ cp' = NULL /\ cn' = NULL /\ ci' = 0
    /\ UNCHANGED <<nodes, counters, q, nq, writers, dispatcher, index_s, data, hash, crossed, threads>>

fastcache_clean_find(p, n) ==
    /\ Client("idle", "del")
    /\ Find(p, n)
    /\ UNCHANGED <<nodes, counters, q, nq, writers, dispatcher, store, threads>>

fastcache_clean_del ==
    /\ Client("del", "index")
    /\ hash' = [hash EXCEPT ![cn][cp] = 0]
    /\ UNCHANGED <<nodes, counters, q, nq, writers, dispatcher, index_s, data, pos, crossed, threads,
                   cp, cn, ci>>

(* Mutant: the slot is not freed.                                          *)
fastcache_clean_index_Kept ==
    /\ Client("index", "count")
    /\ UNCHANGED <<nodes, counters, q, nq, writers, dispatcher, store, threads, cp, cn, ci>>

fastcache_clean_index ==
    /\ Client("index", "count")
    /\ index_s' = [index_s EXCEPT ![cn][ci] = NULL]
    /\ UNCHANGED <<nodes, counters, q, nq, writers, dispatcher, data, hash, pos, crossed, threads,
                   cp, cn, ci>>

fastcache_clean_count ==
    /\ Client("count", "num")
    /\ count' = [count EXCEPT ![cn] = @ - 1]
    /\ UNCHANGED <<nodes, num, q, nq, writers, dispatcher, store, threads, cp, cn, ci>>

fastcache_clean_num ==
    /\ Client("num", "idle")
    /\ num' = num - 1
    /\ cp' = NULL /\ cn' = NULL /\ ci' = 0
    /\ UNCHANGED <<nodes, count, q, nq, writers, dispatcher, store, threads>>

ClientGoesOn ==
    \/ fastcache_read_seek \/ fastcache_read_data \/ fastcache_clean_del
    \/ fastcache_clean_index \/ fastcache_clean_count \/ fastcache_clean_num

ClientCalls == \E p \in Packets, n \in nodes : fastcache_read_find(p, n) \/ fastcache_clean_find(p, n)

-----------------------------------------------------------------------------
Recount(kept) == MapThenSumSet(LAMBDA n : kept[n], nodes)

(* The files and their indexes stay; fastcache_add counts the slots that   *)
(* are used, and makes an empty hash.                                      *)
Restart ==
    /\ Restarts
    /\ LET kept == [n \in Nodes |-> IF n \in File THEN Cardinality(Used(n)) ELSE 0]
       IN  count' = kept /\ num' = Recount(kept)
    /\ index_s' = [n \in Nodes |-> IF n \in File THEN index_s[n] ELSE [i \in Slots(n) |-> NULL]]
    /\ data' = [n \in Nodes |-> IF n \in File THEN data[n] ELSE [i \in 0..block[n] |-> NULL]]
    /\ hash' = [n \in Nodes |-> [p \in Packets |-> 0]]
    /\ pos' = [n \in Nodes |-> 0]
    /\ q' = <<>> /\ nq' = [n \in Nodes |-> <<>>]
    /\ w' = [x \in Writers |-> "idle"] /\ wp' = [x \in Writers |-> NULL]
    /\ d' = "get" /\ dp' = NULL /\ dn' = NULL
    /\ t' = [n \in Nodes |-> "get"] /\ tp' = [n \in Nodes |-> NULL] /\ ti' = [n \in Nodes |-> 0]
    /\ c' = "idle" /\ cp' = NULL /\ cn' = NULL /\ ci' = 0
    /\ UNCHANGED <<nodes, crossed>>

Next ==
    \/ \E x \in Writers : fastcache_write(x)
    \/ _fastcache_write
    \/ \E n \in Nodes : __fastcache_write(n)
    \/ ClientCalls \/ ClientGoesOn
    \/ Restart

Spec == Init /\ [][Next]_vars

-----------------------------------------------------------------------------
(* Properties                                                              *)

(* What the client reads under an index is the packet of that index,       *)
(* although slots it freed are used again beside it, unless the thread of  *)
(* the node and it moved the position of the file between the seek and the *)
(* access of the other.                                                    *)
ReadsRight == c = "read" /\ ~crossed => Read = cp

(* Packets in the hands of the thread of n that have no slot yet.          *)
InHand(n) == IF t[n] \in {"scan", "seek", "data", "index"} THEN 1 ELSE 0

(* The thread of a node that looks for a free slot finds one: the blocks   *)
(* of a node, stored and under way, are never more than its slots.         *)
SlotForEach ==
    \A n \in Nodes : Cardinality(Used(n)) + Len(nq[n]) + InHand(n) <= block[n]

(* What fn->count is for n: its slots in use and the packets dealt to it,  *)
(* but for the step the dispatcher or the client has still to count.       *)
CountOf(n) ==
    Cardinality(Used(n)) + Len(nq[n]) + InHand(n)
    - (IF d = "count" /\ dn = n THEN 1 ELSE 0) + (IF c = "count" /\ cn = n THEN 1 ELSE 0)

(* What fc->num is: what the nodes count and what waits before them.       *)
NumOf ==
    MapThenSumSet(LAMBDA n : count[n], nodes) + Len(q)
    + (IF d # "get" THEN 1 ELSE 0) + Cardinality({x \in Writers : w[x] = "put"})
    + (IF c = "num" THEN 1 ELSE 0)

(* Everything stays in its range; both counts are exact between the steps  *)
(* of all threads; and writers that test num together pass together, one   *)
(* block too many for each of the other writers but never more.            *)
CountsRight ==
    /\ TypeOK
    /\ \A n \in Nodes : count[n] = CountOf(n)
    /\ num = NumOf
    /\ num <= max + Cardinality(Writers) - 1
=============================================================================
