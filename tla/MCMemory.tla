------------------------------- MODULE MCMemory -------------------------------
(***************************************************************************)
(* Blocks of memory and of cached packets, side by side: a behaviour is    *)
(* about one of them (what), the other stands still.                       *)
(*   "lib"        the module this one extends: two threads and three       *)
(*                blocks on two leaf pages under one root; of the three    *)
(*                pointers one points to blocks that are resized;          *)
(*   "fastcache"  two packets, two writers, and any of two nodes of one    *)
(*                level: memory with one slot and a file with two.         *)
(***************************************************************************)
EXTENDS Lib, TLC

CONSTANTS a1, a2, a3,                   \* the blocks
          m, f,                         \* the nodes of the fast cache
          Nodes, File, Packets, Writers, Restarts

VARIABLES what,
          nodes, num, q, w, wp, d, dp, dn, nq, count,           \* of FastCache
          index_s, data, hash, pos, t, tp, ti, c, cp, cn, ci, crossed

fastcacheVars == <<nodes, num, q, w, wp, d, dp, dn, nq, count, index_s, data, hash, pos,
                   t, tp, ti, c, cp, cn, ci, crossed>>
allVars == <<what, vars, fastcacheVars>>

MCPath == [a \in {a1, a2, a3} |-> IF a = a1 THEN <<0, 1>> ELSE <<0, 2>>]
MCblock == m :> 1 @@ f :> 2
MClevel == [n \in Nodes |-> 1]

F == INSTANCE FastCache WITH block <- MCblock, level <- MClevel

ASSUME F!FastCacheAssumption

(* A behaviour is about one part, so the packets and the writers can have  *)
(* the names of the threads and of the pointers that are shared.           *)
ASSUME Packets = Threads /\ Writers = Ref \ Private

Symmetry == Permutations(Threads) \cup Permutations(Ref \ Private)

MCInit ==
    /\ what \in {"lib", "fastcache"}
    /\ Init /\ F!Init
    /\ what = "lib" => nodes = {}

MCNext ==
    \/ what = "lib" /\ Next /\ UNCHANGED <<what, fastcacheVars>>
    \/ what = "fastcache" /\ F!Next /\ UNCHANGED <<what, vars>>

MCSpec == MCInit /\ [][MCNext]_allVars

-----------------------------------------------------------------------------

(* A client of the fast cache reads the packet of the index it asked for.  *)
ReadsRight == what = "fastcache" => F!ReadsRight

(* The thread of a node finds a free slot for every packet dealt to it.    *)
SlotForEach == what = "fastcache" => F!SlotForEach

(* The counts of the nodes and of the fast cache are right, step for step. *)
CountsRight == what = "fastcache" => F!CountsRight
=============================================================================
