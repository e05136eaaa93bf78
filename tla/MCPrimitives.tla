---------------------------- MODULE MCPrimitives ------------------------------
(***************************************************************************)
(* Two pools and an rwlock, side by side: a behaviour is about one of them *)
(* (what), the others stand still.                                         *)
(*   "join"    the module this one extends: a pool whose tasks are joined, *)
(*             with threads that run before pool_start is over and infos   *)
(*             that are cleared at once;                                   *)
(*   "detach"  such a pool whose tasks are detached or killed;             *)
(*   "rwlock"  traversals that switch a rwlock off under its users.        *)
(***************************************************************************)
EXTENDS Pool

CONSTANTS Readers, Writers, Traversers  \* threads of the rwlock

VARIABLES what,
          disable, rl, wl, rwl, rc, wc, at, off, straggled      \* of Traversal

lockVars == <<disable, rl, wl, rwl, rc, wc, at, off, straggled>>

(* The state of the pool serves both, one at a time.                       *)
Detaches == INSTANCE Pool WITH
        Controls <- {"detach", "kill", "destroy"}, TASKINFO_MAX <- 1

L == INSTANCE Traversal WITH USHORT <- 8, pc <- at

MCInit ==
    /\ what \in {"rwlock", "join", "detach"}
    /\ Init /\ L!TraversalInit

(* A pool may be destroyed, or its slots not given back; the rwlock stops  *)
(* when a reader and a writer wait for each other, and is not followed     *)
(* beyond a traversal that ends under somebody who did not lock.           *)
MayStop == UNCHANGED <<what, lockVars, vars>>

MCNext ==
    \/ what = "rwlock" /\ ~straggled /\ L!TraversalNext /\ UNCHANGED <<what, vars>>
    \/ what = "join" /\ Next /\ UNCHANGED <<what, lockVars>>
    \/ what = "detach" /\ Detaches!Next /\ started' <= 2 /\ UNCHANGED <<what, lockVars>>
    \/ MayStop

MCSpec == MCInit /\ [][MCNext]_<<what, lockVars, vars>>

-----------------------------------------------------------------------------

(* What switching the rwlock off leaves of it (disable_rwlock).            *)
OnlyStragglersBreak == what = "rwlock" => L!OnlyStragglersBreak
=============================================================================
