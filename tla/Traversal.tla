------------------------------ MODULE Traversal -------------------------------
(***************************************************************************)
(* The rwlock of lock.h with threads that run disable_rwlock inside their  *)
(* with_wlock: while one of them traverses, rlock, runlock, wlock and      *)
(* wunlock of everybody do nothing, so that its callback may call them.    *)
(* Each reads `disable' for itself, so what a thread does not lock it may  *)
(* yet unlock: `straggled' says that a traversal ended in between.         *)
(***************************************************************************)
EXTENDS RWLock

VARIABLES off,          \* history: who is in a body and did not lock for it
          straggled     \* history: a traversal ended under one of them

traversalVars == <<vars, off, straggled>>

disable_rwlock_on(t) ==
    /\ t \in Traversers
    /\ Goto(t, "writing", "each")
    /\ disable' = 1
    /\ UNCHANGED <<rl, wl, rwl, rc, wc>>

disable_rwlock_off(t) ==
    /\ Goto(t, "each", "each_done")
    /\ disable' = 0
    /\ UNCHANGED <<rl, wl, rwl, rc, wc>>

disable_rwlock(t) == disable_rwlock_on(t) \/ disable_rwlock_off(t)

Inside(t) == InRead(t) \/ InWrite(t)

TraversalInit == Init /\ off = {} /\ straggled = FALSE

TraversalNext ==
    /\ Next \/ \E t \in Threads : disable_rwlock(t)
    /\ off' = {t \in Threads : Inside(t)' /\ (t \in off \/ pc[t] = "idle")}
    /\ straggled' = (straggled \/ (disable = 1 /\ disable' = 0 /\ off # {}))

TraversalSpec == TraversalInit /\ [][TraversalNext]_traversalVars

-----------------------------------------------------------------------------
(* Switching the lock off costs nothing but the exclusion of those who do  *)
(* not lock, until a traversal ends while one of them is inside: before    *)
(* that, the threads that locked exclude each other, each unlocks what it  *)
(* locked, and the counters are exact about them, whoever came and went    *)
(* while the lock was off (disable_rwlock around the each of dict.c).  A   *)
(* straggler then unlocks what it never locked, and none of it holds.      *)
OnlyStragglersBreak ==
    ~straggled =>
        /\ \A t, u \in Threads \ off : t # u /\ InWrite(t) => ~InRead(u) /\ ~InWrite(u)
        /\ rc = Cardinality(RCounted \ off)
        /\ wc = Cardinality((WCounted \cup {t \in Threads : InWrite(t)}) \ off)
=============================================================================
