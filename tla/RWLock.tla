------------------------------- MODULE RWLock -------------------------------
(***************************************************************************)
(* The reader-writer lock of lock.h: the macros rlock, runlock, wlock and  *)
(* wunlock over one struct rwlock, run by any number of threads.  One step *)
(* of a thread is one atomic access to the struct: a successful            *)
(* compare-and-swap of a byte lock, a release, a fetch-and-add or a read of*)
(* `disable'.  A failing compare-and-swap followed by sched_yield changes  *)
(* nothing and is a stuttering step.                                       *)
(*                                                                         *)
(* A thread that runs with_rlock is in its body at pc = "reading", one     *)
(* that runs with_wlock at "writing", and one that runs with_wlock(l,      *)
(* disable_rwlock(l, body)), as the traversals of dict.c do, at "each": see*)
(* the module Traversal for disable_rwlock itself.                         *)
(***************************************************************************)
EXTENDS Integers, FiniteSets

CONSTANTS Readers,      \* threads that run with_rlock
          Writers,      \* threads that run with_wlock
          Traversers,   \* threads that run with_wlock(disable_rwlock)
          USHORT        \* rc and wc are unsigned short, modulo this (2^16)

Threads == Readers \cup Writers \cup Traversers

ASSUME ThreadsAssumption ==
    /\ IsFiniteSet(Threads)
    /\ USHORT \in Nat \ {0, 1}
    /\ Cardinality(Threads) < USHORT

VARIABLES disable, rl, wl, rwl, rc, wc, pc

vars == <<disable, rl, wl, rwl, rc, wc, pc>>

PCs == {"idle",
        "r_rl", "r_inc", "r_rwl", "r_unl", "reading",
        "ru_rl", "ru_dec", "ru_rwl", "ru_unl",
        "w_wl", "w_inc", "w_rl", "w_unl", "w_rwl", "writing",
        "each", "each_done",
        "wu_rwl", "wu_wl", "wu_dec", "wu_rl", "wu_unl"}

TypeOK ==
    /\ disable \in {0, 1}
    /\ rl \in {0, 1} /\ wl \in {0, 1} /\ rwl \in {0, 1}
    /\ rc \in 0..(USHORT - 1) /\ wc \in 0..(USHORT - 1)
    /\ pc \in [Threads -> PCs]

Init ==
    /\ disable = 0
    /\ rl = 0 /\ wl = 0 /\ rwl = 0
    /\ rc = 0 /\ wc = 0
    /\ pc = [t \in Threads |-> "idle"]

Goto(t, from, to) == pc[t] = from /\ pc' = [pc EXCEPT ![t] = to]

-----------------------------------------------------------------------------
(* rlock: the first reader in also takes rwl, while it holds rl.           *)
rlock_enter(t) ==
    /\ t \in Readers
    /\ Goto(t, "idle", IF disable = 0 THEN "r_rl" ELSE "reading")
    /\ UNCHANGED <<disable, rl, wl, rwl, rc, wc>>
rlock_lock_rl(t) ==
    /\ Goto(t, "r_rl", "r_inc")
    /\ rl = 0 /\ rl' = 1
    /\ UNCHANGED <<disable, wl, rwl, rc, wc>>

rlock_count(t) ==
    /\ Goto(t, "r_inc", IF rc = 0 THEN "r_rwl" ELSE "r_unl")
    /\ rc' = (rc + 1) % USHORT
    /\ UNCHANGED <<disable, rl, wl, rwl, wc>>

rlock_lock_rwl(t) ==
    /\ Goto(t, "r_rwl", "r_unl")
    /\ rwl = 0 /\ rwl' = 1
    /\ UNCHANGED <<disable, rl, wl, rc, wc>>

rlock_unlock_rl(t) ==
    /\ Goto(t, "r_unl", "reading")
    /\ rl' = 0
    /\ UNCHANGED <<disable, wl, rwl, rc, wc>>

(* runlock: the last reader out releases rwl.                              *)

(* Mutant: no test of `disable'.                                           *)
runlock_enter_NoTest(t) ==
    /\ Goto(t, "reading", "ru_rl")
    /\ UNCHANGED <<disable, rl, wl, rwl, rc, wc>>

runlock_enter(t) ==
    /\ Goto(t, "reading", IF disable = 0 THEN "ru_rl" ELSE "idle")
    /\ UNCHANGED <<disable, rl, wl, rwl, rc, wc>>

runlock_lock_rl(t) ==
    /\ Goto(t, "ru_rl", "ru_dec")
    /\ rl = 0 /\ rl' = 1
    /\ UNCHANGED <<disable, wl, rwl, rc, wc>>
runlock_count(t) ==
    /\ Goto(t, "ru_dec", IF rc = 1 THEN "ru_rwl" ELSE "ru_unl")
    /\ rc' = (rc - 1) % USHORT
    /\ UNCHANGED <<disable, rl, wl, rwl, wc>>

runlock_unlock_rwl(t) ==
    /\ Goto(t, "ru_rwl", "ru_unl")
    /\ rwl' = 0
    /\ UNCHANGED <<disable, rl, wl, rc, wc>>

runlock_unlock_rl(t) ==
    /\ Goto(t, "ru_unl", "idle")
    /\ rl' = 0
    /\ UNCHANGED <<disable, wl, rwl, rc, wc>>

-----------------------------------------------------------------------------
(* wlock: the first writer in takes rl, which keeps new readers out; every *)
(* writer then takes rwl.                                                  *)

wlock_enter(t) ==
    /\ t \in Writers \cup Traversers
    /\ Goto(t, "idle", IF disable = 0 THEN "w_wl" ELSE "writing")
    /\ UNCHANGED <<disable, rl, wl, rwl, rc, wc>>

wlock_lock_wl(t) ==
    /\ Goto(t, "w_wl", "w_inc")
    /\ wl = 0 /\ wl' = 1
    /\ UNCHANGED <<disable, rl, rwl, rc, wc>>

wlock_count(t) ==
    /\ Goto(t, "w_inc", IF wc = 0 THEN "w_rl" ELSE "w_unl")
    /\ wc' = (wc + 1) % USHORT
    /\ UNCHANGED <<disable, rl, wl, rwl, rc>>

wlock_lock_rl(t) ==
    /\ Goto(t, "w_rl", "w_unl")
    /\ rl = 0 /\ rl' = 1
    /\ UNCHANGED <<disable, wl, rwl, rc, wc>>

wlock_unlock_wl(t) ==
    /\ Goto(t, "w_unl", "w_rwl")
    /\ wl' = 0
    /\ UNCHANGED <<disable, rl, rwl, rc, wc>>
(* Mutant: rwl taken without testing it.                                   *)
wlock_lock_rwl_NoTest(t) ==
    /\ Goto(t, "w_rwl", "writing")
    /\ rwl' = 1
    /\ UNCHANGED <<disable, rl, wl, rc, wc>>

wlock_lock_rwl(t) ==
    /\ Goto(t, "w_rwl", "writing")
    /\ rwl = 0 /\ rwl' = 1
    /\ UNCHANGED <<disable, rl, wl, rc, wc>>

(* wunlock: rwl first, then the last writer out gives rl back.             *)

wunlock_enter(t) ==
    /\ \/ t \in Writers /\ pc[t] = "writing"
       \/ pc[t] = "each_done"
    /\ Goto(t, pc[t], IF disable = 0 THEN "wu_rwl" ELSE "idle")
    /\ UNCHANGED <<disable, rl, wl, rwl, rc, wc>>
(* Mutant: rwl not released.                                               *)
wunlock_unlock_rwl_Kept(t) ==
    /\ Goto(t, "wu_rwl", "wu_wl")
    /\ UNCHANGED <<disable, rl, wl, rwl, rc, wc>>

wunlock_unlock_rwl(t) ==
    /\ Goto(t, "wu_rwl", "wu_wl")
    /\ rwl' = 0
    /\ UNCHANGED <<disable, rl, wl, rc, wc>>

wunlock_lock_wl(t) ==
    /\ Goto(t, "wu_wl", "wu_dec")
    /\ wl = 0 /\ wl' = 1
    /\ UNCHANGED <<disable, rl, rwl, rc, wc>>
(* Mutant: the last writer does not count itself out.                      *)
wunlock_count_NotLast(t) ==
    /\ Goto(t, "wu_dec", IF wc = 1 THEN "wu_rl" ELSE "wu_unl")
    /\ wc' = IF wc = 1 THEN wc ELSE (wc - 1) % USHORT
    /\ UNCHANGED <<disable, rl, wl, rwl, rc>>

wunlock_count(t) ==
    /\ Goto(t, "wu_dec", IF wc = 1 THEN "wu_rl" ELSE "wu_unl")
    /\ wc' = (wc - 1) % USHORT
    /\ UNCHANGED <<disable, rl, wl, rwl, rc>>
(* Mutant: rl not given back.                                             *)
wunlock_unlock_rl_Kept(t) ==
    /\ Goto(t, "wu_rl", "wu_unl")
    /\ UNCHANGED <<disable, rl, wl, rwl, rc, wc>>

wunlock_unlock_rl(t) ==
    /\ Goto(t, "wu_rl", "wu_unl")
    /\ rl' = 0
    /\ UNCHANGED <<disable, wl, rwl, rc, wc>>

wunlock_unlock_wl(t) ==
    /\ Goto(t, "wu_unl", "idle")
    /\ wl' = 0
    /\ UNCHANGED <<disable, rl, rwl, rc, wc>>

-----------------------------------------------------------------------------

rlock(t) ==
    \/ rlock_enter(t) \/ rlock_lock_rl(t) \/ rlock_count(t)
    \/ rlock_lock_rwl(t) \/ rlock_unlock_rl(t)

runlock(t) ==
    \/ runlock_enter(t) \/ runlock_lock_rl(t) \/ runlock_count(t)
    \/ runlock_unlock_rwl(t) \/ runlock_unlock_rl(t)

wlock(t) ==
    \/ wlock_enter(t) \/ wlock_lock_wl(t) \/ wlock_count(t)
    \/ wlock_lock_rl(t) \/ wlock_unlock_wl(t) \/ wlock_lock_rwl(t)

wunlock(t) ==
    \/ wunlock_enter(t) \/ wunlock_unlock_rwl(t) \/ wunlock_lock_wl(t)
    \/ wunlock_count(t) \/ wunlock_unlock_rl(t) \/ wunlock_unlock_wl(t)

Step(t) == rlock(t) \/ runlock(t) \/ wlock(t) \/ wunlock(t)

Next == \E t \in Threads : Step(t)

Spec == Init /\ [][Next]_vars

(* Each thread is scheduled again and again, and nothing more: a spinning  *)
(* thread may lose every race for a byte lock.                             *)
FairSpec == Spec /\ \A t \in Threads : WF_vars(Step(t))

-----------------------------------------------------------------------------
(* Properties                                                              *)

InRead(t) == pc[t] = "reading"
InWrite(t) == pc[t] \in {"writing", "each", "each_done"}

(* While one thread runs the body of with_wlock, no other thread runs the  *)
(* body of with_wlock or with_rlock on the same lock (lock.h, rwlock).     *)
MutualExclusion ==
    \A t, u \in Threads :
        t # u /\ InWrite(t) => ~InRead(u) /\ ~InWrite(u)

RCounted == {t \in Threads :
                pc[t] \in {"r_rwl", "r_unl", "reading", "ru_rl", "ru_dec"}}

WCounted == {t \in Threads :
                pc[t] \in {"w_rl", "w_unl", "w_rwl", "writing",
                          "wu_rwl", "wu_wl", "wu_dec"}}

(* The unsigned short counters rc and wc never drift from the number of    *)
(* threads between their fetch-and-add and their fetch-and-sub: they do    *)
(* not wrap, and "first in" and "last out" are decided correctly.          *)
CountsExact == rc = Cardinality(RCounted) /\ wc = Cardinality(WCounted)

Blocked(t) ==
    \/ pc[t] \in {"r_rl", "ru_rl", "w_rl"} /\ rl = 1
    \/ pc[t] \in {"r_rwl", "w_rwl"} /\ rwl = 1
    \/ pc[t] \in {"w_wl", "wu_wl"} /\ wl = 1

Overlap == \E r, w \in Threads : pc[r] = "ru_rl" /\ pc[w] = "w_rwl"

(* When every thread spins for ever, a reader inside wants rl to leave and *)
(* a writer that owns rl wants rwl: no other combination of rlock, runlock,*)
(* wlock and wunlock can stop the whole system.                            *)
StuckOnlyByOverlap ==
    (\A t \in Threads : Blocked(t)) => Overlap

(* Some thread enters a body again and again, whoever wins the races for   *)
(* the byte locks, or the system ends in the overlap above: the lock stops *)
(* in no other way and is not lost.                                        *)
SomeoneEnters == []<>(\E t \in Threads : InRead(t) \/ InWrite(t)) \/ <>[]Overlap

-----------------------------------------------------------------------------
(* The inductive invariant: who holds which byte lock.  wl is held by one  *)
(* thread; rl by one reader inside rlock/runlock or by the writers between *)
(* the first one's lock and the last one's unlock; rwl by one writer or by *)
(* the readers between the first one's lock and the last one's unlock.     *)

HoldsWl == {t \in Threads : pc[t] \in {"w_inc", "w_rl", "w_unl",
                                       "wu_dec", "wu_rl", "wu_unl"}}
ReaderHoldsRl == {t \in Threads : pc[t] \in {"r_inc", "r_rwl", "r_unl",
                                             "ru_dec", "ru_rwl", "ru_unl"}}
WriterOwnsRl == {t \in Threads : pc[t] \in {"w_unl", "w_rwl", "writing", "wu_rwl",
                                            "wu_wl", "wu_dec", "wu_rl"}}
WriterHoldsRwl == {t \in Threads : pc[t] \in {"writing", "wu_rwl"}}
ReaderOwnsRwl == {t \in Threads : pc[t] \in {"r_unl", "reading", "ru_rl",
                                             "ru_dec", "ru_rwl"}}

WlInv == \A t, u \in HoldsWl : wl = 1 /\ t = u

RlInv ==
    /\ \A t, u \in ReaderHoldsRl : rl = 1 /\ t = u
    /\ \A t \in WriterOwnsRl : rl = 1 /\ ReaderHoldsRl = {}

RwlInv ==
    /\ \A t, u \in WriterHoldsRwl : rwl = 1 /\ t = u
    /\ \A t \in ReaderOwnsRwl : rwl = 1 /\ WriterHoldsRwl = {}

FirstLastInv ==
    \A t \in Threads :
        /\ pc[t] = "r_rwl" => RCounted = {t}
        /\ pc[t] = "ru_rwl" => RCounted = {}
        /\ pc[t] = "w_rl" => WCounted = {t}
        /\ pc[t] = "wu_rl" => WCounted = {}

NoTraversal == disable = 0 /\ \A t \in Threads : pc[t] \notin {"each", "each_done"}

LockInv ==
    /\ TypeOK /\ NoTraversal /\ CountsExact
    /\ WlInv /\ RlInv /\ RwlInv /\ FirstLastInv
=============================================================================
