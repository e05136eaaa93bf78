---------------------------- MODULE RWLockProofs ----------------------------
(***************************************************************************)
(* Proofs about RWLock: as long as nobody runs disable_rwlock (`disable'   *)
(* stays 0), LockInv is inductive, and it implies the mutual exclusion of  *)
(* the lock and the exactness of its counters, for every finite set of     *)
(* readers and writers.                                                    *)
(***************************************************************************)
EXTENDS RWLock, FiniteSetTheorems, TLAPS

(* Every set of threads is finite and its cardinality is below the modulus *)
(* of the counters.                                                        *)
LEMMA CountBound ==
    ASSUME NEW S \in SUBSET Threads
    PROVE  IsFiniteSet(S) /\ Cardinality(S) \in 0..(USHORT - 1)
  BY ThreadsAssumption, FS_Subset, FS_CardinalityType

(* Counting one more thread: what __sync_fetch_and_add(&rc, 1) relies on.  *)
LEMMA CountIn ==
    ASSUME NEW S \in SUBSET Threads, NEW t \in Threads \ S
    PROVE  Cardinality(S \cup {t}) = (Cardinality(S) + 1) % USHORT
<1>1. S \cup {t} \in SUBSET Threads
  OBVIOUS
<1>2. Cardinality(S \cup {t}) = Cardinality(S) + 1
  BY CountBound, FS_AddElement
<1>3. Cardinality(S) \in Nat /\ Cardinality(S) + 1 < USHORT
  BY <1>1, <1>2, CountBound, ThreadsAssumption
<1> QED
  BY <1>2, <1>3, ThreadsAssumption

(* Counting one thread less: what __sync_fetch_and_sub(&rc, 1) relies on.  *)
LEMMA CountOut ==
    ASSUME NEW S \in SUBSET Threads, NEW t \in S
    PROVE  /\ Cardinality(S \ {t}) = (Cardinality(S) - 1) % USHORT
           /\ Cardinality(S) = 1 => S = {t}
           /\ Cardinality(S) # 0
<1>1. Cardinality(S \ {t}) = Cardinality(S) - 1
  BY CountBound, FS_RemoveElement
<1>2. Cardinality(S) \in 0..(USHORT - 1) /\ Cardinality(S \ {t}) \in 0..(USHORT - 1)
  BY CountBound
<1>3. Cardinality(S) = 1 => S \ {t} = {}
  BY <1>1, CountBound, FS_EmptySet
<1> QED
  BY <1>1, <1>2, <1>3, ThreadsAssumption

(* Nobody is counted exactly when the counter is 0.                        *)
LEMMA CountZero ==
    ASSUME NEW S \in SUBSET Threads
    PROVE  Cardinality(S) = 0 <=> S = {}
  BY CountBound, FS_EmptySet

(* The initial state satisfies the invariant.                              *)
LEMMA LockInvInit == Init => LockInv
<1> SUFFICES ASSUME Init PROVE LockInv
  OBVIOUS
<1>1. RCounted = {} /\ WCounted = {} /\ HoldsWl = {} /\ ReaderHoldsRl = {}
      /\ WriterOwnsRl = {} /\ WriterHoldsRwl = {} /\ ReaderOwnsRwl = {}
  BY DEF Init, RCounted, WCounted, HoldsWl, ReaderHoldsRl, WriterOwnsRl,
         WriterHoldsRwl, ReaderOwnsRwl
<1>2. TypeOK /\ NoTraversal
  BY ThreadsAssumption DEF Init, TypeOK, NoTraversal, PCs
<1>3. CountsExact
  BY <1>1, FS_EmptySet DEF Init, CountsExact
<1>4. WlInv /\ RlInv /\ RwlInv /\ FirstLastInv
  BY <1>1 DEF Init, WlInv, RlInv, RwlInv, FirstLastInv
<1> QED
  BY <1>2, <1>3, <1>4 DEF LockInv



(* Entering as a reader, step by step of the macro rlock, preserves the invariant. *)
LEMMA rlock_Inv ==
    ASSUME LockInv, NEW t \in Threads, rlock(t)
    PROVE  LockInv'
<1> USE DEF LockInv, Goto
<1>1. CASE rlock_enter(t)
  <2> USE <1>1 DEF rlock_enter
  <2>1. TypeOK' /\ NoTraversal'
    BY ThreadsAssumption DEF TypeOK, NoTraversal, PCs
  <2>2. RCounted' = RCounted /\ WCounted' = WCounted
    BY DEF TypeOK, NoTraversal, PCs, RCounted, WCounted
  <2>3. WlInv' /\ RlInv' /\ RwlInv'
    BY DEF NoTraversal, TypeOK, PCs, WlInv, RlInv, RwlInv, HoldsWl, ReaderHoldsRl,
             WriterOwnsRl, WriterHoldsRwl, ReaderOwnsRwl
  <2>4. FirstLastInv'
    BY <2>2 DEF TypeOK, PCs, NoTraversal, FirstLastInv
  <2> QED
    BY <2>1, <2>2, <2>3, <2>4 DEF CountsExact
<1>2. CASE rlock_lock_rl(t)
  <2> USE <1>2 DEF rlock_lock_rl
  <2>1. TypeOK' /\ NoTraversal'
    BY ThreadsAssumption DEF TypeOK, NoTraversal, PCs
  <2>2. RCounted' = RCounted /\ WCounted' = WCounted
    BY DEF TypeOK, NoTraversal, PCs, RCounted, WCounted
  <2>3. WlInv' /\ RlInv' /\ RwlInv'
    BY DEF TypeOK, PCs, WlInv, RlInv, RwlInv, HoldsWl, ReaderHoldsRl,
             WriterOwnsRl, WriterHoldsRwl, ReaderOwnsRwl
  <2>4. FirstLastInv'
    BY <2>2 DEF TypeOK, PCs, FirstLastInv
  <2> QED
    BY <2>1, <2>2, <2>3, <2>4 DEF CountsExact
<1>3. CASE rlock_count(t)
  <2> USE <1>3 DEF rlock_count
  <2>1. TypeOK' /\ NoTraversal'
    BY ThreadsAssumption DEF TypeOK, NoTraversal, PCs
  <2>2. RCounted' = RCounted \cup {t} /\ t \notin RCounted /\ WCounted' = WCounted
    BY DEF TypeOK, PCs, RCounted, WCounted
  <2>3. RCounted \in SUBSET Threads
    BY DEF RCounted
  <2>4. CountsExact'
    BY <2>2, <2>3, CountIn DEF CountsExact
  <2>5. rc = 0 <=> RCounted = {}
    BY <2>3, CountZero DEF CountsExact
  <2>6. WlInv' /\ RlInv' /\ RwlInv'
    BY <2>2, <2>5 DEF RCounted, FirstLastInv, TypeOK, PCs, WlInv, RlInv, RwlInv, HoldsWl, ReaderHoldsRl,
             WriterOwnsRl, WriterHoldsRwl, ReaderOwnsRwl
  <2>7. FirstLastInv'
    BY <2>2, <2>5 DEF TypeOK, PCs, FirstLastInv, RlInv, ReaderHoldsRl
  <2> QED
    BY <2>1, <2>4, <2>6, <2>7
<1>4. CASE rlock_lock_rwl(t)
  <2> USE <1>4 DEF rlock_lock_rwl
  <2>1. TypeOK' /\ NoTraversal'
    BY ThreadsAssumption DEF TypeOK, NoTraversal, PCs
  <2>2. RCounted' = RCounted /\ WCounted' = WCounted
    BY DEF TypeOK, NoTraversal, PCs, RCounted, WCounted
  <2>3. WlInv' /\ RlInv' /\ RwlInv'
    BY DEF FirstLastInv, TypeOK, PCs, WlInv, RlInv, RwlInv, HoldsWl, ReaderHoldsRl,
             WriterOwnsRl, WriterHoldsRwl, ReaderOwnsRwl, RCounted
  <2>4. FirstLastInv'
    BY <2>2 DEF TypeOK, PCs, FirstLastInv
  <2> QED
    BY <2>1, <2>2, <2>3, <2>4 DEF CountsExact
<1>5. CASE rlock_unlock_rl(t)
  <2> USE <1>5 DEF rlock_unlock_rl
  <2>1. TypeOK' /\ NoTraversal'
    BY ThreadsAssumption DEF TypeOK, NoTraversal, PCs
  <2>2. RCounted' = RCounted /\ WCounted' = WCounted
    BY DEF TypeOK, NoTraversal, PCs, RCounted, WCounted
  <2>3. WlInv' /\ RlInv' /\ RwlInv'
    BY DEF TypeOK, PCs, WlInv, RlInv, RwlInv, HoldsWl, ReaderHoldsRl,
             WriterOwnsRl, WriterHoldsRwl, ReaderOwnsRwl
  <2>4. FirstLastInv'
    BY <2>2 DEF TypeOK, PCs, FirstLastInv
  <2> QED
    BY <2>1, <2>2, <2>3, <2>4 DEF CountsExact
<1> QED
  BY <1>1, <1>2, <1>3, <1>4, <1>5 DEF rlock

(* Leaving as a reader, step by step of the macro runlock, preserves the invariant. *)
LEMMA runlock_Inv ==
    ASSUME LockInv, NEW t \in Threads, runlock(t)
    PROVE  LockInv'
<1> USE DEF LockInv, Goto
<1>1. CASE runlock_enter(t)
  <2> USE <1>1 DEF runlock_enter
  <2>1. TypeOK' /\ NoTraversal'
    BY ThreadsAssumption DEF TypeOK, NoTraversal, PCs
  <2>2. RCounted' = RCounted /\ WCounted' = WCounted
    BY DEF TypeOK, NoTraversal, PCs, RCounted, WCounted
  <2>3. WlInv' /\ RlInv' /\ RwlInv'
    BY DEF NoTraversal, TypeOK, PCs, WlInv, RlInv, RwlInv, HoldsWl, ReaderHoldsRl,
             WriterOwnsRl, WriterHoldsRwl, ReaderOwnsRwl
  <2>4. FirstLastInv'
    BY <2>2 DEF TypeOK, PCs, NoTraversal, FirstLastInv
  <2> QED
    BY <2>1, <2>2, <2>3, <2>4 DEF CountsExact
<1>2. CASE runlock_lock_rl(t)
  <2> USE <1>2 DEF runlock_lock_rl
  <2>1. TypeOK' /\ NoTraversal'
    BY ThreadsAssumption DEF TypeOK, NoTraversal, PCs
  <2>2. RCounted' = RCounted /\ WCounted' = WCounted
    BY DEF TypeOK, NoTraversal, PCs, RCounted, WCounted
  <2>3. WlInv' /\ RlInv' /\ RwlInv'
    BY DEF TypeOK, PCs, WlInv, RlInv, RwlInv, HoldsWl, ReaderHoldsRl,
             WriterOwnsRl, WriterHoldsRwl, ReaderOwnsRwl
  <2>4. FirstLastInv'
    BY <2>2 DEF TypeOK, PCs, FirstLastInv
  <2> QED
    BY <2>1, <2>2, <2>3, <2>4 DEF CountsExact
<1>3. CASE runlock_count(t)
  <2> USE <1>3 DEF runlock_count
  <2>1. TypeOK' /\ NoTraversal'
    BY ThreadsAssumption DEF TypeOK, NoTraversal, PCs
  <2>2. RCounted' = RCounted \ {t} /\ t \in RCounted /\ WCounted' = WCounted
    BY DEF TypeOK, PCs, RCounted, WCounted
  <2>3. RCounted \in SUBSET Threads
    BY DEF RCounted
  <2>4. CountsExact'
    BY <2>2, <2>3, CountOut DEF CountsExact
  <2>5. rc = 1 => RCounted = {t}
    BY <2>2, <2>3, CountOut DEF CountsExact
  <2>6. WlInv' /\ RlInv' /\ RwlInv'
    BY <2>2, <2>5 DEF RCounted, FirstLastInv, TypeOK, PCs, WlInv, RlInv, RwlInv, HoldsWl, ReaderHoldsRl,
             WriterOwnsRl, WriterHoldsRwl, ReaderOwnsRwl
  <2>7. FirstLastInv'
    BY <2>2, <2>5 DEF TypeOK, PCs, FirstLastInv, RlInv, ReaderHoldsRl
  <2> QED
    BY <2>1, <2>4, <2>6, <2>7
<1>4. CASE runlock_unlock_rwl(t)
  <2> USE <1>4 DEF runlock_unlock_rwl
  <2>1. TypeOK' /\ NoTraversal'
    BY ThreadsAssumption DEF TypeOK, NoTraversal, PCs
  <2>2. RCounted' = RCounted /\ WCounted' = WCounted
    BY DEF TypeOK, NoTraversal, PCs, RCounted, WCounted
  <2>3. WlInv' /\ RlInv' /\ RwlInv'
    BY DEF FirstLastInv, TypeOK, PCs, WlInv, RlInv, RwlInv, HoldsWl, ReaderHoldsRl,
             WriterOwnsRl, WriterHoldsRwl, ReaderOwnsRwl, RCounted
  <2>4. FirstLastInv'
    BY <2>2 DEF TypeOK, PCs, FirstLastInv
  <2> QED
    BY <2>1, <2>2, <2>3, <2>4 DEF CountsExact
<1>5. CASE runlock_unlock_rl(t)
  <2> USE <1>5 DEF runlock_unlock_rl
  <2>1. TypeOK' /\ NoTraversal'
    BY ThreadsAssumption DEF TypeOK, NoTraversal, PCs
  <2>2. RCounted' = RCounted /\ WCounted' = WCounted
    BY DEF TypeOK, NoTraversal, PCs, RCounted, WCounted
  <2>3. WlInv' /\ RlInv' /\ RwlInv'
    BY DEF TypeOK, PCs, WlInv, RlInv, RwlInv, HoldsWl, ReaderHoldsRl,
             WriterOwnsRl, WriterHoldsRwl, ReaderOwnsRwl
  <2>4. FirstLastInv'
    BY <2>2 DEF TypeOK, PCs, FirstLastInv
  <2> QED
    BY <2>1, <2>2, <2>3, <2>4 DEF CountsExact
<1> QED
  BY <1>1, <1>2, <1>3, <1>4, <1>5 DEF runlock

(* Entering as a writer, step by step of the macro wlock, preserves the invariant. *)
LEMMA wlock_Inv ==
    ASSUME LockInv, NEW t \in Threads, wlock(t)
    PROVE  LockInv'
<1> USE DEF LockInv, Goto
<1>1. CASE wlock_enter(t)
  <2> USE <1>1 DEF wlock_enter
  <2>1. TypeOK' /\ NoTraversal'
    BY ThreadsAssumption DEF TypeOK, NoTraversal, PCs
  <2>2. RCounted' = RCounted /\ WCounted' = WCounted
    BY DEF TypeOK, NoTraversal, PCs, RCounted, WCounted
  <2>3. WlInv' /\ RlInv' /\ RwlInv'
    BY DEF NoTraversal, TypeOK, PCs, WlInv, RlInv, RwlInv, HoldsWl, ReaderHoldsRl,
             WriterOwnsRl, WriterHoldsRwl, ReaderOwnsRwl
  <2>4. FirstLastInv'
    BY <2>2 DEF TypeOK, PCs, NoTraversal, FirstLastInv
  <2> QED
    BY <2>1, <2>2, <2>3, <2>4 DEF CountsExact
<1>2. CASE wlock_lock_wl(t)
  <2> USE <1>2 DEF wlock_lock_wl
  <2>1. TypeOK' /\ NoTraversal'
    BY ThreadsAssumption DEF TypeOK, NoTraversal, PCs
  <2>2. RCounted' = RCounted /\ WCounted' = WCounted
    BY DEF TypeOK, NoTraversal, PCs, RCounted, WCounted
  <2>3. WlInv' /\ RlInv' /\ RwlInv'
    BY DEF TypeOK, PCs, WlInv, RlInv, RwlInv, HoldsWl, ReaderHoldsRl,
             WriterOwnsRl, WriterHoldsRwl, ReaderOwnsRwl
  <2>4. FirstLastInv'
    BY <2>2 DEF TypeOK, PCs, FirstLastInv
  <2> QED
    BY <2>1, <2>2, <2>3, <2>4 DEF CountsExact
<1>3. CASE wlock_count(t)
  <2> USE <1>3 DEF wlock_count
  <2>1. TypeOK' /\ NoTraversal'
    BY ThreadsAssumption DEF TypeOK, NoTraversal, PCs
  <2>2. WCounted' = WCounted \cup {t} /\ t \notin WCounted /\ RCounted' = RCounted
    BY DEF TypeOK, PCs, RCounted, WCounted
  <2>3. WCounted \in SUBSET Threads
    BY DEF WCounted
  <2>4. CountsExact'
    BY <2>2, <2>3, CountIn DEF CountsExact
  <2>5. wc = 0 <=> WCounted = {}
    BY <2>3, CountZero DEF CountsExact
  <2>6. WlInv' /\ RlInv' /\ RwlInv'
    BY <2>2, <2>5 DEF WCounted, FirstLastInv, TypeOK, PCs, WlInv, RlInv, RwlInv, HoldsWl, ReaderHoldsRl,
             WriterOwnsRl, WriterHoldsRwl, ReaderOwnsRwl
  <2>7. FirstLastInv'
    BY <2>2, <2>5 DEF TypeOK, PCs, FirstLastInv, WlInv, HoldsWl
  <2> QED
    BY <2>1, <2>4, <2>6, <2>7
<1>4. CASE wlock_lock_rl(t)
  <2> USE <1>4 DEF wlock_lock_rl
  <2>1. TypeOK' /\ NoTraversal'
    BY ThreadsAssumption DEF TypeOK, NoTraversal, PCs
  <2>2. RCounted' = RCounted /\ WCounted' = WCounted
    BY DEF TypeOK, NoTraversal, PCs, RCounted, WCounted
  <2>3. WlInv' /\ RlInv' /\ RwlInv'
    BY DEF FirstLastInv, TypeOK, PCs, WlInv, RlInv, RwlInv, HoldsWl, ReaderHoldsRl,
             WriterOwnsRl, WriterHoldsRwl, ReaderOwnsRwl, WCounted
  <2>4. FirstLastInv'
    BY <2>2 DEF TypeOK, PCs, FirstLastInv
  <2> QED
    BY <2>1, <2>2, <2>3, <2>4 DEF CountsExact
<1>5. CASE wlock_unlock_wl(t)
  <2> USE <1>5 DEF wlock_unlock_wl
  <2>1. TypeOK' /\ NoTraversal'
    BY ThreadsAssumption DEF TypeOK, NoTraversal, PCs
  <2>2. RCounted' = RCounted /\ WCounted' = WCounted
    BY DEF TypeOK, NoTraversal, PCs, RCounted, WCounted
  <2>3. WlInv' /\ RlInv' /\ RwlInv'
    BY DEF TypeOK, PCs, WlInv, RlInv, RwlInv, HoldsWl, ReaderHoldsRl,
             WriterOwnsRl, WriterHoldsRwl, ReaderOwnsRwl
  <2>4. FirstLastInv'
    BY <2>2 DEF TypeOK, PCs, FirstLastInv
  <2> QED
    BY <2>1, <2>2, <2>3, <2>4 DEF CountsExact
<1>6. CASE wlock_lock_rwl(t)
  <2> USE <1>6 DEF wlock_lock_rwl
  <2>1. TypeOK' /\ NoTraversal'
    BY ThreadsAssumption DEF TypeOK, NoTraversal, PCs
  <2>2. RCounted' = RCounted /\ WCounted' = WCounted
    BY DEF TypeOK, NoTraversal, PCs, RCounted, WCounted
  <2>3. WlInv' /\ RlInv' /\ RwlInv'
    BY DEF TypeOK, PCs, WlInv, RlInv, RwlInv, HoldsWl, ReaderHoldsRl,
             WriterOwnsRl, WriterHoldsRwl, ReaderOwnsRwl
  <2>4. FirstLastInv'
    BY <2>2 DEF TypeOK, PCs, FirstLastInv
  <2> QED
    BY <2>1, <2>2, <2>3, <2>4 DEF CountsExact
<1> QED
  BY <1>1, <1>2, <1>3, <1>4, <1>5, <1>6 DEF wlock

(* Leaving as a writer, step by step of the macro wunlock, preserves the invariant. *)
LEMMA wunlock_Inv ==
    ASSUME LockInv, NEW t \in Threads, wunlock(t)
    PROVE  LockInv'
<1> USE DEF LockInv, Goto
<1>1. CASE wunlock_enter(t)
  <2> USE <1>1 DEF wunlock_enter
  <2>1. TypeOK' /\ NoTraversal'
    BY ThreadsAssumption DEF TypeOK, NoTraversal, PCs
  <2>2. RCounted' = RCounted /\ WCounted' = WCounted
    BY DEF TypeOK, NoTraversal, PCs, RCounted, WCounted
  <2>3. WlInv' /\ RlInv' /\ RwlInv'
    BY DEF NoTraversal, TypeOK, PCs, WlInv, RlInv, RwlInv, HoldsWl, ReaderHoldsRl,
             WriterOwnsRl, WriterHoldsRwl, ReaderOwnsRwl
  <2>4. FirstLastInv'
    BY <2>2 DEF TypeOK, PCs, NoTraversal, FirstLastInv
  <2> QED
    BY <2>1, <2>2, <2>3, <2>4 DEF CountsExact
<1>2. CASE wunlock_unlock_rwl(t)
  <2> USE <1>2 DEF wunlock_unlock_rwl
  <2>1. TypeOK' /\ NoTraversal'
    BY ThreadsAssumption DEF TypeOK, NoTraversal, PCs
  <2>2. RCounted' = RCounted /\ WCounted' = WCounted
    BY DEF TypeOK, NoTraversal, PCs, RCounted, WCounted
  <2>3. WlInv' /\ RlInv' /\ RwlInv'
    BY DEF TypeOK, PCs, WlInv, RlInv, RwlInv, HoldsWl, ReaderHoldsRl,
             WriterOwnsRl, WriterHoldsRwl, ReaderOwnsRwl
  <2>4. FirstLastInv'
    BY <2>2 DEF TypeOK, PCs, FirstLastInv
  <2> QED
    BY <2>1, <2>2, <2>3, <2>4 DEF CountsExact
<1>3. CASE wunlock_lock_wl(t)
  <2> USE <1>3 DEF wunlock_lock_wl
  <2>1. TypeOK' /\ NoTraversal'
    BY ThreadsAssumption DEF TypeOK, NoTraversal, PCs
  <2>2. RCounted' = RCounted /\ WCounted' = WCounted
    BY DEF TypeOK, NoTraversal, PCs, RCounted, WCounted
  <2>3. WlInv' /\ RlInv' /\ RwlInv'
    BY DEF TypeOK, PCs, WlInv, RlInv, RwlInv, HoldsWl, ReaderHoldsRl,
             WriterOwnsRl, WriterHoldsRwl, ReaderOwnsRwl
  <2>4. FirstLastInv'
    BY <2>2 DEF TypeOK, PCs, FirstLastInv
  <2> QED
    BY <2>1, <2>2, <2>3, <2>4 DEF CountsExact
<1>4. CASE wunlock_count(t)
  <2> USE <1>4 DEF wunlock_count
  <2>1. TypeOK' /\ NoTraversal'
    BY ThreadsAssumption DEF TypeOK, NoTraversal, PCs
  <2>2. WCounted' = WCounted \ {t} /\ t \in WCounted /\ RCounted' = RCounted
    BY DEF TypeOK, PCs, RCounted, WCounted
  <2>3. WCounted \in SUBSET Threads
    BY DEF WCounted
  <2>4. CountsExact'
    BY <2>2, <2>3, CountOut DEF CountsExact
  <2>5. wc = 1 => WCounted = {t}
    BY <2>2, <2>3, CountOut DEF CountsExact
  <2>6. WlInv' /\ RlInv' /\ RwlInv'
    BY <2>2, <2>5 DEF WCounted, FirstLastInv, TypeOK, PCs, WlInv, RlInv, RwlInv, HoldsWl, ReaderHoldsRl,
             WriterOwnsRl, WriterHoldsRwl, ReaderOwnsRwl
  <2>7. FirstLastInv'
    BY <2>2, <2>5 DEF TypeOK, PCs, FirstLastInv, WlInv, HoldsWl
  <2> QED
    BY <2>1, <2>4, <2>6, <2>7
<1>5. CASE wunlock_unlock_rl(t)
  <2> USE <1>5 DEF wunlock_unlock_rl
  <2>1. TypeOK' /\ NoTraversal'
    BY ThreadsAssumption DEF TypeOK, NoTraversal, PCs
  <2>2. RCounted' = RCounted /\ WCounted' = WCounted
    BY DEF TypeOK, NoTraversal, PCs, RCounted, WCounted
  <2>3. WlInv' /\ RlInv' /\ RwlInv'
    BY DEF FirstLastInv, TypeOK, PCs, WlInv, RlInv, RwlInv, HoldsWl, ReaderHoldsRl,
             WriterOwnsRl, WriterHoldsRwl, ReaderOwnsRwl, WCounted
  <2>4. FirstLastInv'
    BY <2>2 DEF TypeOK, PCs, FirstLastInv
  <2> QED
    BY <2>1, <2>2, <2>3, <2>4 DEF CountsExact
<1>6. CASE wunlock_unlock_wl(t)
  <2> USE <1>6 DEF wunlock_unlock_wl
  <2>1. TypeOK' /\ NoTraversal'
    BY ThreadsAssumption DEF TypeOK, NoTraversal, PCs
  <2>2. RCounted' = RCounted /\ WCounted' = WCounted
    BY DEF TypeOK, NoTraversal, PCs, RCounted, WCounted
  <2>3. WlInv' /\ RlInv' /\ RwlInv'
    BY DEF TypeOK, PCs, WlInv, RlInv, RwlInv, HoldsWl, ReaderHoldsRl,
             WriterOwnsRl, WriterHoldsRwl, ReaderOwnsRwl
  <2>4. FirstLastInv'
    BY <2>2 DEF TypeOK, PCs, FirstLastInv
  <2> QED
    BY <2>1, <2>2, <2>3, <2>4 DEF CountsExact
<1> QED
  BY <1>1, <1>2, <1>3, <1>4, <1>5, <1>6 DEF wunlock

(* LockInv holds in every state, for every finite set of readers and       *)
(* writers, as long as nobody runs disable_rwlock.                         *)
THEOREM LockInvariance ==
    Spec => []LockInv
<1>1. ASSUME LockInv, [Next]_vars
      PROVE  LockInv'
  <2>1. CASE UNCHANGED vars
    BY <1>1, <2>1 DEF vars, LockInv, TypeOK, NoTraversal, CountsExact, WlInv, RlInv,
         RwlInv, FirstLastInv, RCounted, WCounted, HoldsWl, ReaderHoldsRl,
         WriterOwnsRl, WriterHoldsRwl, ReaderOwnsRwl
  <2>2. ASSUME NEW t \in Threads, Step(t)
        PROVE  LockInv'
    BY <1>1, <2>2, rlock_Inv, runlock_Inv, wlock_Inv, wunlock_Inv DEF Step
  <2> QED
    BY <1>1, <2>1, <2>2 DEF Next
<1> QED
  BY <1>1, LockInvInit, PTL DEF Spec

(* The lock excludes: a writer in its body is alone (rwlock of lock.h).    *)
THEOREM WriterExcludes ==
    Spec => []MutualExclusion
<1>1. LockInv => MutualExclusion
  BY DEF LockInv, NoTraversal, RwlInv, MutualExclusion, InRead, InWrite,
         WriterHoldsRwl, ReaderOwnsRwl
<1> QED
  BY <1>1, LockInvariance, PTL

(* rc and wc count the readers and writers inside, without wrapping.       *)
THEOREM CountersExact ==
    Spec => [](TypeOK /\ CountsExact)
<1>1. LockInv => TypeOK /\ CountsExact
  BY DEF LockInv
<1> QED
  BY <1>1, LockInvariance, PTL

-----------------------------------------------------------------------------
(* The converse of LockInv's ownership: a byte lock that is taken has an   *)
(* owner, so whoever waits for it waits for somebody.                      *)
OwnersInv ==
    /\ wl = 1 => HoldsWl # {}
    /\ rl = 1 => ReaderHoldsRl \cup WriterOwnsRl # {}
    /\ rwl = 1 => WriterHoldsRwl \cup ReaderOwnsRwl # {}

(* A thread counted when the counter is not 1 is not counted alone.        *)
LEMMA CountOther ==
    ASSUME NEW S \in SUBSET Threads, NEW t \in S, Cardinality(S) # 1
    PROVE  \E u \in S : u # t
<1>1. CASE S = {t}
  BY <1>1, FS_Singleton
<1>2. CASE S # {t}
  BY <1>2
<1> QED
  BY <1>1, <1>2

(* Every step of rlock and runlock that leaves an owner's place gives the  *)
(* byte lock back, or another counted reader owns it.                      *)
LEMMA ReaderOwners ==
    ASSUME LockInv, OwnersInv, NEW t \in Threads, rlock(t) \/ runlock(t)
    PROVE  OwnersInv'
<1> USE DEF OwnersInv, LockInv, TypeOK, NoTraversal, Goto, HoldsWl, ReaderHoldsRl, WriterOwnsRl,
            WriterHoldsRwl, ReaderOwnsRwl
<1>1. CASE rlock_enter(t)
  BY <1>1 DEF rlock_enter
<1>2. CASE rlock_lock_rl(t)
  BY <1>2 DEF rlock_lock_rl
<1>3. CASE rlock_count(t)
  BY <1>3 DEF rlock_count
<1>4. CASE rlock_lock_rwl(t)
  BY <1>4 DEF rlock_lock_rwl
<1>5. CASE rlock_unlock_rl(t)
  BY <1>5 DEF rlock_unlock_rl
<1>6. CASE runlock_enter(t)
  BY <1>6 DEF runlock_enter
<1>7. CASE runlock_lock_rl(t)
  BY <1>7 DEF runlock_lock_rl
<1>8. CASE runlock_count(t)
  <2>1. CASE rc = 1
    BY <1>8, <2>1 DEF runlock_count
  <2>2. CASE rc # 1
    <3>1. RCounted \in SUBSET Threads /\ t \in RCounted
      BY <1>8 DEF runlock_count, RCounted
    <3>2. PICK u \in RCounted : u # t
      BY <2>2, <3>1, CountOther DEF CountsExact
    <3>3. pc[u] \in {"r_unl", "reading", "ru_rl", "ru_dec"}
      BY <3>1, <3>2 DEF RCounted, FirstLastInv
    <3>4. u \in ReaderOwnsRwl'
      BY <1>8, <3>2, <3>3 DEF runlock_count, RCounted
    <3> QED
      BY <1>8, <2>2, <3>4 DEF runlock_count
  <2> QED
    BY <2>1, <2>2
<1>9. CASE runlock_unlock_rwl(t)
  BY <1>9 DEF runlock_unlock_rwl
<1>10. CASE runlock_unlock_rl(t)
  BY <1>10 DEF runlock_unlock_rl
<1> QED
  BY <1>1, <1>2, <1>3, <1>4, <1>5, <1>6, <1>7, <1>8, <1>9, <1>10 DEF rlock, runlock

(* The same for wlock and wunlock.                                         *)
LEMMA WriterOwners ==
    ASSUME LockInv, OwnersInv, NEW t \in Threads, wlock(t) \/ wunlock(t)
    PROVE  OwnersInv'
<1> USE DEF OwnersInv, LockInv, TypeOK, NoTraversal, Goto, HoldsWl, ReaderHoldsRl, WriterOwnsRl,
            WriterHoldsRwl, ReaderOwnsRwl
<1>1. CASE wlock_enter(t)
  BY <1>1 DEF wlock_enter
<1>2. CASE wlock_lock_wl(t)
  BY <1>2 DEF wlock_lock_wl
<1>3. CASE wlock_count(t)
  BY <1>3 DEF wlock_count
<1>4. CASE wlock_lock_rl(t)
  BY <1>4 DEF wlock_lock_rl
<1>5. CASE wlock_unlock_wl(t)
  BY <1>5 DEF wlock_unlock_wl
<1>6. CASE wlock_lock_rwl(t)
  BY <1>6 DEF wlock_lock_rwl
<1>7. CASE wunlock_enter(t)
  BY <1>7 DEF wunlock_enter
<1>8. CASE wunlock_unlock_rwl(t)
  BY <1>8 DEF wunlock_unlock_rwl
<1>9. CASE wunlock_lock_wl(t)
  BY <1>9 DEF wunlock_lock_wl
<1>10. CASE wunlock_count(t)
  <2>1. CASE wc = 1
    BY <1>10, <2>1 DEF wunlock_count
  <2>2. CASE wc # 1
    <3>1. WCounted \in SUBSET Threads /\ t \in WCounted
      BY <1>10 DEF wunlock_count, WCounted
    <3>2. PICK u \in WCounted : u # t
      BY <2>2, <3>1, CountOther DEF CountsExact
    <3>3. u \in WriterOwnsRl'
      BY <1>10, <3>1, <3>2 DEF wunlock_count, WCounted, FirstLastInv
    <3> QED
      BY <1>10, <2>2, <3>3 DEF wunlock_count
  <2> QED
    BY <2>1, <2>2
<1>11. CASE wunlock_unlock_rl(t)
  BY <1>11 DEF wunlock_unlock_rl
<1>12. CASE wunlock_unlock_wl(t)
  BY <1>12 DEF wunlock_unlock_wl
<1> QED
  BY <1>1, <1>2, <1>3, <1>4, <1>5, <1>6, <1>7, <1>8, <1>9, <1>10, <1>11, <1>12
     DEF wlock, wunlock

(* Who waits for whom when everybody waits: the chain of owners ends at a  *)
(* reader that wants rl to leave while the owner of rl wants rwl.          *)
LEMMA WaitChain ==
    ASSUME LockInv, OwnersInv, Threads # {}, \A t \in Threads : Blocked(t)
    PROVE  Overlap
<1> USE DEF LockInv, OwnersInv, Blocked
<1>1. rwl = 1 => \E r \in Threads : pc[r] = "ru_rl"
  BY DEF WriterHoldsRwl, ReaderOwnsRwl
<1>2. \A t \in Threads : pc[t] # "r_rwl"
  <2> SUFFICES ASSUME NEW t \in Threads, pc[t] = "r_rwl" PROVE FALSE
    OBVIOUS
  <2>1. PICK r \in Threads : pc[r] = "ru_rl"
    BY <1>1
  <2>2. r \in RCounted /\ RCounted = {t}
    BY <2>1 DEF RCounted, FirstLastInv
  <2> QED
    BY <2>1, <2>2
<1>3. rl = 1 => \E w \in WriterOwnsRl : pc[w] \in {"w_rwl", "wu_wl"}
  BY <1>2 DEF ReaderHoldsRl, WriterOwnsRl
<1>4. \A t \in Threads : pc[t] # "w_rl"
  <2> SUFFICES ASSUME NEW t \in Threads, pc[t] = "w_rl" PROVE FALSE
    OBVIOUS
  <2>1. PICK w \in WriterOwnsRl : pc[w] \in {"w_rwl", "wu_wl"}
    BY <1>3
  <2>2. w \in WCounted /\ WCounted = {t}
    BY <2>1 DEF WCounted, WriterOwnsRl, FirstLastInv
  <2> QED
    BY <2>1, <2>2
<1>5. \A t \in Threads : pc[t] \notin {"w_wl", "wu_wl"}
  BY <1>4 DEF HoldsWl
<1>6. \A t \in Threads : pc[t] \in {"r_rl", "ru_rl"} \/ pc[t] = "w_rwl"
  BY <1>2, <1>4, <1>5
<1>7. \E w \in Threads : pc[w] = "w_rwl"
  BY <1>3, <1>5, <1>6 DEF WriterOwnsRl
<1> QED
  BY <1>1, <1>7 DEF Overlap

(* If every thread spins for ever, it is because a reader that leaves and  *)
(* a writer that enters wait for each other (runlock, wlock).              *)
THEOREM OnlyOverlapStops ==
    ASSUME Threads # {}
    PROVE  Spec => []StuckOnlyByOverlap
<1>1. Init => OwnersInv
  BY DEF Init, OwnersInv
<1>2. ASSUME LockInv, OwnersInv, [Next]_vars
      PROVE  OwnersInv'
  <2>1. CASE UNCHANGED vars
    BY <1>2, <2>1 DEF vars, OwnersInv, HoldsWl, ReaderHoldsRl, WriterOwnsRl, WriterHoldsRwl,
         ReaderOwnsRwl
  <2>2. ASSUME NEW t \in Threads, Step(t)
        PROVE  OwnersInv'
    BY <1>2, <2>2, ReaderOwners, WriterOwners DEF Step
  <2> QED
    BY <1>2, <2>1, <2>2 DEF Next
<1>3. LockInv /\ OwnersInv => StuckOnlyByOverlap
  BY WaitChain DEF StuckOnlyByOverlap
<1> QED
  BY <1>1, <1>2, <1>3, LockInvariance, PTL DEF Spec
=============================================================================
