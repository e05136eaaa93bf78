---------------------------- MODULE QueueProofs -----------------------------
(***************************************************************************)
(* Proofs about Queue.  As long as nobody calls queue_empty (Emptiers is   *)
(* empty), QueueInv is inductive, and with it every step of queue_put and  *)
(* queue_get is a step of FifoQueue or leaves it unchanged: for every set  *)
(* of threads and values, every capacity, any timeouts and any kills.      *)
(***************************************************************************)
EXTENDS QueueEmpty, SequenceTheorems, TLAPS

(* Pushing at the tail of a list of values.                                *)
LEMMA PushLen ==
    ASSUME NEW s \in Seq(Values), NEW v \in Values
    PROVE  Append(s, v) \in Seq(Values) /\ Len(Append(s, v)) = Len(s) + 1
  OBVIOUS

(* Popping at the head of a non-empty list of values.                      *)
LEMMA PopLen ==
    ASSUME NEW s \in Seq(Values), Len(s) > 0
    PROVE  /\ s # <<>> /\ Tail(s) \in Seq(Values)
           /\ Len(Tail(s)) = Len(s) - 1 /\ Head(s) \in Values
  OBVIOUS

(* queue_init establishes the invariant.                                   *)
LEMMA QueueInvInit == Init => QueueInv
  BY QueueAssumption DEF Init, QueueInv, TypeOK, PCs, Exclusive, InCS, Capacity, Threads

(* The start of a call only moves its own thread, from outside the lock.   *)
LEMMA CallInv ==
    ASSUME QueueInv, NEW t \in Threads, Call(t)
    PROVE  QueueInv'
<1> USE QueueAssumption DEF QueueInv, TypeOK, PCs, Exclusive, InCS, Capacity, Cond, Goto
<1>1. ASSUME NEW v \in Values, NEW tm \in BOOLEAN, queue_put_call(t, v, tm)
      PROVE  QueueInv'
  BY <1>1 DEF queue_put_call, Threads
<1>2. ASSUME NEW tm \in BOOLEAN, queue_get_call(t, tm)
      PROVE  QueueInv'
  BY <1>2 DEF queue_get_call, Threads
<1> QED
  BY <1>1, <1>2 DEF Call

(* Every step of lock_3: only the winner of the compare-and-swap gets in,  *)
(* and only a thread that is in releases the lock.                         *)
LEMMA Lock3Inv ==
    ASSUME QueueInv, NEW t \in Threads, lock_3(t), Emptiers = {}
    PROVE  QueueInv'
<1> USE QueueAssumption DEF QueueInv, TypeOK, PCs, Exclusive, InCS, Capacity, Cond, Goto
<1>1. CASE lock_cancel(t)
  BY <1>1 DEF lock_cancel, Threads
<1>2. CASE trylock(t)
  BY <1>2 DEF trylock, Threads
<1>3. CASE lock_cond(t)
  BY <1>3 DEF lock_cond, Threads
<1>4. CASE lock_back(t)
  BY <1>4 DEF lock_back, Threads
<1>5. CASE lock_again(t)
  BY <1>5 DEF lock_again, Threads
<1>6. CASE lock_timeout(t)
  BY <1>6 DEF lock_timeout, Threads
<1> QED
  BY <1>1, <1>2, <1>3, <1>4, <1>5, <1>6 DEF lock_3

(* The list operations: the condition tested on the way in still holds, so *)
(* a push fits and a pop finds a value.                                    *)
LEMMA BodyInv ==
    ASSUME QueueInv, NEW t \in Threads, Body(t), Emptiers = {}
    PROVE  QueueInv'
<1> USE QueueAssumption DEF QueueInv, Exclusive, InCS, Capacity, Goto
<1>1. CASE queue_put_push(t)
  <2> USE <1>1 DEF queue_put_push
  <2>1. list' \in Seq(Values) /\ Len(list') = Len(list) + 1 /\ Len(list) \in Nat
    BY PushLen DEF TypeOK
  <2>2. TypeOK'
    BY <2>1 DEF TypeOK, PCs
  <2>3. Capacity'
    BY <2>1 DEF Cond
  <2>4. \A u \in Threads : pc'[u] # "body"
    BY DEF TypeOK
  <2> QED
    BY <2>2, <2>3, <2>4 DEF TypeOK, Threads
<1>2. CASE queue_get_pop(t)
  <2> USE <1>2 DEF queue_get_pop
  <2>1. /\ list # <<>> /\ list' \in Seq(Values) /\ Len(list') = Len(list) - 1
        /\ Len(list) \in Nat /\ data'[t] \in Values
    BY PopLen DEF TypeOK, Cond
  <2>2. TypeOK'
    BY <2>1 DEF TypeOK, PCs
  <2>3. Capacity'
    BY <2>1
  <2>4. \A u \in Threads : pc'[u] # "body"
    BY DEF TypeOK
  <2> QED
    BY <2>2, <2>3, <2>4 DEF TypeOK, Threads
<1>3. CASE queue_unlock(t)
  BY <1>3 DEF queue_unlock, TypeOK, PCs, Cond, Threads
<1> QED
  BY <1>1, <1>2, <1>3 DEF Body

(* QueueInv holds in every reachable state.                                *)
THEOREM QueueInvariance ==
    ASSUME Emptiers = {}
    PROVE  Spec => []QueueInv
<1>1. ASSUME QueueInv, [Next]_vars
      PROVE  QueueInv'
  <2>1. CASE UNCHANGED vars
    BY <1>1, <2>1 DEF vars, QueueInv, TypeOK, Exclusive, InCS, Capacity, Cond
  <2>2. ASSUME NEW t \in Threads, thread_kill(t)
        PROVE  QueueInv'
    BY <1>1, <2>2 DEF thread_kill, QueueInv, TypeOK, Exclusive, InCS, Capacity, Cond
  <2> QED
    BY <1>1, <2>1, <2>2, CallInv, Lock3Inv, BodyInv, Emptiers = {} DEF Next
<1> QED
  BY <1>1, QueueInvInit, PTL DEF Spec

(* At most one thread is inside, and the list never exceeds max.           *)
THEOREM QueueSafety ==
    ASSUME Emptiers = {}
    PROVE  Spec => [](TypeOK /\ Exclusive /\ Capacity)
<1>1. QueueInv => TypeOK /\ Exclusive /\ Capacity
  BY DEF QueueInv
<1> QED
  BY <1>1, QueueInvariance, PTL

-----------------------------------------------------------------------------
(* The refinement: which step of FifoQueue each step of the code is.       *)

absCall == [t \in Threads |-> AbstractCall(t)]

(* A step that moves thread t moves its abstract call and no other.        *)
LEMMA AbsMove ==
    ASSUME TypeOK, NEW t \in Threads, NEW to \in PCs,
           pc' = [pc EXCEPT ![t] = to]
    PROVE  /\ absCall[t] = AbstractCall(t)
           /\ absCall' = [absCall EXCEPT ![t] = CASE to = "idle" -> "idle"
                                              [] to = "unlock" -> "done"
                                              [] to = "dead" -> "dead"
                                              [] OTHER -> "pending"]
  BY DEF TypeOK, absCall, AbstractCall

(* A step inside lock_3 leaves the abstract call pending.                  *)
LEMMA AbsStay ==
    ASSUME TypeOK, NEW t \in Threads, NEW to \in PCs,
           pc' = [pc EXCEPT ![t] = to],
           pc[t] \notin {"idle", "unlock", "dead"},
           to \notin {"idle", "unlock", "dead"}
    PROVE  absCall' = absCall
<1>1. \A u \in Threads : AbstractCall(u)' = AbstractCall(u)
  BY DEF TypeOK, AbstractCall
<1> QED
  BY <1>1 DEF absCall

(* Starting a call is Start.                                               *)
LEMMA CallRefines ==
    ASSUME QueueInv, NEW t \in Threads, Call(t), Emptiers = {}
    PROVE  Fifo!Next
<1> USE DEF Goto, PCs, QueueInv
<1>1. ASSUME NEW v \in Values, NEW tm \in BOOLEAN, queue_put_call(t, v, tm)
      PROVE  Fifo!Start(t, v, tm)
  BY <1>1, AbsMove DEF queue_put_call, Fifo!Start, absCall, AbstractCall
<1>2. ASSUME NEW v \in Values, NEW tm \in BOOLEAN, queue_get_call(t, tm)
      PROVE  Fifo!Start(t, v, tm)
  BY <1>2, AbsMove, QueueAssumption DEF queue_get_call, Fifo!Start, absCall, AbstractCall
<1> QED
  BY <1>1, <1>2, QueueAssumption, Emptiers = {} DEF Call, Fifo!Next, Fifo!Threads, Threads

(* lock_3 is invisible, except that it may fail or die.                    *)
LEMMA Lock3Refines ==
    ASSUME QueueInv, NEW t \in Threads, lock_3(t), Emptiers = {}
    PROVE  Fifo!Fail(t) \/ Fifo!Die(t) \/ UNCHANGED Fifo!vars
<1> USE DEF Goto, PCs, QueueInv
<1>1. CASE lock_cancel(t)
  <2>1. CASE cancel[t]
    <3>1. pc[t] = "top" /\ pc' = [pc EXCEPT ![t] = "dead"]
      BY <1>1, <2>1 DEF lock_cancel
    <3> QED
      BY <1>1, <3>1, AbsMove DEF lock_cancel, Fifo!Die, absCall, AbstractCall
  <2>2. CASE ~cancel[t]
    BY <1>1, <2>2, AbsStay DEF lock_cancel, Fifo!vars, absCall
  <2> QED
    BY <2>1, <2>2
<1>2. CASE trylock(t)
  BY <1>2, AbsStay DEF trylock, Fifo!vars, absCall
<1>3. CASE lock_cond(t)
  BY <1>3, AbsStay DEF lock_cond, Fifo!vars, absCall
<1>4. CASE lock_back(t)
  BY <1>4, AbsStay DEF lock_back, Fifo!vars, absCall
<1>5. CASE lock_again(t)
  BY <1>5, AbsStay DEF lock_again, Fifo!vars, absCall
<1>6. CASE lock_timeout(t)
  <2>1. pc[t] = "wait" /\ pc' = [pc EXCEPT ![t] = "idle"]
    BY <1>6, Emptiers = {} DEF lock_timeout
  <2>2. ret' = [ret EXCEPT ![t] = FALSE]
    <3>1. (t \in Emptiers) = FALSE
      BY Emptiers = {}
    <3> QED
      BY <1>6, <3>1 DEF lock_timeout
  <2> QED
    BY <1>6, <2>1, <2>2, AbsMove DEF lock_timeout, Fifo!Fail, absCall, AbstractCall
<1> QED
  BY <1>1, <1>2, <1>3, <1>4, <1>5, <1>6 DEF lock_3

(* The push is Put, the pop is Get, the unlock is Return.                  *)
LEMMA BodyRefines ==
    ASSUME QueueInv, NEW t \in Threads, Body(t), Emptiers = {}
    PROVE  Fifo!Put(t) \/ Fifo!Get(t) \/ Fifo!Return(t)
<1> USE DEF Goto, PCs, QueueInv
<1>1. CASE queue_put_push(t)
  BY <1>1, AbsMove DEF queue_put_push, Fifo!Put, Cond, absCall, AbstractCall
<1>2. CASE queue_get_pop(t)
  <2>1. list # <<>>
    BY <1>2, PopLen DEF queue_get_pop, Cond, TypeOK
  <2> QED
    BY <1>2, <2>1, AbsMove DEF queue_get_pop, Fifo!Get, absCall, AbstractCall
<1>3. CASE queue_unlock(t)
  BY <1>3, AbsMove DEF queue_unlock, Fifo!Return, absCall, AbstractCall
<1> QED
  BY <1>1, <1>2, <1>3 DEF Body

(* queue.c implements FifoQueue.                                           *)
THEOREM QueueImplementsFifo ==
    ASSUME Emptiers = {}
    PROVE  Spec => ImplementsFifo
<1>1. Init => Fifo!Init
  BY Emptiers = {} DEF Init, Fifo!Init, Fifo!Threads, Threads, AbstractCall
<1>2. ASSUME QueueInv, [Next]_vars
      PROVE  [Fifo!Next]_(Fifo!vars)
  <2>1. CASE UNCHANGED vars
    BY <2>1 DEF vars, Fifo!vars, AbstractCall
  <2>2. ASSUME NEW t \in Threads, thread_kill(t)
        PROVE  UNCHANGED Fifo!vars
    BY <2>2 DEF thread_kill, Fifo!vars, AbstractCall
  <2>3. ASSUME NEW t \in Threads, lock_3(t) \/ Body(t)
        PROVE  [Fifo!Next]_(Fifo!vars)
    BY <1>2, <2>3, Lock3Refines, BodyRefines, Emptiers = {}
       DEF Fifo!Next, Fifo!Threads, Threads
  <2> QED
    BY <1>2, <2>1, <2>2, <2>3, CallRefines, Emptiers = {} DEF Next
<1> QED
  BY <1>1, <1>2, QueueInvariance, PTL DEF Spec, ImplementsFifo, Fifo!Spec

-----------------------------------------------------------------------------
(* With queue_empty's callers too, a thread that leaves the part between   *)
(* trylock and unlock gives the lock back, and only a winner takes it.     *)
HolderInv == lock \in {0, 1} /\ pc \in [Threads -> PCs] /\ LockNeverOrphaned

LEMMA StepKeepsHolder ==
    ASSUME HolderInv, NEW t \in Threads,
           Call(t) \/ lock_3(t) \/ Body(t) \/ thread_kill(t)
           \/ queue_empty_call(t) \/ queue_empty_read(t)
    PROVE  HolderInv'
<1> USE DEF HolderInv, PCs, LockNeverOrphaned, InCS, Goto
<1>1. CASE Call(t)
  BY <1>1 DEF Call, queue_put_call, queue_get_call
<1>2. CASE lock_cancel(t) \/ lock_again(t) \/ lock_timeout(t)
  BY <1>2 DEF lock_cancel, lock_again, lock_timeout
<1>3. CASE trylock(t)
  BY <1>3 DEF trylock
<1>4. CASE lock_cond(t)
  BY <1>4 DEF lock_cond
<1>5. CASE lock_back(t) \/ queue_unlock(t)
  BY <1>5 DEF lock_back, queue_unlock
<1>6. CASE queue_put_push(t) \/ queue_get_pop(t) \/ queue_empty_read(t)
  BY <1>6 DEF queue_put_push, queue_get_pop, queue_empty_read
<1>7. CASE thread_kill(t) \/ queue_empty_call(t)
  BY <1>7 DEF thread_kill, queue_empty_call
<1> QED
  BY <1>1, <1>2, <1>3, <1>4, <1>5, <1>6, <1>7 DEF lock_3, Body

(* A taken lock has a living holder, whoever is killed and whoever calls   *)
(* queue_empty (lock_3, thread_kill).                                      *)
THEOREM QueueLockHeld ==
    EmptySpec => []LockNeverOrphaned
<1>1. Init => HolderInv
  BY DEF Init, HolderInv, PCs, LockNeverOrphaned
<1>2. ASSUME HolderInv, [EmptyNext]_vars
      PROVE  HolderInv'
  <2>1. CASE UNCHANGED vars
    BY <1>2, <2>1 DEF vars, HolderInv, LockNeverOrphaned, InCS
  <2>2. CASE EmptyNext
    BY <1>2, <2>2, StepKeepsHolder DEF EmptyNext, Next
  <2> QED
    BY <1>2, <2>1, <2>2
<1>3. HolderInv => LockNeverOrphaned
  BY DEF HolderInv
<1> QED
  BY <1>1, <1>2, <1>3, PTL DEF EmptySpec
=============================================================================
