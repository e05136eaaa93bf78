-------------------------------- MODULE Queue --------------------------------
(***************************************************************************)
(* The blocking queue of queue.c on the conditional spin lock lock_3 of    *)
(* lock.h: queue_put and queue_get wait, each with an optional timeout,    *)
(* for the byte lock and their condition together.  Threads may be         *)
(* cancelled (thread_kill); the cancellation takes effect at the           *)
(* pthread_testcancel at the top of the loop of lock_3.  The calls of      *)
(* queue_empty are in QueueEmpty.                                          *)
(*                                                                         *)
(* pc: "top" loop top, "try" the compare-and-swap, "cond" lock held and    *)
(* condition to be evaluated, "back" condition false, lock to be released, *)
(* "wait" yield and timeout test, "body" the list operation, "unlock".     *)
(***************************************************************************)
EXTENDS Integers, Sequences

CONSTANTS Putters,      \* threads that call queue_put
          Getters,      \* threads that call queue_get
          Emptiers,     \* threads that call queue_empty
          Killable,     \* threads that some other thread may thread_kill
          Values,       \* what is queued
          NULL,         \* what list_pop returns on an empty list
          max,          \* the argument of queue_init, unlimited if max <= 0
          Bound         \* cap on the length of an unlimited queue

Threads == Putters \cup Getters \cup Emptiers

ASSUME QueueAssumption ==
    /\ Putters \cap Getters = {}
    /\ (Putters \cup Getters) \cap Emptiers = {}
    /\ max \in Int
    /\ Bound \in Nat
    /\ Values # {} /\ NULL \notin Values

VARIABLES lock,     \* q->lock
          list,     \* q->list, a klist: pushed at the tail, popped at the head
          pc,
          timed,    \* tm >= 0 in the thread's call
          data,     \* what the thread puts, or got
          ret,      \* the result of its last finished call
          cancel    \* a cancellation is pending for the thread

vars == <<lock, list, pc, timed, data, ret, cancel>>

PCs == {"idle", "top", "try", "cond", "back", "wait", "body", "unlock", "dead"}

TypeOK ==
    /\ lock \in {0, 1}
    /\ list \in Seq(Values)
    /\ pc \in [Threads -> PCs]
    /\ timed \in [Threads -> BOOLEAN]
    /\ data \in [Threads -> Values \cup {NULL}]
    /\ ret \in [Threads -> BOOLEAN]
    /\ cancel \in [Threads -> BOOLEAN]

(* queue_init.                                                             *)
Init ==
    /\ lock = 0
    /\ list = <<>>
    /\ pc = [t \in Threads |-> "idle"]
    /\ timed = [t \in Threads |-> FALSE]
    /\ data = [t \in Threads |-> NULL]
    /\ ret = [t \in Threads |-> TRUE]
    /\ cancel = [t \in Threads |-> FALSE]

Goto(t, from, to) == pc[t] = from /\ pc' = [pc EXCEPT ![t] = to]

-----------------------------------------------------------------------------
(* The calls.                                                              *)
queue_put_call(t, v, tm) ==
    /\ t \in Putters
    /\ max <= 0 => Len(list) < Bound
    /\ Goto(t, "idle", "top")
    /\ data' = [data EXCEPT ![t] = v]
    /\ timed' = [timed EXCEPT ![t] = tm]
    /\ UNCHANGED <<lock, list, ret, cancel>>

queue_get_call(t, tm) ==
    /\ t \in Getters
    /\ Goto(t, "idle", "top")
    /\ timed' = [timed EXCEPT ![t] = tm]
    /\ UNCHANGED <<lock, list, data, ret, cancel>>

-----------------------------------------------------------------------------
(* lock_3.                                                                 *)
Cond(t) ==
    /\ t \in Putters => max <= 0 \/ Len(list) < max
    /\ t \in Getters => Len(list) > 0

lock_cancel(t) ==
    /\ Goto(t, "top", IF cancel[t] THEN "dead" ELSE "try")
    /\ UNCHANGED <<lock, list, timed, data, ret, cancel>>
(* Mutant: a store instead of a compare-and-swap.                          *)
trylock_NoTest(t) ==
    /\ Goto(t, "try", "cond")
    /\ lock' = 1
    /\ UNCHANGED <<list, timed, data, ret, cancel>>

trylock(t) ==
    /\ Goto(t, "try", IF lock = 0 THEN "cond" ELSE "wait")
    /\ lock' = 1
    /\ UNCHANGED <<list, timed, data, ret, cancel>>
(* Mutant: a cancellation point while the lock is held.                    *)
lock_cond_CancelPoint(t) ==
    /\ Goto(t, "cond", IF cancel[t] THEN "dead" ELSE IF Cond(t) THEN "body" ELSE "back")
    /\ UNCHANGED <<lock, list, timed, data, ret, cancel>>

lock_cond(t) ==
    /\ Goto(t, "cond", IF Cond(t) THEN "body" ELSE "back")
    /\ UNCHANGED <<lock, list, timed, data, ret, cancel>>

lock_back(t) ==
    /\ Goto(t, "back", "wait")
    /\ lock' = 0
    /\ UNCHANGED <<list, timed, data, ret, cancel>>

lock_again(t) ==
    /\ Goto(t, "wait", "top")
    /\ UNCHANGED <<lock, list, timed, data, ret, cancel>>
(* The elapsed time exceeds tm.  queue_put and queue_get return FALSE;     *)
(* queue_empty ignores the result and goes on to read the size.            *)
lock_timeout(t) ==
    /\ timed[t]
    /\ Goto(t, "wait", IF t \in Emptiers THEN "body" ELSE "idle")
    /\ ret' = [ret EXCEPT ![t] = t \in Emptiers]
    /\ UNCHANGED <<lock, list, timed, data, cancel>>

-----------------------------------------------------------------------------
(* The bodies.                                                             *)
(* Mutant: pushed at the end that list_pop takes from.                     *)
queue_put_push_Head(t) ==
    /\ t \in Putters
    /\ Goto(t, "body", "unlock")
    /\ list' = <<data[t]>> \o list
    /\ UNCHANGED <<lock, timed, data, ret, cancel>>

queue_put_push(t) ==
    /\ t \in Putters
    /\ Goto(t, "body", "unlock")
    /\ list' = Append(list, data[t])
    /\ UNCHANGED <<lock, timed, data, ret, cancel>>

queue_get_pop(t) ==
    /\ t \in Getters
    /\ Goto(t, "body", "unlock")
    /\ data' = [data EXCEPT ![t] = IF list = <<>> THEN NULL ELSE Head(list)]
    /\ list' = IF list = <<>> THEN list ELSE Tail(list)
    /\ UNCHANGED <<lock, timed, ret, cancel>>

queue_unlock(t) ==
    /\ Goto(t, "unlock", "idle")
    /\ lock' = 0
    /\ ret' = [ret EXCEPT ![t] = TRUE]
    /\ UNCHANGED <<list, timed, data, cancel>>

(* thread_kill: pthread_cancel, deferred until the target tests for it.    *)
thread_kill(t) ==
    /\ t \in Killable /\ ~cancel[t]
    /\ cancel' = [cancel EXCEPT ![t] = TRUE]
    /\ UNCHANGED <<lock, list, pc, timed, data, ret>>

-----------------------------------------------------------------------------

Call(t) ==
    \/ \E v \in Values, tm \in BOOLEAN : queue_put_call(t, v, tm)
    \/ \E tm \in BOOLEAN : queue_get_call(t, tm)

lock_3(t) ==
    \/ lock_cancel(t) \/ trylock(t) \/ lock_cond(t) \/ lock_back(t)
    \/ lock_again(t) \/ lock_timeout(t)

Body(t) ==
    queue_put_push(t) \/ queue_get_pop(t) \/ queue_unlock(t)

Next == \E t \in Threads : Call(t) \/ lock_3(t) \/ Body(t) \/ thread_kill(t)

Spec == Init /\ [][Next]_vars

-----------------------------------------------------------------------------
(* Properties                                                              *)

InCS(t) == pc[t] \in {"cond", "back", "body", "unlock"}

(* At most one thread works on q->list, between its successful trylock and *)
(* its unlock (queue_put, queue_get, queue_empty).                         *)
Exclusive == \A t, u \in Threads : InCS(t) /\ InCS(u) => t = u

(* A held lock has a living holder: a thread that thread_kill cancels dies *)
(* at the top of lock_3, never between trylock and unlock, so a kill does  *)
(* not leave the queue locked for ever.                                    *)
LockNeverOrphaned == lock = 1 => \E t \in Threads : InCS(t)

(* queue_put keeps the bound of queue_init although the size it tested and *)
(* the push are different steps.                                           *)
Capacity == max > 0 => Len(list) <= max

AbstractCall(t) ==
    CASE pc[t] = "idle"   -> "idle"
      [] pc[t] = "unlock" -> "done"
      [] pc[t] = "dead"   -> "dead"
      [] OTHER            -> "pending"

Fifo == INSTANCE FifoQueue WITH
            items <- list, call <- [t \in Threads |-> AbstractCall(t)]

(* The queue implements FifoQueue: values leave in the order of their      *)
(* pushes, a call that returns TRUE took effect exactly once, and one that *)
(* returns FALSE or is killed had no effect.                               *)
ImplementsFifo == Fifo!Spec

(* The inductive invariant: the byte lock is held exactly while a thread   *)
(* is inside, and what it tested inside stays true until it acts on it.    *)
QueueInv ==
    /\ TypeOK
    /\ Exclusive
    /\ \A t \in Threads : InCS(t) => lock = 1
    /\ \A t \in Threads : pc[t] = "body" => Cond(t)
    /\ \A t \in Putters : pc[t] # "idle" => data[t] \in Values
    /\ Capacity
=============================================================================
