------------------------------ MODULE QueueEmpty ------------------------------
(***************************************************************************)
(* The queue of queue.c with threads that call queue_empty, which takes the*)
(* lock with timeout 0 and goes on whether or not it got it.               *)
(***************************************************************************)
EXTENDS Queue

queue_empty_call(t) ==
    /\ t \in Emptiers
    /\ Goto(t, "idle", "top")
    /\ timed' = [timed EXCEPT ![t] = TRUE]
    /\ UNCHANGED <<lock, list, data, ret, cancel>>

queue_empty_read(t) ==
    /\ t \in Emptiers
    /\ Goto(t, "body", "unlock")
    /\ UNCHANGED <<lock, list, timed, data, ret, cancel>>

EmptyNext == Next \/ \E t \in Threads : queue_empty_call(t) \/ queue_empty_read(t)

EmptySpec == Init /\ [][EmptyNext]_vars
=============================================================================
