------------------------------ MODULE FifoQueue ------------------------------
(***************************************************************************)
(* What queue.c promises its callers: a first-in first-out queue of at     *)
(* most max values (any number if max <= 0).  A call takes effect in one   *)
(* step between its start and its return, or, when it has a timeout or its *)
(* thread is killed, ends without any effect.                              *)
(***************************************************************************)
EXTENDS Integers, Sequences

CONSTANTS Putters, Getters, Values, NULL, max

Threads == Putters \cup Getters

VARIABLES items,    \* the values in the queue, oldest first
          call,     \* "idle", "pending", "done" (took effect) or "dead"
          timed,    \* the pending call has a timeout
          data,     \* what a thread puts, or got last
          ret       \* the result of its last finished call

vars == <<items, call, timed, data, ret>>

Init ==
    /\ items = <<>>
    /\ call = [t \in Threads |-> "idle"]
    /\ timed = [t \in Threads |-> FALSE]
    /\ data = [t \in Threads |-> NULL]
    /\ ret = [t \in Threads |-> TRUE]

(* A putter brings its value; a getter keeps what it got before.           *)
Start(t, v, tm) ==
    /\ call[t] = "idle" /\ call' = [call EXCEPT ![t] = "pending"]
    /\ timed' = [timed EXCEPT ![t] = tm]
    /\ data' = IF t \in Putters THEN [data EXCEPT ![t] = v] ELSE data
    /\ UNCHANGED <<items, ret>>

Put(t) ==
    /\ t \in Putters
    /\ call[t] = "pending" /\ call' = [call EXCEPT ![t] = "done"]
    /\ max <= 0 \/ Len(items) < max
    /\ items' = Append(items, data[t])
    /\ UNCHANGED <<timed, data, ret>>

Get(t) ==
    /\ t \in Getters
    /\ call[t] = "pending" /\ call' = [call EXCEPT ![t] = "done"]
    /\ items # <<>>
    /\ items' = Tail(items)
    /\ data' = [data EXCEPT ![t] = Head(items)]
    /\ UNCHANGED <<timed, ret>>

Return(t) ==
    /\ call[t] = "done" /\ call' = [call EXCEPT ![t] = "idle"]
    /\ ret' = [ret EXCEPT ![t] = TRUE]
    /\ UNCHANGED <<items, timed, data>>

Fail(t) ==
    /\ timed[t]
    /\ call[t] = "pending" /\ call' = [call EXCEPT ![t] = "idle"]
    /\ ret' = [ret EXCEPT ![t] = FALSE]
    /\ UNCHANGED <<items, timed, data>>

Die(t) ==
    /\ call[t] = "pending" /\ call' = [call EXCEPT ![t] = "dead"]
    /\ UNCHANGED <<items, timed, data, ret>>

Next ==
    \E t \in Threads :
        \/ \E v \in Values, tm \in BOOLEAN : Start(t, v, tm)
        \/ Put(t) \/ Get(t) \/ Return(t) \/ Fail(t) \/ Die(t)

Spec == Init /\ [][Next]_vars
=============================================================================
