------------------------------- MODULE Limit ----------------------------------
(***************************************************************************)
(* The speed limit of limit.c: a caller checks whenever it may send,       *)
(* counts a package it then sends, and often sends none; the counts at the *)
(* last interval ends are kept in a ring and the speed since the oldest of *)
(* them is compared with the limit.  One unit of time is what gettimeofday *)
(* can tell apart.                                                         *)
(***************************************************************************)
EXTENDS Integers, Functions

CONSTANTS limit, size,          \* so many packages of this size in a unit of time
          interval, duration,
          MaxTime, MaxCount     \* bounds on the clock and on the packages

LimitAssumption ==
    /\ {limit, size, interval} \subseteq Nat \ {0} /\ {MaxTime, MaxCount} \subseteq Nat
    /\ duration \in {k * interval : k \in 1..MaxTime}

times == duration \div interval + 1

VARIABLES now,          \* gettimeofday
          time_point, index, data, count,       \* the fields of limit_speed
          result,       \* what the last check returned, until it is used
          sent,         \* history: count at the end of each unit of time
          slow,         \* history: a check came so late that the ring stayed more
                        \* than an interval behind; the intervals still to go
                        \* until the ring and the last stretch are younger
          forgotten     \* history: the count when the ring last came round with
                        \* nothing in its last slot

vars == <<now, time_point, index, data, count, result, sent, slow, forgotten>>

TypeOK ==
    /\ now \in 0..MaxTime /\ time_point \in 0..now
    /\ index \in 0..(times - 1) /\ data \in [0..(times - 1) -> 0..count]
    /\ count \in 0..MaxCount
    /\ result \in BOOLEAN /\ slow \in 0..(2 * times) /\ forgotten \in 0..count
    /\ DOMAIN sent = 0..now /\ \A t \in 0..now : sent[t] \in 0..count

(* limit_speed_init                                                        *)
Init ==
    /\ now = 0 /\ time_point = 0 /\ index = 0 /\ count = 0
    /\ data = [i \in 0..(times - 1) |-> 0]
    /\ result = FALSE /\ sent = [t \in {0} |-> 0] /\ slow = 0 /\ forgotten = 0

Tick ==
    /\ now < MaxTime
    /\ now' = now + 1
    /\ sent' = [t \in 0..now' |-> IF t = now' THEN count ELSE sent[t]]
    /\ UNCHANGED <<time_point, index, data, count, result, slow, forgotten>>

-----------------------------------------------------------------------------
(* limit_speed_check, which the dispatcher of fastcache.c calls for every  *)
(* node of a list, to add to the one it chooses (limit_speed_add).         *)

Elapsed == now - time_point + 1

Due == Elapsed > interval

(* The ring moves by one interval at most, however much time went by.      *)
Index == IF Due THEN (index + 1) % times ELSE index
Ring == IF Due THEN [data EXCEPT ![Index] = count] ELSE data
Since == IF Due THEN Elapsed - interval ELSE Elapsed

(* The slot to compare with and the time from its end to the newest one.   *)
Full == Ring[times - 1] # 0

(* Mutant: the newest slot for the oldest.                                 *)
Oldest_Newest == IF Full THEN Index ELSE 0

Oldest == IF Full THEN (Index + 1) % times ELSE 0

(* Mutant: the time is counted from slot 0 in a full ring, too.            *)
Covered_FromZero == interval * Index

Covered == IF Full THEN duration ELSE interval * Index

Fast == (count - Ring[Oldest]) * size > limit * (Covered + Since)

limit_speed_check ==
    /\ index' = Index /\ data' = Ring
    /\ time_point' = IF Due THEN time_point + interval ELSE time_point
    /\ result' = ~Fast
    /\ slow' = IF Since > interval THEN 2 * times ELSE IF Due /\ slow > 0 THEN slow - 1 ELSE slow
    /\ forgotten' = IF Due /\ Index = 0 /\ ~Full THEN count ELSE forgotten
    /\ UNCHANGED <<now, count, sent>>

limit_speed_add ==
    /\ result /\ count < MaxCount
    /\ count' = count + 1 /\ result' = FALSE
    /\ sent' = [sent EXCEPT ![now] = count']
    /\ UNCHANGED <<now, time_point, index, data, slow, forgotten>>

Next == Tick \/ limit_speed_check \/ limit_speed_add

Spec == Init /\ [][Next]_vars

-----------------------------------------------------------------------------
(* Properties                                                              *)

(* The packages of the units of time from..now, and those the ring knows.  *)
Sent(from) == count - IF from = 0 THEN 0 ELSE sent[from - 1]
Known(from) == IF Sent(from) > count - forgotten THEN count - forgotten ELSE Sent(from)

(* While checks come often enough, no stretch of the length of the ring    *)
(* has more packages than the limit allows for it and one interval more,   *)
(* besides two: the one whose check found nothing to complain about, and   *)
(* one that goes out between the end of an interval and the check that     *)
(* notices it.  But a ring that comes round while its last slot says 0,    *)
(* because nothing was sent until then, takes itself for a new one         *)
(* (limit.c:58) and forgets what went out since: as much again.            *)
SpeedKept ==
    /\ slow = 0 =>
        \A from \in 0..now :
            now - from < duration =>
                (Known(from) - 2) * size <= limit * (duration + interval)
    /\ (forgotten - 1) * size <= limit * (duration + interval)

(* Whoever is refused was too fast over some stretch that ends now.        *)
RefusedWhenFast ==
    [][limit_speed_check /\ Fast =>
        \E from \in 0..now : Sent(from) * size > limit * (now - from + 1)]_vars

=============================================================================
