------------------------------ MODULE TransQueue ------------------------------
(***************************************************************************)
(* The transfer queue of transqueue.c from transqueue_push to              *)
(* transqueue_pop: the sending thread numbers the packages, groups them in *)
(* units and follows each unit with its code packages, the monitor thread  *)
(* pads a unit that stays short, UDP loses packages and stalls, and the    *)
(* receiving thread passes the packages on, or after a gap collects the    *)
(* rest of the unit and restores what it can.  A package is its place      *)
(* <<code.id, code.num>>.  The datagrams on their way and tq->fq, which    *)
(* transqueue_fast fills, are one queue.                                   *)
(***************************************************************************)
EXTENDS Unit, Sequences, SequencesExt

CONSTANTS Units,        \* bound on the units sent
          MaxSent,      \* bound on the packages sent
          MaxEvents,    \* bound on the outages of UDP and the padding
                        \* packages together
          Backlog       \* bound on the packages under way

Places == (0..(Units - 1)) \X Nums

ASSUME TransQueueAssumption ==
    Units \in Nat \ {0} /\ {MaxSent, MaxEvents, Backlog} \subseteq Nat /\ NULL \notin Places

VARIABLES id, number,   \* the sender: static id, tq->number
          pads,         \* places of the packages whose task.empty is set
          seen,         \* the monitor saw a unit that stays short
          events,       \* outages and padding packages so far
          fq,           \* places of the packages that arrive
          out,          \* whether there is an outage now
          pc, q,        \* the receiver: where it is, and the package it kept
          id_old, id_new, number_old,
          u,            \* tq->u, see unit_decode
          popped,       \* what the application gets, in this order
          lost,         \* places lost_package and lost_unit reported
          late          \* history: units whose collection timed out

sender == <<id, number, pads, seen>>
net == <<fq, events, out>>
receiver == <<pc, q, id_old, id_new, number_old, u, popped, lost, late>>
vars == <<sender, net, receiver>>

TypeOK ==
    /\ id \in 0..Units /\ number \in 0..(UNIT_TOTAL_COUNT - 1) /\ pads \subseteq Places
    /\ seen \in BOOLEAN
    /\ fq \in Seq(Places) /\ events \in 0..MaxEvents /\ out \in BOOLEAN
    /\ pc \in {"get", "collect", "decode"} /\ q \in Places \cup {NULL}
    /\ id_old \in -1..(Units - 1) /\ id_new \in 0..(Units - 1)
    /\ number_old \in Nums
    /\ u \in [Nums -> (0..(Units - 1)) \cup {NULL, Mixture}]
    /\ popped \in Seq(Places) /\ lost \subseteq (0..(Units - 1)) \X Data
    /\ late \subseteq 0..(Units - 1)

Blank == [num \in Nums |-> NULL]        \* unit_reset

Init ==
    /\ id = 0 /\ number = 0 /\ pads = {} /\ seen = FALSE
    /\ fq = <<>> /\ events = 0 /\ out = FALSE
    /\ pc = "get" /\ q = NULL
    /\ id_old = -1 /\ id_new = 0 /\ number_old = UNIT_TOTAL_COUNT - 1
    /\ u = Blank /\ popped = <<>> /\ lost = {} /\ late = {}

-----------------------------------------------------------------------------
(* The sender and the monitor                                              *)

(* transfer_send: UDP carries the package or, in an outage, loses it.      *)
transfer_send(place) ==
    IF out THEN UNCHANGED fq ELSE Len(fq) < Backlog /\ fq' = Append(fq, place)

Numbered ==
    /\ id < Units /\ id * UNIT_TOTAL_COUNT + number < MaxSent
    /\ number' = (number + 1) % UNIT_TOTAL_COUNT
    /\ id' = IF number = UNIT_TOTAL_COUNT - 1 THEN id + 1 ELSE id

(* A package of the application or, with task.empty, of the monitor.       *)
transqueue_send_data(empty) ==
    /\ number \in Data
    /\ transfer_send(<<id, number>>) /\ Numbered
    /\ pads' = IF empty THEN pads \cup {<<id, number>>} ELSE pads
    /\ empty => seen
    /\ seen' = (seen /\ ~empty)
    /\ UNCHANGED <<events, out, receiver>>

(* The unit is full: its code packages follow, under the lock.             *)
transqueue_send_code ==
    /\ number \in Nums \ Data
    /\ transfer_send(<<id, number>>) /\ Numbered
    /\ UNCHANGED <<pads, seen, events, out, receiver>>

(* The monitor decides to pad without the lock: when the package is sent,  *)
(* the unit may be another one.                                            *)
transqueue_monitor ==
    /\ ~seen /\ number # 0
    /\ events < MaxEvents /\ events' = events + 1
    /\ seen' = TRUE
    /\ UNCHANGED <<id, number, pads, fq, out, receiver>>

transqueue_send == (\E empty \in BOOLEAN : transqueue_send_data(empty)) \/ transqueue_send_code

Outage ==
    /\ IF out THEN UNCHANGED events ELSE events < MaxEvents /\ events' = events + 1
    /\ out' = ~out
    /\ UNCHANGED <<sender, fq, receiver>>

-----------------------------------------------------------------------------
(* The receiver                                                            *)

Goto(from, to) == pc = from /\ pc' = to

(* p of line 188: the package it kept, or the next one of fq.              *)
p0 == IF q # NULL THEN q ELSE Head(fq)

Take ==
    /\ q # NULL \/ fq # <<>>
    /\ q' = NULL /\ fq' = IF q # NULL THEN fq ELSE Tail(fq)

(* id_old of line 201, before the package is looked at.                    *)
Old == IF id_old < 0 THEN id_new ELSE id_old

InOrder(p) ==
    \/ p[1] = Old /\ (p[2] = number_old + 1 \/ number_old >= UNIT_DATA_COUNT - 1)
    \/ p[1] = Old + 1 /\ p[2] = 0 /\ number_old = UNIT_TOTAL_COUNT - 1

(* Mutant: packages of the unit before stay in tq->u.                      *)
Unit0_Kept(p) == u

Unit0(p) == IF p[1] # id_new THEN Blank ELSE u

(* task.empty, in a code package the exclusive or of those of the data.    *)
Empty(p) == Cardinality({m \in unit_encode[p[2]] : <<p[1], m>> \in pads}) % 2 = 1

(* The package that was expected.  Code packages and padding do not reach  *)
(* the application; code packages are not stored unless they look empty.   *)
transqueue_recv_order ==
  LET p == p0 IN
    /\ Goto("get", "get") /\ Take /\ InOrder(p)
    /\ u' = IF p[2] \in Data \/ Empty(p) THEN [Unit0(p) EXCEPT ![p[2]] = p[1]] ELSE Unit0(p)
    /\ popped' = IF p[2] \in Data /\ ~Empty(p) THEN Append(popped, p) ELSE popped
    /\ id_old' = p[1] /\ id_new' = p[1] /\ number_old' = p[2]
    /\ UNCHANGED <<sender, events, out, lost, late>>

(* What the first package after a gap proves lost.                         *)
Reported(p) ==
    IF p[1] = Old THEN {}
    ELSE { <<Old, num>> : num \in {n \in Data : n > number_old} } \cup
         { l \in Places : l[1] \in (Old + 1)..(p[1] - 1) /\ l[2] \in Data }

(* A package after a gap: the first of a unit is passed on and forgotten,  *)
(* any other starts the collection of its unit.                            *)
transqueue_recv_gap ==
  LET p == p0 IN
    /\ Take /\ Goto("get", IF p[2] = 0 THEN "get" ELSE "collect")
    /\ ~InOrder(p)
    /\ lost' = lost \cup Reported(p)
    /\ u' = [Unit0(p) EXCEPT ![p[2]] = p[1]]
    /\ id_new' = p[1]
    /\ IF p[2] = 0
       THEN /\ popped' = Append(popped, p)
            /\ id_old' = -1 /\ number_old' = UNIT_TOTAL_COUNT - 1
       ELSE /\ id_old' = Old
            /\ number_old' = IF p[1] # Old THEN 0 ELSE number_old
            /\ UNCHANGED popped
    /\ UNCHANGED <<sender, events, out, late>>

(* The rest of the unit, until its last package, one of another unit, or   *)
(* nothing for a second.                                                   *)
transqueue_recv_collect ==
    /\ fq # <<>>
    /\ LET p == Head(fq) IN
        /\ Goto("collect", IF p[1] # id_new \/ p[2] = UNIT_TOTAL_COUNT - 1
                           THEN "decode" ELSE "collect")
        /\ IF p[1] # id_new THEN q' = p /\ UNCHANGED u
           ELSE u' = [u EXCEPT ![p[2]] = p[1]] /\ UNCHANGED q
    /\ fq' = Tail(fq)
    /\ UNCHANGED <<sender, events, out, id_old, id_new, number_old, popped, lost, late>>

transqueue_recv_timeout ==
    /\ Goto("collect", "decode") /\ fq = <<>>
    /\ late' = late \cup {id_new}
    /\ UNCHANGED <<sender, net, q, id_old, id_new, number_old, u, popped, lost>>

(* unit_decode, as long as a pass of its loop restores something.          *)
transqueue_recv_round ==
    /\ Goto("decode", "decode")
    /\ \E v \in {Round(u)} : u # v /\ u' = v
    /\ UNCHANGED <<sender, net, q, id_old, id_new, number_old, popped, lost, late>>

(* A set of numbers in ascending order.                                    *)
Ascending(S) ==
    [i \in 1..Cardinality(S) |-> CHOOSE n \in S : Cardinality({m \in S : m < n}) = i - 1]

(* Every package of nums itself, or its report.                            *)
Deliver(nums) ==
    LET good == {n \in nums : u[n] # NULL /\ ~Empty(<<id_new, n>>)}
        order == Ascending(good)
    IN  /\ popped' = popped \o [i \in DOMAIN order |-> <<id_new, order[i]>>]
        /\ lost' = lost \cup {<<id_new, n>> : n \in {m \in nums : u[m] = NULL}}

Decoded ==
    /\ Goto("decode", "get") /\ u = Round(u)
    /\ id_old' = -1 /\ number_old' = UNIT_TOTAL_COUNT - 1
    /\ UNCHANGED <<sender, net, q, id_new, u, late>>

(* Mutant: from number_old on, instead of after it.                        *)
transqueue_recv_decode_Again == Decoded /\ Deliver({n \in Data : n >= number_old})

(* Then the data after number_old.                                         *)
transqueue_recv_decode == Decoded /\ Deliver({n \in Data : n > number_old})

transqueue_recv ==
    \/ transqueue_recv_order \/ transqueue_recv_gap
    \/ transqueue_recv_collect \/ transqueue_recv_timeout
    \/ transqueue_recv_round \/ transqueue_recv_decode

Next == transqueue_send \/ transqueue_monitor \/ Outage \/ transqueue_recv

Spec == Init /\ [][Next]_vars

-----------------------------------------------------------------------------
(* Properties                                                              *)

Before(a, b) == a[1] < b[1] \/ (a[1] = b[1] /\ a[2] < b[2])

(* The application gets the packages in the order they were pushed, each   *)
(* once, whether they were restored or not; what is reported lost never    *)
(* reaches it, nor the reverse.  Packages that come after the collection   *)
(* of their unit timed out are passed on a second time (late).  Padding    *)
(* reaches it only as the first package of a unit: the monitor was         *)
(* overtaken and a gap came before it.                                     *)
Delivered ==
    /\ \A i \in 1..(Len(popped) - 1) :
        popped[i + 1][1] \notin late => Before(popped[i], popped[i + 1])
    /\ \A p \in lost : p[1] \notin late => p \notin Range(popped)
    /\ \A p \in Range(popped) : p \in pads => p[2] = 0

(* Fewer missing packages than a cube of eight are always restored.        *)
FewRestored ==
    [][transqueue_recv_decode /\ Cardinality({n \in Nums : u[n] = NULL}) < 8
            => lost' = lost]_vars

(* When the code packages are sent, the lines of the unit cancel out, those*)
(* of code packages too, whatever order unit_encode made them in.          *)
CodeSound == number = UNIT_DATA_COUNT => LinesCancel

(* A restored package is never garbage: the line it is restored from       *)
(* cancels out, and packages of two units never meet in tq->u, for a unit  *)
(* is reset before the first package of another one.                       *)
DecodeSound == CodeSound /\ \A num \in Nums : u[num] \in {NULL, id_new}
=============================================================================
