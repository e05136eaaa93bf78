----------------------------- MODULE MCTransfer -------------------------------
(***************************************************************************)
(* The components that carry packages, side by side: a behaviour is about  *)
(* one of them (what), the others stand still.                             *)
(*   "transqueue"  the module this one extends;                            *)
(*   "redundancy"  two units of sixteen packages, three of them lost;      *)
(*   "one unit"    one such unit, any of its packages lost;                *)
(*   "limit"       a packet takes five units of time, the ring has three   *)
(*                 slots of three units each.                              *)
(***************************************************************************)
EXTENDS TransQueue, TLC

VARIABLES what,
          rid, rnum, rlost, decoder, list, clean,               \* of Redundancy
          now, time_point, index, ring, passed, result, sent, slow, forgotten \* of Limit

queueVars == <<sender, net, receiver>>
redundancyVars == <<rid, rnum, rlost, decoder, list, clean>>
limitVars == <<now, time_point, index, ring, passed, result, sent, slow, forgotten>>
allVars == <<what, queueVars, redundancyVars, limitVars>>

R == INSTANCE Redundancy WITH
        Units <- 2, MaxLost <- 3, id <- rid, num <- rnum, lost <- rlost, r <- decoder

(* The same code for one unit with every loss there is.                    *)
One == INSTANCE Redundancy WITH
        Units <- 1, MaxLost <- 16, id <- rid, num <- rnum, lost <- rlost, r <- decoder

S == INSTANCE Limit WITH
        limit <- 1, size <- 5, interval <- 3, duration <- 6, MaxTime <- 16, MaxCount <- 6,
        data <- ring, count <- passed

Earlier(c, d) ==
    \E e \in 1..3 : c[e] < d[e] /\ \A f \in 1..(e - 1) : c[f] = d[f]

(* A code package is numbered when the loop of transqueue_send comes to it,*)
(* and every cell of a unit has a number.                                  *)
ASSUME CodeInLoopOrder ==
    /\ \A m, n \in Nums \ Data : m < n => Earlier(Cell[m], Cell[n])
    /\ {Cell[n] : n \in Nums} = Side \X Side \X Side

ASSUME R!RedundancyAssumption /\ S!LimitAssumption

MCInit ==
    /\ what \in {"transqueue", "redundancy", "one unit", "limit"}
    /\ Init /\ R!Init /\ S!Init

MCNext ==
    \/ what = "transqueue" /\ Next /\ UNCHANGED <<what, redundancyVars, limitVars>>
    \/ what = "redundancy" /\ R!Next /\ UNCHANGED <<what, queueVars, limitVars>>
    \/ what = "one unit" /\ One!Next /\ UNCHANGED <<what, queueVars, limitVars>>
    \/ what = "limit" /\ S!Next /\ UNCHANGED <<what, queueVars, redundancyVars>>

MCSpec == MCInit /\ [][MCNext]_allVars

-----------------------------------------------------------------------------

(* The variables of all parts stay in their ranges, those of TransQueue by *)
(* its TypeOK.                                                             *)
TypesOK ==
    /\ TypeOK
    /\ what = "redundancy" => R!TypeOK
    /\ what = "one unit" => One!TypeOK
    /\ what = "limit" => S!TypeOK

(* The other code restores what was sent under the number it found, makes  *)
(* up for a lone loss behind the first package, and a unit that arrives    *)
(* whole leaves nothing behind for the next one.                           *)
RedundancyRight == what \in {"redundancy", "one unit"} => R!RedundancyRight

(* No stretch of time as long as the ring sees much more than the limit.   *)
SpeedKept == what = "limit" => S!SpeedKept

(* Whoever is refused was too fast over some stretch that ends now.        *)
RefusedWhenFast == S!RefusedWhenFast
=============================================================================
