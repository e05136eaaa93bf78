----------------------------- MODULE Redundancy -------------------------------
(***************************************************************************)
(* The second erasure code of the library (redundancy.c): eleven data      *)
(* packages and five code packages a unit, every code package the          *)
(* exclusive or of the data of one group, and the decoder that restores a  *)
(* package as soon as the groups single it out.  What a package holds is   *)
(* the set of the data packages <<unit, num>> it is the exclusive or of.   *)
(* Its code (id, i[0] and i[1]) says where it belongs: its number is in    *)
(* i[0] if it was sent, and in i[1] if it was restored, the other is 0.    *)
(* The channel loses packages and keeps their order.                       *)
(***************************************************************************)
EXTENDS Integers, FiniteSets, FiniteSetsExt, SequencesExt

CONSTANTS Units,        \* units sent
          MaxLost       \* bound on the packages lost

RedundancyAssumption == Units \in Nat \ {0} /\ MaxLost \in Nat

REDUNDANCY_LENGTH_DATA == 11
REDUNDANCY_LENGTH_CODE == 5
REDUNDANCY_LENGTH == REDUNDANCY_LENGTH_DATA + REDUNDANCY_LENGTH_CODE

Nums == 0..(REDUNDANCY_LENGTH - 1)
Data == 0..(REDUNDANCY_LENGTH_DATA - 1)
Groups == 1..REDUNDANCY_LENGTH_CODE

(* The groups each package is in: three or five of them for the data, a    *)
(* group of its own for each code package.                                 *)
redundancy_table ==
    << {3,4,5}, {2,4,5}, {2,3,5}, {2,3,4}, {1,4,5}, {1,3,5}, {1,3,4}, {1,2,5}, {1,2,4},
       {1,2,3}, {1,2,3,4,5}, {1}, {2}, {3}, {4}, {5} >>

Members ==
    LET table == redundancy_table IN [i \in Groups |-> {n \in Nums : i \in table[n + 1]}]

VARIABLES id, num,      \* the encoder: its unit, dn + cn
          lost,         \* places of the packages the channel lost
          r,            \* the decoder: [id, mark, dn, cp]
          list,         \* codes and contents of the packages it returned
          clean         \* history: r.cp was empty when this unit began

vars == <<id, num, lost, r, list, clean>>

Places == (0..(Units - 1)) \X Data

TypeOK ==
    /\ id \in 0..Units /\ num \in Nums
    /\ lost \subseteq (0..(Units - 1)) \X Nums
    /\ r.id \in -1..(Units - 1) /\ r.mark \subseteq Nums
    /\ r.dn \in 0..REDUNDANCY_LENGTH_DATA
    /\ \A i \in Groups : r.cp[i] \subseteq Places
    /\ \A p \in list : /\ p.id \in 0..(Units - 1) /\ p.i \in Data \X Nums
                       /\ p.holds \subseteq Places
    /\ clean \in BOOLEAN

Empty == [i \in Groups |-> {}]

(* The decoder starts in a random unit, so it resets at the first package. *)
Init ==
    /\ id = 0 /\ num = 0 /\ lost = {}
    /\ r = [id |-> -1, mark |-> {}, dn |-> 0, cp |-> Empty]
    /\ list = {} /\ clean = TRUE

-----------------------------------------------------------------------------
(* redundancy_encode, redundancy_stack_xor: what package n of a unit holds.*)
redundancy_encode(unit, n) ==
    IF n \in Data THEN {<<unit, n>>}
    ELSE { <<unit, m>> : m \in Members[n - REDUNDANCY_LENGTH_DATA + 1] \cap Data }

(* The next package of redundancy_encode; redundancy_reset ends the unit.  *)
Sent ==
    /\ id < Units
    /\ num' = (num + 1) % REDUNDANCY_LENGTH
    /\ id' = IF num = REDUNDANCY_LENGTH - 1 THEN id + 1 ELSE id

Lost ==
    /\ Sent /\ Cardinality(lost) < MaxLost
    /\ lost' = lost \cup {<<id, num>>}
    /\ UNCHANGED <<r, list, clean>>

-----------------------------------------------------------------------------
(* redundancy_xor: the groups of package n take what it holds.             *)
redundancy_xor(cp, n, holds) ==
    [i \in Groups |-> IF i \in redundancy_table[n + 1] THEN SymDiff(cp[i], holds) ELSE cp[i]]

(* The packages of group i, or of just one of the groups i and j, which    *)
(* are still missing: when there is one, cp tells what it holds.           *)
Missing(d, S) == S \ d.mark

Alone(d, i) == Missing(d, Members[i])

Between(d, i, j) == Missing(d, SymDiff(Members[i], Members[j]))

(* Where the loops of redundancy_imple stop first: i and, when it is two   *)
(* groups, j; 0 when they end.                                             *)
Singled(d, i) ==
    IF Cardinality(Alone(d, i)) = 1 THEN 0
    ELSE LET js == {j \in (i + 1)..REDUNDANCY_LENGTH_CODE : Cardinality(Between(d, i, j)) = 1}
         IN  IF js = {} THEN -1 ELSE Min(js)

(* Mutant: a restored package is not taken out of its groups.              *)
_redundancy_imple_NoXor(d, holds, n) ==
    [d EXCEPT !.mark = @ \cup {n}, !.dn = IF n \in Data THEN @ + 1 ELSE @,
              !.list = @ \cup {[id |-> d.id, i |-> <<0, n>>, holds |-> holds]}]

(* _redundancy_imple: the package is marked, counted and put into the list.*)
(* r->n and r->i are 0 here: i[0] gets r->i and i[1] the number.           *)
_redundancy_imple(d, holds, n) ==
    [d EXCEPT !.cp = redundancy_xor(d.cp, n, holds), !.mark = @ \cup {n},
              !.dn = IF n \in Data THEN @ + 1 ELSE @,
              !.list = @ \cup {[id |-> d.id, i |-> <<0, n>>, holds |-> holds]}]

Restore(d) ==
    LET found == {i \in Groups : Singled(d, i) # -1}
        i == Min(found)
        j == Singled(d, i)
    IN  IF d.dn = REDUNDANCY_LENGTH_DATA \/ found = {} THEN d
        ELSE IF j = 0 THEN _redundancy_imple(d, d.cp[i], CHOOSE n \in Alone(d, i) : TRUE)
        ELSE _redundancy_imple(d, SymDiff(d.cp[i], d.cp[j]),
                               CHOOSE n \in Between(d, i, j) : TRUE)

(* Every round marks a package: after one for each missing one nothing is  *)
(* left to do.                                                             *)
redundancy_imple(d) ==
    FoldLeft(LAMBDA e, k : Restore(e), d, [k \in 1..Cardinality(Missing(d, Nums)) |-> k])

(* redundancy_decode marks the package before _redundancy_decode finds     *)
(* that a unit began and redundancy_reset wipes all marks, but not cp.     *)
Reset(unit, n) ==
    IF r.id = unit THEN [r EXCEPT !.mark = @ \cup {n}]
    ELSE [id |-> unit, mark |-> {}, dn |-> 0, cp |-> r.cp]

(* Mutant: code packages are counted with the data.                        *)
Counted_All(d, n) == d.dn + 1

Counted(d, n) == IF n \in Data THEN d.dn + 1 ELSE d.dn

redundancy_decode(unit, n) ==
    LET holds == redundancy_encode(unit, n)
        s == Reset(unit, n)
        d == [id |-> s.id, mark |-> s.mark, dn |-> Counted(s, n),
              cp |-> redundancy_xor(s.cp, n, holds),
              list |-> list \cup {[id |-> unit, i |-> <<n, 0>>, holds |-> holds]}]
    IN  IF n \in Data \/ d.dn = REDUNDANCY_LENGTH_DATA THEN d ELSE redundancy_imple(d)

(* It returns every package of the list whose i[0] is that of data.        *)
Arrives ==
    /\ Sent
    /\ \E d \in {redundancy_decode(id, num)} :
        /\ r' = [id |-> d.id, mark |-> d.mark, dn |-> d.dn, cp |-> d.cp]
        /\ list' = {p \in d.list : p.i[1] \in Data}
    /\ clean' = IF r.id = id THEN clean ELSE r.cp = Empty
    /\ UNCHANGED lost

Next == Lost \/ Arrives

Spec == Init /\ [][Next]_vars

-----------------------------------------------------------------------------
(* Properties                                                              *)

LostOf(unit) == {n \in Nums : <<unit, n>> \in lost}

FirstOf(unit) == Min(Nums \ LostOf(unit))

(* The number of a package; i[0] alone does not tell (see above).          *)
NumOf(p) == p.i[1] + p.i[2]

Right(p) == p.holds = redundancy_encode(p.id, NumOf(p))

(* Between two units, with cp empty when the last one began.               *)
AfterUnit == num = 0 /\ id > 0 /\ r.id = id - 1 /\ clean

(* What the decoder returns for a number of the present unit is what was   *)
(* sent under it, if cp was empty when the unit began: data or, when it    *)
(* restored one of those, a code package, which the caller gets as well.   *)
(* The first package of a unit lost its mark, so it may be restored again, *)
(* as nothing at all.  A lone loss anywhere but at the front is made up    *)
(* for by the end of the unit; and after a unit without loss cp is as it   *)
(* was before: although nobody empties it, such a unit does not disturb    *)
(* the next one.                                                           *)
RedundancyRight ==
    /\ \A p \in list :
        p.id = r.id /\ clean =>
            \/ Right(p)
            \/ NumOf(p) = FirstOf(r.id) /\ p.holds = {}
    /\ AfterUnit /\ Cardinality(LostOf(r.id)) = 1 /\ 0 \notin LostOf(r.id) =>
        \A n \in Data : \E p \in list : p.id = r.id /\ NumOf(p) = n /\ Right(p)
    /\ AfterUnit /\ LostOf(r.id) = {} => r.cp = Empty
=============================================================================
