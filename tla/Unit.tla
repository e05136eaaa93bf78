-------------------------------- MODULE Unit ----------------------------------
(***************************************************************************)
(* The erasure code of unit.c: a cube of UNIT_LENGTH packages a side whose *)
(* last plane in each direction is the exclusive or of the other planes.   *)
(* A package is known by its number in the order of sending: first the     *)
(* data, then the code packages.  What a package holds is the set of data  *)
(* packages it is the exclusive or of.                                     *)
(***************************************************************************)
EXTENDS Integers, FiniteSets

CONSTANTS UNIT_LENGTH, NULL

ASSUME UnitAssumption == UNIT_LENGTH \in Nat \ {0, 1} /\ NULL \notin Int

Top == UNIT_LENGTH - 1
Side == 0..Top

UNIT_DATA_COUNT == Top * Top * Top
UNIT_TOTAL_COUNT == UNIT_LENGTH * UNIT_LENGTH * UNIT_LENGTH

Nums == 0..(UNIT_TOTAL_COUNT - 1)
Data == 0..(UNIT_DATA_COUNT - 1)

(* Where package num is: code.i of transqueue_send, for a code package     *)
(* where its loop comes to it.  A plane of direction i that is not the last*)
(* has the last cell of its rows, then its last row; the last plane is     *)
(* whole.                                                                  *)
DataCell(num) == <<num \div (Top * Top), (num \div Top) % Top, num % Top>>

CodeCell(c) ==
    LET i == c \div (2 * Top + 1)
        r == c % (2 * Top + 1)
        s == c - Top * (2 * Top + 1)
    IN  IF i >= Top THEN <<Top, s \div UNIT_LENGTH, s % UNIT_LENGTH>>
        ELSE IF r < Top THEN <<i, r, Top>> ELSE <<i, Top, r - Top>>

Cell == [num \in Nums |->
    IF num \in Data THEN DataCell(num) ELSE CodeCell(num - UNIT_DATA_COUNT)]

(* The packages on the line through num in direction d: 1, 2, 3 for i, j, k.*)
Line == [d \in 1..3 |-> [num \in Nums |->
    {m \in Nums : \A e \in (1..3) \ {d} : Cell[m][e] = Cell[num][e]}]]

-----------------------------------------------------------------------------
(* unit_encode: the last package of every line in direction k of the data, *)
(* then in direction i for j short of the last, then in direction j.       *)

(* The exclusive or: what is in an odd number of the packages.             *)
XorOf(p, S) == {m \in Data : Cardinality({n \in S : m \in p[n]}) % 2 = 1}

Pass(p, d, where) ==
    [num \in Nums |-> IF Cell[num][d] = Top /\ num \in where
                      THEN XorOf(p, Line[d][num]) ELSE p[num]]

Plain == [num \in Nums |-> IF num \in Data THEN {num} ELSE {}]

Short(d) == {num \in Nums : Cell[num][d] < Top}

EncodedK == Pass(Plain, 3, Short(1) \cap Short(2))
EncodedI == Pass(EncodedK, 1, Short(2))

(* Mutant: the last loop stops short of the last plane, too.               *)
unit_encode_Short == Pass(EncodedI, 2, Short(1))

unit_encode == Pass(EncodedI, 2, Nums)

(* The packages of every line cancel out, those of code packages too: what *)
(* unit_decode relies on when it restores one package from the others.     *)
LinesCancel ==
    \A d \in 1..3, num \in Nums : XorOf(unit_encode, Line[d][num]) = {}

-----------------------------------------------------------------------------
(* unit_decode of u, which says of every number from which unit the package*)
(* is, or NULL.  A sweep restores the lines of one direction that lack one *)
(* package; from packages of different units it makes garbage.             *)

Mixture == -1

Restored(others) == IF Cardinality(others) = 1 THEN CHOOSE o \in others : TRUE ELSE Mixture

Sweep(u, d) ==
    LET missing == {n \in Nums : u[n] = NULL}
        lone == {n \in missing : Line[d][n] \cap missing = {n}}
    IN  IF lone = {} THEN u
        ELSE [n \in Nums |-> IF n \in lone THEN Restored({u[m] : m \in Line[d][n] \ {n}}) ELSE u[n]]

(* Mutant: no sweep in direction i.                                        *)
Round_TwoWays(u) == Sweep(Sweep(u, 3), 2)

(* One pass of the loop: directions k, i and j.  The loop ends with a pass *)
(* that restores nothing.                                                  *)
Round(u) == Sweep(Sweep(Sweep(u, 3), 1), 2)
=============================================================================
