-------------------------- MODULE TransQueueProofs ---------------------------
(***************************************************************************)
(* Proofs about the transfer queue, for units of any length, any number of *)
(* units, and any backlog, outages and padding.  Three steps:              *)
(*  - numbers and cells of a unit correspond one to one, so every line has *)
(*    a package at every index;                                            *)
(*  - unit_encode leaves in every package the data it is made of, hence    *)
(*    every line cancels out; unit_decode restores packages of its unit    *)
(*    only, and where it ends with packages missing there are eight;       *)
(*  - the inductive invariant TransQueueInv: packages come in the order of *)
(*    sending, and what was passed on or reported is behind the receiver.  *)
(* The speed limit of limit.c, an instance of Limit, follows at the end.   *)
(***************************************************************************)
EXTENDS TransQueue, FiniteSetTheorems, TLAPS

(* Division of numbers, as the index arithmetic of transqueue.c uses it.   *)
LEMMA Digits ==
    ASSUME NEW n \in Nat, NEW d \in Nat \ {0}
    PROVE  /\ n \div d \in Nat /\ n % d \in 0..(d - 1)
           /\ n = (n \div d) * d + (n % d)
<1> DEFINE k == n \div d
<1>1. k \in Int /\ n % d \in 0..(d - 1) /\ n = d * k + (n % d) /\ k >= 0
  OBVIOUS
<1>2. d * k = k * d
  <2> HIDE DEF k
  <2> QED
    BY <1>1
<1> QED
  BY <1>1, <1>2

(* Two ways to write a number with a remainder are the same.               *)
LEMMA DigitsUnique ==
    ASSUME NEW d \in Nat \ {0}, NEW a \in Nat, NEW e \in Nat,
           NEW b \in 0..(d - 1), NEW f \in 0..(d - 1), a * d + b = e * d + f
    PROVE  a = e /\ b = f
<1>1. ~(a < e)
  <2> SUFFICES ASSUME a + 1 <= e PROVE FALSE
    OBVIOUS
  <2>1. (a + 1) * d <= e * d
    OBVIOUS
  <2> QED
    BY <2>1
<1>2. ~(e < a)
  <2> SUFFICES ASSUME e + 1 <= a PROVE FALSE
    OBVIOUS
  <2>1. (e + 1) * d <= a * d
    OBVIOUS
  <2> QED
    BY <2>1
<1> QED
  BY <1>1, <1>2

(* The quotient and the remainder of a number written with a remainder.    *)
LEMMA DivMod ==
    ASSUME NEW d \in Nat \ {0}, NEW a \in Nat, NEW b \in 0..(d - 1)
    PROVE  /\ a * d + b \in Nat /\ (a * d + b) \div d = a /\ (a * d + b) % d = b
           /\ \A e \in Nat : a < e => a * d + b < e * d
           /\ \A e \in Nat : a * d + b < e * d => a < e
<1> DEFINE n == a * d + b
<1>1. a * d \in Nat /\ n \in Nat
  OBVIOUS
<1>2. n \div d \in Nat /\ n % d \in 0..(d - 1) /\ n = (n \div d) * d + (n % d)
  BY <1>1, Digits
<1>3. n \div d = a /\ n % d = b
  <2> HIDE DEF n
  <2>1. a * d + b = (n \div d) * d + (n % d)
    BY <1>2 DEF n
  <2> QED
    BY <2>1, <1>2, DigitsUnique
<1>4. ASSUME NEW e \in Nat, a < e PROVE n < e * d
  <2>1. (a + 1) * d <= e * d
    BY <1>4
  <2> QED
    BY <2>1
<1>5. ASSUME NEW e \in Nat, n < e * d PROVE a < e
  <2> SUFFICES ASSUME e <= a PROVE FALSE
    OBVIOUS
  <2>1. e * d <= a * d
    OBVIOUS
  <2> QED
    BY <2>1, <1>5
<1> QED
  BY <1>1, <1>3, <1>4, <1>5

Row == 2 * Top + 1

(* How many packages a unit has: the data, the code packages of the planes *)
(* but the last, and those of the last plane.                              *)
LEMMA Counts ==
    /\ Top \in Nat \ {0} /\ UNIT_LENGTH = Top + 1 /\ Side = 0..Top
    /\ UNIT_DATA_COUNT \in Nat \ {0} /\ UNIT_DATA_COUNT = Top * (Top * Top)
    /\ Row \in Nat \ {0} /\ Top * Row \in Nat /\ UNIT_LENGTH * UNIT_LENGTH \in Nat \ {0}
    /\ UNIT_TOTAL_COUNT = UNIT_DATA_COUNT + Top * Row + UNIT_LENGTH * UNIT_LENGTH
    /\ UNIT_TOTAL_COUNT \in Nat /\ UNIT_DATA_COUNT < UNIT_TOTAL_COUNT
<1>1. Top \in Nat \ {0} /\ UNIT_LENGTH = Top + 1 /\ Side = 0..Top
  BY UnitAssumption DEF Top, Side
<1>2. UNIT_DATA_COUNT = Top * (Top * Top) /\ Top * Top \in Nat \ {0}
  BY <1>1 DEF UNIT_DATA_COUNT
<1>3. UNIT_DATA_COUNT \in Nat \ {0}
  BY <1>1, <1>2
<1>4. Row \in Nat \ {0} /\ Top * Row \in Nat /\ UNIT_LENGTH * UNIT_LENGTH \in Nat \ {0}
  BY <1>1 DEF Row
<1>5. UNIT_TOTAL_COUNT = UNIT_DATA_COUNT + Top * Row + UNIT_LENGTH * UNIT_LENGTH
  <2> HIDE DEF Top
  <2>1. UNIT_TOTAL_COUNT = (Top + 1) * (Top + 1) * (Top + 1)
    BY <1>1 DEF UNIT_TOTAL_COUNT
  <2>2. UNIT_DATA_COUNT = Top * (Top * Top)
    BY <1>2
  <2> QED
    BY <2>1, <2>2, <1>1 DEF Row
<1> QED
  BY <1>1, <1>2, <1>3, <1>4, <1>5

-----------------------------------------------------------------------------
(* Every cell of the cube has one number.                                  *)

Cube == Side \X Side \X Side

Inner(c) == c[1] < Top /\ c[2] < Top /\ c[3] < Top

DataNumber(c) == (c[1] * Top + c[2]) * Top + c[3]

CodeNumber(c) ==
    IF c[1] < Top THEN c[1] * Row + (IF c[2] < Top THEN c[2] ELSE Top + c[3])
    ELSE Top * Row + (c[2] * UNIT_LENGTH + c[3])

Number(c) == IF Inner(c) THEN DataNumber(c) ELSE UNIT_DATA_COUNT + CodeNumber(c)

(* A cell is given by its three indexes.                                   *)
LEMMA Coordinates ==
    ASSUME NEW c \in Cube
    PROVE  c[1] \in 0..Top /\ c[2] \in 0..Top /\ c[3] \in 0..Top /\ c = <<c[1], c[2], c[3]>>
  BY Counts DEF Cube

HasDigits(n, t, a, b, c) ==
    /\ n \in Nat /\ n < t * (t * t)
    /\ n \div (t * t) = a /\ (n \div t) % t = b /\ n % t = c

(* Three digits to base t are found again by division.                     *)
LEMMA ThreeDigits ==
    ASSUME NEW t \in Nat \ {0}, NEW a \in 0..(t - 1), NEW b \in 0..(t - 1), NEW c \in 0..(t - 1),
           NEW n, n = (a * t + b) * t + c
    PROVE  HasDigits(n, t, a, b, c)
<1> DEFINE h == a * t + b
           low == b * t + c
<1>1. h \in Nat /\ h % t = b
  BY DivMod
<1>2. n \in Nat /\ n \div t = h /\ n % t = c
  <2>1. n = h * t + c
    OBVIOUS
  <2> HIDE DEF h
  <2> QED
    BY <1>1, <2>1, DivMod
<1>3. low \in Nat /\ low < t * t
  BY DivMod
<1>4. t * t \in Nat \ {0} /\ n = a * (t * t) + low
  OBVIOUS
<1> DEFINE d == t * t
<1>5. n \div d = a /\ n < t * d
  <2> HIDE DEF low, d
  <2>1. d \in Nat \ {0} /\ low \in 0..(d - 1) /\ n = a * d + low
    BY <1>3, <1>4 DEF d
  <2> QED
    BY <2>1, DivMod
<1> HIDE DEF h
<1> QED
  BY <1>1, <1>2, <1>5 DEF h, HasDigits

(* DataNumber is the inverse of DataCell.                                  *)
LEMMA DataCellNumber ==
    ASSUME NEW c \in Cube, Inner(c)
    PROVE  DataNumber(c) \in Data /\ DataCell(DataNumber(c)) = c
<1>1. c[1] \in 0..(Top - 1) /\ c[2] \in 0..(Top - 1) /\ c[3] \in 0..(Top - 1)
  <2>1. c[1] \in 0..Top /\ c[2] \in 0..Top /\ c[3] \in 0..Top /\ Top \in Nat \ {0}
    BY Coordinates, Counts
  <2> QED
    BY <2>1 DEF Inner
<1>2. PICK t \in Nat \ {0} : t = Top
  BY Counts
<1>3. PICK i \in 0..(t - 1), j \in 0..(t - 1), k \in 0..(t - 1) : i = c[1] /\ j = c[2] /\ k = c[3]
  BY <1>1, <1>2
<1> DEFINE n == (i * t + j) * t + k
<1>5. DataNumber(c) = n
  BY <1>2, <1>3 DEF DataNumber
<1>4. n \in Nat /\ n < t * (t * t) /\ n \div (t * t) = i /\ (n \div t) % t = j /\ n % t = k
  <2>1. HasDigits(n, t, i, j, k)
    BY ThreeDigits
  <2> QED
    BY <2>1 DEF HasDigits
<1> HIDE DEF n
<1>6. n \in Data
  BY <1>2, <1>4, Counts DEF Data
<1>7. DataCell(n) = <<i, j, k>>
  BY <1>2, <1>4 DEF DataCell
<1>8. c = <<i, j, k>>
  BY <1>3, Coordinates
<1> QED
  BY <1>5, <1>6, <1>7, <1>8

(* CodeNumber is the inverse of CodeCell.                                  *)
LEMMA CodeCellNumber ==
    ASSUME NEW c \in Cube, ~Inner(c)
    PROVE  /\ CodeNumber(c) \in 0..(UNIT_TOTAL_COUNT - UNIT_DATA_COUNT - 1)
           /\ CodeCell(CodeNumber(c)) = c
<1>1. /\ c[1] \in 0..Top /\ c[2] \in 0..Top /\ c[3] \in 0..Top /\ c = <<c[1], c[2], c[3]>>
      /\ Top \in Nat \ {0} /\ Row \in Nat \ {0} /\ UNIT_LENGTH = Top + 1
      /\ Top * Row \in Nat /\ UNIT_LENGTH * UNIT_LENGTH \in Nat \ {0}
      /\ UNIT_TOTAL_COUNT - UNIT_DATA_COUNT = Top * Row + UNIT_LENGTH * UNIT_LENGTH
  <2>1. c[1] \in 0..Top /\ c[2] \in 0..Top /\ c[3] \in 0..Top /\ c = <<c[1], c[2], c[3]>>
    BY Coordinates
  <2>2. Top \in Nat \ {0} /\ Row \in Nat \ {0} /\ UNIT_LENGTH = Top + 1
    BY Counts
  <2>3. /\ Top * Row \in Nat /\ UNIT_LENGTH * UNIT_LENGTH \in Nat \ {0}
        /\ UNIT_TOTAL_COUNT - UNIT_DATA_COUNT = Top * Row + UNIT_LENGTH * UNIT_LENGTH
    BY Counts
  <2> QED
    BY <2>1, <2>2, <2>3
<1>2. CASE c[1] < Top
  <2> DEFINE r == IF c[2] < Top THEN c[2] ELSE Top + c[3]
             n == c[1] * Row + r
  <2>1. r \in 0..(Row - 1) /\ CodeNumber(c) = n
    BY <1>1, <1>2 DEF Row, CodeNumber
  <2>2. /\ (c[2] < Top => r < Top /\ c[3] = Top /\ r = c[2])
        /\ (~(c[2] < Top) => ~(r < Top) /\ c[2] = Top /\ r - Top = c[3])
    BY <1>1, <1>2 DEF Inner
  <2>3. n \in Nat /\ n \div Row = c[1] /\ n % Row = r /\ n < Top * Row
    <3> HIDE DEF r
    <3> QED
      BY <1>1, <1>2, <2>1, DivMod
  <2> HIDE DEF r, n
  <2>4. CodeCell(n) = IF c[1] >= Top THEN <<Top, (n - Top * Row) \div UNIT_LENGTH, (n - Top * Row) % UNIT_LENGTH>>
                      ELSE IF r < Top THEN <<c[1], r, Top>> ELSE <<c[1], Top, r - Top>>
    BY <2>3 DEF CodeCell, Row
  <2>5. CodeCell(n) = c
    BY <2>4, <2>2, <1>1, <1>2
  <2> QED
    BY <2>1, <2>3, <2>5, <1>1
<1>3. CASE ~(c[1] < Top)
  <2> DEFINE s == c[2] * UNIT_LENGTH + c[3]
             n == Top * Row + s
  <2>1. s \in Nat /\ s \div UNIT_LENGTH = c[2] /\ s % UNIT_LENGTH = c[3] /\ s < UNIT_LENGTH * UNIT_LENGTH
    BY <1>1, DivMod
  <2>2. CodeNumber(c) = n
    BY <1>3 DEF CodeNumber
  <2> HIDE DEF s
  <2>3. n \in Nat /\ n - Top * Row = s /\ n < Top * Row + UNIT_LENGTH * UNIT_LENGTH /\ ~(n < Top * Row)
    BY <1>1, <2>1
  <2> HIDE DEF n
  <2>4. n \div Row \in Nat /\ n = (n \div Row) * Row + (n % Row) /\ n % Row \in 0..(Row - 1)
    BY <1>1, <2>3, Digits
  <2>5. n \div Row >= Top
    <3> DEFINE k == n \div Row  r == n % Row
    <3> SUFFICES ASSUME ~(k >= Top) PROVE FALSE
      OBVIOUS
    <3>1. k \in Nat /\ n = k * Row + r /\ r \in 0..(Row - 1) /\ k < Top
      BY <2>4, <1>1
    <3> HIDE DEF k, r
    <3>2. k * Row + r < Top * Row
      BY <3>1, <1>1, DivMod
    <3> QED
      BY <3>1, <3>2, <2>3
  <2>6. CodeCell(n) = <<Top, s \div UNIT_LENGTH, s % UNIT_LENGTH>>
    BY <2>3, <2>5 DEF CodeCell, Row
  <2>7. CodeCell(n) = c
    BY <2>6, <2>1, <1>1, <1>3
  <2> QED
    BY <2>2, <2>3, <2>7, <1>1
<1> QED
  BY <1>2, <1>3

(* Every cell has a number, a data package's exactly when no index is the  *)
(* last.                                                                   *)
LEMMA CellOfNumber ==
    ASSUME NEW c \in Cube
    PROVE  /\ Number(c) \in Nums /\ Cell[Number(c)] = c
           /\ Number(c) \in Data <=> Inner(c)
<1>1. CASE Inner(c)
  <2>1. Number(c) = DataNumber(c)
    BY <1>1 DEF Number
  <2> QED
    BY <1>1, <2>1, DataCellNumber, Counts DEF Nums, Data, Cell
<1>2. CASE ~Inner(c)
  <2>1. Number(c) = UNIT_DATA_COUNT + CodeNumber(c)
    BY <1>2 DEF Number
  <2>2. CodeNumber(c) \in 0..(UNIT_TOTAL_COUNT - UNIT_DATA_COUNT - 1) /\ CodeCell(CodeNumber(c)) = c
    BY <1>2, CodeCellNumber
  <2>3. Number(c) \in Nums \ Data /\ Number(c) - UNIT_DATA_COUNT = CodeNumber(c)
    BY <2>1, <2>2, Counts DEF Nums, Data
  <2> QED
    BY <1>2, <2>2, <2>3 DEF Cell
<1> QED
  BY <1>1, <1>2

(* Every number of a data package is that of its cell.                     *)
LEMMA NumberOfData ==
    ASSUME NEW n \in Data
    PROVE  DataCell(n) \in Cube /\ Inner(DataCell(n)) /\ DataNumber(DataCell(n)) = n
<1> DEFINE h == n \div Top  i == n \div (Top * Top)
<1>1. Top \in Nat \ {0} /\ Top * Top \in Nat \ {0} /\ n \in Nat /\ n < Top * (Top * Top)
  BY Counts DEF Data
<1>2. h \in Nat /\ n = h * Top + (n % Top) /\ n % Top \in 0..(Top - 1)
  BY <1>1, Digits
<1>3. h \div Top \in Nat /\ h = (h \div Top) * Top + (h % Top) /\ h % Top \in 0..(Top - 1)
  <2> HIDE DEF h
  <2> QED
    BY <1>1, <1>2, Digits
<1> DEFINE a == h \div Top  b == h % Top  c == n % Top
           low == b * Top + c
<1>4. a \in Nat /\ b \in 0..(Top - 1) /\ c \in 0..(Top - 1) /\ n = (a * Top + b) * Top + c
  <2> HIDE DEF h
  <2> QED
    BY <1>2, <1>3
<1> HIDE DEF h
<1>5. low \in 0..(Top * Top - 1) /\ n = a * (Top * Top) + low
  <2> HIDE DEF a, b, c
  <2>1. low \in Nat /\ low < Top * Top
    BY <1>1, <1>4, DivMod
  <2>2. n = a * (Top * Top) + low
    BY <1>1, <1>4
  <2> HIDE DEF low
  <2> QED
    BY <2>1, <2>2, <1>1
<1> HIDE DEF low, a, b
<1>6. i = a /\ a < Top
  <2> HIDE DEF i
  <2>1. n \div (Top * Top) = a /\ a < Top
    BY <1>1, <1>4, <1>5, DivMod
  <2> QED
    BY <2>1 DEF i
<1>7. DataCell(n) = <<a, b, c>>
  BY <1>6 DEF DataCell, h, b
<1> HIDE DEF i, c
<1>8. <<a, b, c>> \in Cube /\ Inner(<<a, b, c>>) /\ DataNumber(<<a, b, c>>) = n
  BY <1>1, <1>4, <1>6, Counts DEF Cube, Inner, DataNumber
<1> QED
  BY <1>7, <1>8

(* Every number of a code package is that of its cell.                     *)
LEMMA NumberOfCode ==
    ASSUME NEW n \in 0..(UNIT_TOTAL_COUNT - UNIT_DATA_COUNT - 1)
    PROVE  CodeCell(n) \in Cube /\ ~Inner(CodeCell(n)) /\ CodeNumber(CodeCell(n)) = n
<1>1. /\ Top \in Nat \ {0} /\ Row \in Nat \ {0} /\ UNIT_LENGTH = Top + 1 /\ UNIT_LENGTH \in Nat \ {0}
      /\ Top * Row \in Nat /\ UNIT_LENGTH * UNIT_LENGTH \in Nat \ {0}
      /\ UNIT_TOTAL_COUNT - UNIT_DATA_COUNT = Top * Row + UNIT_LENGTH * UNIT_LENGTH
      /\ n \in Nat /\ Side = 0..Top
  BY Counts
<1> DEFINE i == n \div Row  r == n % Row  s == n - Top * Row
           j == s \div UNIT_LENGTH  k == s % UNIT_LENGTH
<1>2. i \in Nat /\ n = i * Row + r /\ r \in 0..(Row - 1)
  BY <1>1, Digits
<1>3. CodeCell(n) = IF i >= Top THEN <<Top, j, k>>
                    ELSE IF r < Top THEN <<i, r, Top>> ELSE <<i, Top, r - Top>>
  BY DEF CodeCell, Row
<1>4. CASE i >= Top
  <2> HIDE DEF i, r
  <2>1. s \in Nat /\ s < UNIT_LENGTH * UNIT_LENGTH
    <3>1. i * Row >= Top * Row
      BY <1>1, <1>2, <1>4
    <3> QED
      BY <3>1, <1>1, <1>2
  <2>2. j \in Nat /\ k \in 0..(UNIT_LENGTH - 1) /\ s = j * UNIT_LENGTH + k
    <3> HIDE DEF s
    <3> QED
      BY <2>1, <1>1, Digits
  <2>3. n = Top * Row + s
    BY <1>1
  <2> HIDE DEF j, k, s
  <2>4. j < UNIT_LENGTH
    <3>1. j * UNIT_LENGTH + k < UNIT_LENGTH * UNIT_LENGTH
      BY <2>1, <2>2
    <3> QED
      BY <3>1, <2>2, <1>1, DivMod
  <2>5. <<Top, j, k>> \in Cube /\ ~Inner(<<Top, j, k>>)
    BY <1>1, <2>2, <2>4 DEF Cube, Inner
  <2>6. CodeNumber(<<Top, j, k>>) = Top * Row + (j * UNIT_LENGTH + k)
    BY <1>1 DEF CodeNumber
  <2> QED
    BY <1>3, <1>4, <2>2, <2>3, <2>5, <2>6
<1>5. CASE ~(i >= Top) /\ r < Top
  <2> HIDE DEF i, r, j, k
  <2>1. <<i, r, Top>> \in Cube /\ ~Inner(<<i, r, Top>>)
    BY <1>1, <1>2, <1>5 DEF Cube, Inner
  <2>2. CodeNumber(<<i, r, Top>>) = i * Row + r
    BY <1>1, <1>2, <1>5 DEF CodeNumber
  <2> QED
    BY <1>2, <1>3, <1>5, <2>1, <2>2
<1>6. CASE ~(i >= Top) /\ ~(r < Top)
  <2> HIDE DEF i, r, j, k
  <2>1. r - Top \in 0..Top
    BY <1>1, <1>2, <1>6 DEF Row
  <2>2. <<i, Top, r - Top>> \in Cube /\ ~Inner(<<i, Top, r - Top>>)
    BY <1>1, <1>2, <1>6, <2>1 DEF Cube, Inner
  <2>3. CodeNumber(<<i, Top, r - Top>>) = i * Row + r
    BY <1>1, <1>2, <1>6 DEF CodeNumber
  <2> QED
    BY <1>2, <1>3, <1>6, <2>2, <2>3
<1> QED
  BY <1>4, <1>5, <1>6

(* Numbers and cells correspond one to one.                                *)
LEMMA NumberOfCell ==
    ASSUME NEW n \in Nums
    PROVE  Cell[n] \in Cube /\ Number(Cell[n]) = n /\ (Inner(Cell[n]) <=> n \in Data)
<1>1. CASE n \in Data
  BY <1>1, NumberOfData DEF Cell, Number
<1>2. CASE n \notin Data
  <2>1. n - UNIT_DATA_COUNT \in 0..(UNIT_TOTAL_COUNT - UNIT_DATA_COUNT - 1)
    BY <1>2, Counts DEF Nums, Data
  <2> DEFINE m == n - UNIT_DATA_COUNT
  <2>2. CodeCell(m) \in Cube /\ ~Inner(CodeCell(m)) /\ CodeNumber(CodeCell(m)) = m
    BY <2>1, NumberOfCode
  <2>3. Cell[n] = CodeCell(m) /\ UNIT_DATA_COUNT + m = n
    BY <1>2, Counts DEF Cell, Nums
  <2> HIDE DEF m
  <2> QED
    BY <1>2, <2>2, <2>3 DEF Number
<1> QED
  BY <1>1, <1>2
-----------------------------------------------------------------------------
(* Lines and sweeps.                                                       *)

Missing(v) == {n \in Nums : v[n] = NULL}

Lone(v, d) == {n \in Missing(v) : Line[d][n] \cap Missing(v) = {n}}

Of(x) == [Nums -> {NULL, x}]

(* Two packages in one cell are one.                                       *)
LEMMA SameCell ==
    ASSUME NEW m \in Nums, NEW n \in Nums,
           Cell[m][1] = Cell[n][1], Cell[m][2] = Cell[n][2], Cell[m][3] = Cell[n][3]
    PROVE  m = n
<1>1. Cell[m] \in Cube /\ Cell[n] \in Cube /\ Number(Cell[m]) = m /\ Number(Cell[n]) = n
  BY NumberOfCell
<1>2. Cell[m] = Cell[n]
  <2> DEFINE a == Cell[m]  b == Cell[n]
  <2>1. a \in Cube /\ b \in Cube /\ a[1] = b[1] /\ a[2] = b[2] /\ a[3] = b[3]
    BY <1>1
  <2> HIDE DEF a, b
  <2>2. a = <<a[1], a[2], a[3]>> /\ b = <<b[1], b[2], b[3]>>
    BY <2>1, Coordinates
  <2>3. a = b
    BY <2>1, <2>2
  <2> QED
    BY <2>3 DEF a, b
<1> QED
  BY <1>1, <1>2

(* The indexes of a package, and which packages are data.                  *)
LEMMA CellSides ==
    ASSUME NEW n \in Nums
    PROVE  /\ \A e \in 1..3 : Cell[n][e] \in 0..Top
           /\ Top \in Nat \ {0}
           /\ n \in Data <=> \A e \in 1..3 : Cell[n][e] < Top
<1>1. Cell[n] \in Cube /\ (Inner(Cell[n]) <=> n \in Data)
  BY NumberOfCell
<1>2. Cell[n][1] \in 0..Top /\ Cell[n][2] \in 0..Top /\ Cell[n][3] \in 0..Top
  BY <1>1, Coordinates
<1>3. \A e \in 1..3 : e = 1 \/ e = 2 \/ e = 3
  OBVIOUS
<1>4. Top \in Nat \ {0}
  BY Counts
<1> QED
  BY <1>1, <1>2, <1>3, <1>4 DEF Inner

At(m, n, d, x) ==
    /\ m \in Nums /\ Cell[m][d] = x
    /\ \A e \in (1..3) \ {d} : Cell[m][e] = Cell[n][e]

(* A line has a package at every index.                                    *)
LEMMA OtherOnLine ==
    ASSUME NEW n \in Nums, NEW d \in 1..3, NEW x \in 0..Top
    PROVE  \E m \in Line[d][n] : At(m, n, d, x)
<1>1. Cell[n][1] \in 0..Top /\ Cell[n][2] \in 0..Top /\ Cell[n][3] \in 0..Top
  BY CellSides
<1>2. d = 1 \/ d = 2 \/ d = 3
  OBVIOUS
<1> DEFINE c == IF d = 1 THEN <<x, Cell[n][2], Cell[n][3]>>
                ELSE IF d = 2 THEN <<Cell[n][1], x, Cell[n][3]>>
                ELSE <<Cell[n][1], Cell[n][2], x>>
<1>3. c \in Cube /\ c[d] = x /\ \A e \in (1..3) \ {d} : c[e] = Cell[n][e]
  BY <1>1, <1>2, Counts DEF Cube
<1> HIDE DEF c
<1>4. Number(c) \in Nums /\ Cell[Number(c)] = c
  BY <1>3, CellOfNumber
<1>5. Number(c) \in Line[d][n]
  BY <1>3, <1>4 DEF Line
<1> QED
  BY <1>3, <1>4, <1>5 DEF At

(* A sweep in terms of Lone: one that restores nothing changes nothing.    *)
LEMMA SweepIs ==
    ASSUME NEW v, NEW x, v \in Of(x), NEW d \in 1..3
    PROVE  Sweep(v, d) = [n \in Nums |-> IF n \in Lone(v, d)
                                         THEN Restored({v[m] : m \in Line[d][n] \ {n}}) ELSE v[n]]
<1>1. Lone(v, d) \subseteq Nums /\ DOMAIN v = Nums
  BY DEF Lone, Missing, Of
<1>2. Sweep(v, d) = IF Lone(v, d) = {} THEN v
                    ELSE [n \in Nums |-> IF n \in Lone(v, d)
                                         THEN Restored({v[m] : m \in Line[d][n] \ {n}}) ELSE v[n]]
  BY DEF Sweep, Lone, Missing
<1>3. v = [n \in Nums |-> v[n]]
  BY DEF Of
<1> QED
  BY <1>1, <1>2, <1>3

(* What a sweep restores in a unit that holds packages of one unit only is *)
(* a package of that unit: every line has another package.                 *)
LEMMA RestoredOf ==
    ASSUME NEW x \in Int, NEW v \in Of(x), NEW d \in 1..3, NEW n \in Lone(v, d)
    PROVE  Restored({v[m] : m \in Line[d][n] \ {n}}) = x
<1>1. n \in Nums /\ Line[d][n] \cap Missing(v) = {n} /\ Line[d][n] \subseteq Nums
  BY DEF Lone, Missing, Line
<1>2. \A m \in Line[d][n] \ {n} : v[m] = x
  BY <1>1 DEF Missing, Of
<1>3. PICK y \in 0..Top : y # Cell[n][d]
  <2>1. Cell[n][d] \in 0..Top /\ Top \in Nat \ {0}
    BY <1>1, CellSides
  <2>2. 0 \in 0..Top /\ Top \in 0..Top /\ 0 # Top
    BY <2>1
  <2> QED
    BY <2>2
<1>4. PICK m \in Line[d][n] : At(m, n, d, y)
  BY <1>1, OtherOnLine
<1>5. m \in Line[d][n] \ {n}
  BY <1>3, <1>4 DEF At
<1>6. {v[l] : l \in Line[d][n] \ {n}} = {x}
  BY <1>2, <1>5
<1>7. Cardinality({x}) = 1
  BY FS_Singleton
<1> QED
  BY <1>6, <1>7 DEF Restored

(* A sweep restores the lone packages of their lines, and keeps the unit.  *)
LEMMA SweepOf ==
    ASSUME NEW x \in Int, NEW v \in Of(x), NEW d \in 1..3
    PROVE  /\ Sweep(v, d) \in Of(x)
           /\ Missing(Sweep(v, d)) = Missing(v) \ Lone(v, d)
           /\ \A n \in Nums : n \notin Lone(v, d) => Sweep(v, d)[n] = v[n]
<1> DEFINE w == Sweep(v, d)
<1>1. w = [n \in Nums |-> IF n \in Lone(v, d)
                                         THEN Restored({v[m] : m \in Line[d][n] \ {n}}) ELSE v[n]]
  BY SweepIs
<1>2. \A n \in Lone(v, d) : Restored({v[m] : m \in Line[d][n] \ {n}}) = x
  BY RestoredOf
<1> HIDE DEF w
<1>3. DOMAIN w = Nums /\ w = [n \in Nums |-> w[n]]
  BY <1>1
<1>4. \A n \in Nums : w[n] = IF n \in Lone(v, d) THEN x ELSE v[n]
  BY <1>1, <1>2
<1>5. x # NULL
  BY UnitAssumption
<1>6. \A n \in Nums : v[n] \in {NULL, x}
  BY DEF Of
<1>7. w \in Of(x) /\ Missing(w) = Missing(v) \ Lone(v, d)
  <2>1. \A n \in Nums : w[n] \in {NULL, x}
    BY <1>4, <1>6
  <2>2. w \in Of(x)
    BY <2>1, <1>3 DEF Of
  <2>3. \A n \in Nums : w[n] = NULL <=> v[n] = NULL /\ n \notin Lone(v, d)
    BY <1>4, <1>5
  <2> QED
    BY <2>2, <2>3 DEF Missing
<1> QED
  BY <1>4, <1>7 DEF w

(* A pass of unit_decode keeps packages of one unit.                       *)
LEMMA RoundOf ==
    ASSUME NEW x \in Int, NEW v \in Of(x)
    PROVE  Round(v) \in Of(x)
<1>1. 1 \in 1..3 /\ 2 \in 1..3 /\ 3 \in 1..3
  OBVIOUS
<1>2. Sweep(v, 3) \in Of(x)
  BY <1>1, SweepOf
<1>3. Sweep(Sweep(v, 3), 1) \in Of(x)
  BY <1>1, <1>2, SweepOf
<1>4. Sweep(Sweep(Sweep(v, 3), 1), 2) \in Of(x)
  BY <1>1, <1>3, SweepOf
<1> QED
  BY <1>4 DEF Round

(* A sweep that restores nothing had nothing to restore.                   *)
LEMMA SweepNothing ==
    ASSUME NEW x \in Int, NEW v \in Of(x), NEW d \in 1..3, Missing(v) \subseteq Missing(Sweep(v, d))
    PROVE  Lone(v, d) = {} /\ Sweep(v, d) = v
<1>1. Missing(Sweep(v, d)) = Missing(v) \ Lone(v, d) /\ Lone(v, d) \subseteq Missing(v)
  BY SweepOf DEF Lone
<1>2. Lone(v, d) = {}
  BY <1>1
<1>3. Sweep(v, d) \in Of(x) /\ \A n \in Nums : Sweep(v, d)[n] = v[n]
  BY <1>2, SweepOf
<1> QED
  BY <1>2, <1>3 DEF Of

(* A pass of the loop that changes nothing leaves no package alone on a    *)
(* line of any direction.                                                  *)
LEMMA RoundNothing ==
    ASSUME NEW x \in Int, NEW v \in Of(x), v = Round(v)
    PROVE  \A d \in 1..3 : Lone(v, d) = {}
<1> DEFINE a == Sweep(v, 3)  b == Sweep(a, 1)  c == Sweep(b, 2)
<1>1. 1 \in 1..3 /\ 2 \in 1..3 /\ 3 \in 1..3 /\ \A d \in 1..3 : d = 1 \/ d = 2 \/ d = 3
  OBVIOUS
<1>2. a \in Of(x) /\ Missing(a) \subseteq Missing(v)
  BY <1>1, SweepOf
<1>3. v = c
  BY DEF Round
<1> HIDE DEF a
<1>4. b \in Of(x) /\ Missing(b) \subseteq Missing(a)
  BY <1>1, <1>2, SweepOf
<1> HIDE DEF b
<1>5. c \in Of(x) /\ Missing(c) \subseteq Missing(b)
  BY <1>1, <1>4, SweepOf
<1> HIDE DEF c
<1>6. Missing(v) = Missing(a) /\ Missing(a) = Missing(b) /\ Missing(b) = Missing(c)
  BY <1>2, <1>3, <1>4, <1>5
<1>7. Lone(v, 3) = {} /\ a = v
  BY <1>1, <1>6, SweepNothing DEF a
<1>8. Lone(a, 1) = {} /\ b = a
  BY <1>1, <1>2, <1>6, SweepNothing DEF b
<1>9. Lone(b, 2) = {}
  BY <1>1, <1>4, <1>6, SweepNothing DEF c
<1> QED
  BY <1>1, <1>7, <1>8, <1>9

(* Where no line lacks one package alone, every missing package has others *)
(* in the three directions.                                                *)
Beside(m, n, d) == Cell[m][d] # Cell[n][d] /\ \A e \in (1..3) \ {d} : Cell[m][e] = Cell[n][e]

(* A missing package that is not alone on its line has a missing one beside*)
(* it.                                                                     *)
LEMMA Neighbour ==
    ASSUME NEW v, NEW d \in 1..3, Lone(v, d) = {}, NEW n \in Missing(v)
    PROVE  \E m \in Missing(v) : Beside(m, n, d)
<1>1. n \in Nums /\ Missing(v) \subseteq Nums
  BY DEF Missing
<1>2. n \in Line[d][n]
  BY <1>1 DEF Line
<1>3. Line[d][n] \cap Missing(v) # {n}
  BY DEF Lone
<1>4. PICK m \in Line[d][n] \cap Missing(v) : m # n
  BY <1>2, <1>3
<1>5. m \in Nums /\ \A e \in (1..3) \ {d} : Cell[m][e] = Cell[n][e]
  BY <1>1, <1>4 DEF Line
<1>6. Cell[m][d] # Cell[n][d]
  <2> SUFFICES ASSUME Cell[m][d] = Cell[n][d] PROVE FALSE
    OBVIOUS
  <2>1. \A e \in 1..3 : Cell[m][e] = Cell[n][e]
    BY <1>5
  <2>2. Cell[m][1] = Cell[n][1] /\ Cell[m][2] = Cell[n][2] /\ Cell[m][3] = Cell[n][3]
    BY <2>1
  <2> QED
    BY <2>2, <1>1, <1>4, <1>5, SameCell
<1> QED
  BY <1>4, <1>5, <1>6 DEF Beside

(* One element more.                                                       *)
LEMMA AddOne ==
    ASSUME NEW S, NEW x, IsFiniteSet(S), x \notin S, NEW T, T = S \cup {x}
    PROVE  IsFiniteSet(T) /\ Cardinality(T) = Cardinality(S) + 1
  BY FS_AddElement

(* A unit is finite.                                                       *)
LEMMA NumsFinite == IsFiniteSet(Nums)
  BY FS_Interval, Counts DEF Nums

(* What unit_decode cannot restore has eight corners at least.             *)
LEMMA EightMissing ==
    ASSUME NEW v, \A d \in 1..3 : Lone(v, d) = {}, Missing(v) # {}
    PROVE  Cardinality(Missing(v)) >= 8
<1> DEFINE M == Missing(v)
<1>0. /\ 1 \in 1..3 /\ 2 \in 1..3 /\ 3 \in 1..3
      /\ (1..3) \ {1} = {2, 3} /\ (1..3) \ {2} = {1, 3} /\ (1..3) \ {3} = {1, 2}
  OBVIOUS
<1>1. /\ \A n \in M : \E m \in M : /\ Cell[m][1] # Cell[n][1] /\ Cell[m][2] = Cell[n][2]
                                   /\ Cell[m][3] = Cell[n][3]
      /\ \A n \in M : \E m \in M : /\ Cell[m][1] = Cell[n][1] /\ Cell[m][2] # Cell[n][2]
                                   /\ Cell[m][3] = Cell[n][3]
      /\ \A n \in M : \E m \in M : /\ Cell[m][1] = Cell[n][1] /\ Cell[m][2] = Cell[n][2]
                                   /\ Cell[m][3] # Cell[n][3]
  <2>1. \A n \in M : /\ \E m \in M : Beside(m, n, 1)
                     /\ \E m \in M : Beside(m, n, 2)
                     /\ \E m \in M : Beside(m, n, 3)
    <3>1. Lone(v, 1) = {} /\ Lone(v, 2) = {} /\ Lone(v, 3) = {}
      BY <1>0
    <3>2. ASSUME NEW n \in Missing(v)
          PROVE  /\ \E m \in Missing(v) : Beside(m, n, 1)
                 /\ \E m \in Missing(v) : Beside(m, n, 2)
                 /\ \E m \in Missing(v) : Beside(m, n, 3)
      BY <1>0, <3>1, Neighbour
    <3> QED
      BY <3>2
  <2>2. /\ \A m, n : Beside(m, n, 1) => /\ Cell[m][1] # Cell[n][1] /\ Cell[m][2] = Cell[n][2]
                                         /\ Cell[m][3] = Cell[n][3]
        /\ \A m, n : Beside(m, n, 2) => /\ Cell[m][1] = Cell[n][1] /\ Cell[m][2] # Cell[n][2]
                                         /\ Cell[m][3] = Cell[n][3]
        /\ \A m, n : Beside(m, n, 3) => /\ Cell[m][1] = Cell[n][1] /\ Cell[m][2] = Cell[n][2]
                                         /\ Cell[m][3] # Cell[n][3]
    BY <1>0 DEF Beside
  <2> HIDE DEF M
  <2> QED
    BY <2>1, <2>2
<1>2. M # {} /\ IsFiniteSet(M)
  BY NumsFinite, FS_Subset DEF Missing
<1> HIDE DEF M
<1>3. PICK n1 \in M : TRUE
  BY <1>2
<1>4. PICK n2 \in M : Cell[n2][1] # Cell[n1][1] /\ Cell[n2][2] = Cell[n1][2] /\ Cell[n2][3] = Cell[n1][3]
  BY <1>1
<1>5. PICK n3 \in M : Cell[n3][1] = Cell[n1][1] /\ Cell[n3][2] # Cell[n1][2] /\ Cell[n3][3] = Cell[n1][3]
  BY <1>1
<1>6. PICK n4 \in M : Cell[n4][1] = Cell[n2][1] /\ Cell[n4][2] # Cell[n2][2] /\ Cell[n4][3] = Cell[n2][3]
  BY <1>1
<1>7. PICK m1 \in M : Cell[m1][1] = Cell[n1][1] /\ Cell[m1][2] = Cell[n1][2] /\ Cell[m1][3] # Cell[n1][3]
  BY <1>1
<1>8. PICK m2 \in M : Cell[m2][1] = Cell[n2][1] /\ Cell[m2][2] = Cell[n2][2] /\ Cell[m2][3] # Cell[n2][3]
  BY <1>1
<1>9. PICK m3 \in M : Cell[m3][1] = Cell[n3][1] /\ Cell[m3][2] = Cell[n3][2] /\ Cell[m3][3] # Cell[n3][3]
  BY <1>1
<1>10. PICK m4 \in M : Cell[m4][1] = Cell[n4][1] /\ Cell[m4][2] = Cell[n4][2] /\ Cell[m4][3] # Cell[n4][3]
  BY <1>1
<1>11. /\ n2 \notin {n1} /\ n3 \notin {n1, n2} /\ n4 \notin {n1, n2, n3}
       /\ m1 \notin {n1, n2, n3, n4} /\ m2 \notin {n1, n2, n3, n4, m1}
       /\ m3 \notin {n1, n2, n3, n4, m1, m2} /\ m4 \notin {n1, n2, n3, n4, m1, m2, m3}
  BY <1>4, <1>5, <1>6, <1>7, <1>8, <1>9, <1>10
<1> DEFINE S2 == {n1} \cup {n2}  S3 == S2 \cup {n3}  S4 == S3 \cup {n4}
           S5 == S4 \cup {m1}  S6 == S5 \cup {m2}  S7 == S6 \cup {m3}  S8 == S7 \cup {m4}
<1>13. S8 \subseteq M
  OBVIOUS
<1>14. IsFiniteSet({n1}) /\ Cardinality({n1}) = 1
  BY FS_Singleton
<1>15. IsFiniteSet(S2) /\ Cardinality(S2) = 2
  <2>1. n2 \notin {n1} /\ S2 = {n1} \cup {n2}
    BY <1>11
  <2>2. IsFiniteSet({n1}) /\ Cardinality({n1}) = 1
    BY <1>14
  <2> HIDE DEF S2, S3, S4, S5, S6, S7, S8
  <2> QED
    BY <2>1, <2>2, AddOne
<1>16. IsFiniteSet(S3) /\ Cardinality(S3) = 3
  <2>1. n3 \notin S2 /\ S3 = S2 \cup {n3}
    BY <1>11
  <2>2. IsFiniteSet(S2) /\ Cardinality(S2) = 2
    BY <1>15
  <2> HIDE DEF S2, S3, S4, S5, S6, S7, S8
  <2> QED
    BY <2>1, <2>2, AddOne
<1>17. IsFiniteSet(S4) /\ Cardinality(S4) = 4
  <2>1. n4 \notin S3 /\ S4 = S3 \cup {n4}
    BY <1>11
  <2>2. IsFiniteSet(S3) /\ Cardinality(S3) = 3
    BY <1>16
  <2> HIDE DEF S2, S3, S4, S5, S6, S7, S8
  <2> QED
    BY <2>1, <2>2, AddOne
<1>18. IsFiniteSet(S5) /\ Cardinality(S5) = 5
  <2>1. m1 \notin S4 /\ S5 = S4 \cup {m1}
    BY <1>11
  <2>2. IsFiniteSet(S4) /\ Cardinality(S4) = 4
    BY <1>17
  <2> HIDE DEF S2, S3, S4, S5, S6, S7, S8
  <2> QED
    BY <2>1, <2>2, AddOne
<1>19. IsFiniteSet(S6) /\ Cardinality(S6) = 6
  <2>1. m2 \notin S5 /\ S6 = S5 \cup {m2}
    BY <1>11
  <2>2. IsFiniteSet(S5) /\ Cardinality(S5) = 5
    BY <1>18
  <2> HIDE DEF S2, S3, S4, S5, S6, S7, S8
  <2> QED
    BY <2>1, <2>2, AddOne
<1>20. IsFiniteSet(S7) /\ Cardinality(S7) = 7
  <2>1. m3 \notin S6 /\ S7 = S6 \cup {m3}
    BY <1>11
  <2>2. IsFiniteSet(S6) /\ Cardinality(S6) = 6
    BY <1>19
  <2> HIDE DEF S2, S3, S4, S5, S6, S7, S8
  <2> QED
    BY <2>1, <2>2, AddOne
<1>21. IsFiniteSet(S8) /\ Cardinality(S8) = 8
  <2>1. m4 \notin S7 /\ S8 = S7 \cup {m4}
    BY <1>11
  <2>2. IsFiniteSet(S7) /\ Cardinality(S7) = 7
    BY <1>20
  <2> HIDE DEF S2, S3, S4, S5, S6, S7, S8
  <2> QED
    BY <2>1, <2>2, AddOne
<1>22. Cardinality(S8) <= Cardinality(M) /\ Cardinality(M) \in Nat
  BY <1>2, <1>13, FS_Subset, FS_CardinalityType
<1>23. Cardinality(M) >= 8
  BY <1>21, <1>22
<1> QED
  BY <1>23 DEF M

-----------------------------------------------------------------------------
(* What a package is made of: the data packages it is the exclusive or of. *)

Support(n) == {m \in Data : \A e \in 1..3 : Cell[m][e] = Cell[n][e] \/ Cell[n][e] = Top}

Known(v, S) == \A n \in Nums : v[n] # NULL => Support(n) \subseteq S

(* The data comes first.                                                   *)
LEMMA DataInNums == Data \subseteq Nums
  BY Counts DEF Data, Nums

(* Data is made of itself only.                                            *)
LEMMA SupportOfData ==
    ASSUME NEW n \in Data
    PROVE  Support(n) = {n}
<1>1. n \in Nums
  BY DataInNums
<1>2. \A e \in 1..3 : Cell[n][e] # Top
  BY <1>1, CellSides
<1>3. ASSUME NEW m \in Support(n) PROVE m = n
  <2>1. m \in Nums /\ \A e \in 1..3 : Cell[m][e] = Cell[n][e]
    BY <1>2, DataInNums DEF Support
  <2>2. Cell[m][1] = Cell[n][1] /\ Cell[m][2] = Cell[n][2] /\ Cell[m][3] = Cell[n][3]
    BY <2>1
  <2> QED
    BY <1>1, <2>1, <2>2, SameCell
<1> QED
  BY <1>3 DEF Support

(* What is restored is made of what the rest of its line is made of.       *)
LEMMA SweepKnown ==
    ASSUME NEW x \in Int, NEW v \in Of(x), NEW d \in 1..3, NEW S, Known(v, S)
    PROVE  Known(Sweep(v, d), S)
<1> DEFINE w == Sweep(v, d)
<1> SUFFICES ASSUME NEW n \in Nums, w[n] # NULL, NEW m \in Support(n)
             PROVE  m \in S
  BY DEF Known
<1>1. CASE n \notin Lone(v, d)
  <2>1. v[n] # NULL
    BY <1>1, SweepOf
  <2> QED
    BY <2>1 DEF Known
<1>2. CASE n \in Lone(v, d)
  <2>1. \A l \in Line[d][n] \ {n} : v[l] # NULL /\ l \in Nums
    BY <1>2 DEF Lone, Missing, Line
  <2>2. m \in Data /\ m \in Nums /\ \A e \in 1..3 : Cell[m][e] = Cell[n][e] \/ Cell[n][e] = Top
    BY DataInNums DEF Support
  <2>3. Cell[n][d] \in 0..Top /\ Cell[m][d] \in 0..Top /\ Cell[m][d] # Top /\ Top \in 0..Top
    BY <2>2, CellSides
  <2> DEFINE y == IF Cell[n][d] = Top THEN Cell[m][d] ELSE Top
  <2>4. y \in 0..Top /\ y # Cell[n][d]
    BY <2>3
  <2>0. PICK l \in Line[d][n] : At(l, n, d, y)
    BY <2>4, OtherOnLine
  <2>5. /\ l \in Nums /\ Cell[l][d] = y
        /\ \A e \in (1..3) \ {d} : Cell[l][e] = Cell[n][e]
    BY <2>0 DEF At
  <2>6. l # n /\ v[l] # NULL
    BY <2>1, <2>4, <2>5
  <2>7. m \in Support(l)
    <3>1. ASSUME NEW e \in 1..3 PROVE Cell[m][e] = Cell[l][e] \/ Cell[l][e] = Top
      <4>1. CASE e = d
        BY <4>1, <2>5
      <4>2. CASE e # d
        BY <4>2, <2>2, <2>5
      <4> QED
        BY <4>1, <4>2
    <3> QED
      BY <2>2, <3>1 DEF Support
  <2> QED
    BY <2>5, <2>6, <2>7 DEF Known
<1> QED
  BY <1>1, <1>2

(* What a pass restores is made of what was there.                         *)
LEMMA RoundKnown ==
    ASSUME NEW x \in Int, NEW v \in Of(x), NEW S, Known(v, S)
    PROVE  Known(Round(v), S)
<1>1. 1 \in 1..3 /\ 2 \in 1..3 /\ 3 \in 1..3
  OBVIOUS
<1>2. Sweep(v, 3) \in Of(x) /\ Known(Sweep(v, 3), S)
  BY <1>1, SweepOf, SweepKnown
<1>3. Sweep(Sweep(v, 3), 1) \in Of(x) /\ Known(Sweep(Sweep(v, 3), 1), S)
  BY <1>1, <1>2, SweepOf, SweepKnown
<1>4. Known(Sweep(Sweep(Sweep(v, 3), 1), 2), S)
  BY <1>1, <1>3, SweepKnown
<1> QED
  BY <1>4 DEF Round

-----------------------------------------------------------------------------
(* What unit_encode makes.                                                 *)

(* The package on the line through n whose index in direction d is x.      *)
LEMMA OneOnLine ==
    ASSUME NEW n \in Nums, NEW d \in 1..3, NEW a \in Line[d][n], NEW b \in Line[d][n],
           Cell[a][d] = Cell[b][d]
    PROVE  a = b
<1>1. a \in Nums /\ b \in Nums /\ \A e \in (1..3) \ {d} : Cell[a][e] = Cell[n][e] /\ Cell[b][e] = Cell[n][e]
  BY DEF Line
<1>2. \A e \in 1..3 : Cell[a][e] = Cell[b][e]
  BY <1>1
<1>3. Cell[a][1] = Cell[b][1] /\ Cell[a][2] = Cell[b][2] /\ Cell[a][3] = Cell[b][3]
  BY <1>2
<1> QED
  BY <1>1, <1>3, SameCell

(* Data m is on the way of the line through n in direction d when it is in *)
(* what the last package of the line is made of.                           *)
Under(m, n, d) == \A e \in (1..3) \ {d} : Cell[m][e] = Cell[n][e] \/ Cell[n][e] = Top

(* What a package of the line is made of.                                  *)
LEMMA SupportOnLine ==
    ASSUME NEW n \in Nums, NEW d \in 1..3, NEW x \in Line[d][n], NEW m \in Data
    PROVE  m \in Support(x) <=> Under(m, n, d) /\ (Cell[x][d] = Cell[m][d] \/ Cell[x][d] = Top)
<1>1. x \in Nums /\ \A e \in (1..3) \ {d} : Cell[x][e] = Cell[n][e]
  BY DEF Line
<1>2. m \in Support(x) <=> \A e \in 1..3 : Cell[m][e] = Cell[x][e] \/ Cell[x][e] = Top
  BY DEF Support
<1>3. ASSUME m \in Support(x) PROVE Under(m, n, d) /\ (Cell[x][d] = Cell[m][d] \/ Cell[x][d] = Top)
  BY <1>1, <1>2, <1>3 DEF Under
<1>4. ASSUME Under(m, n, d), Cell[x][d] = Cell[m][d] \/ Cell[x][d] = Top PROVE m \in Support(x)
  <2>1. ASSUME NEW e \in 1..3 PROVE Cell[m][e] = Cell[x][e] \/ Cell[x][e] = Top
    <3>1. CASE e = d
      BY <1>4, <3>1
    <3>2. CASE e # d
      BY <1>1, <1>4, <3>2 DEF Under
    <3> QED
      BY <3>1, <3>2
  <2> QED
    BY <1>2, <2>1
<1> QED
  BY <1>3, <1>4

(* The packages made of m on a line that m is under: the one beside m, and *)
(* the last one.                                                           *)
LEMMA BesideAndLast ==
    ASSUME NEW n \in Nums, NEW d \in 1..3, NEW m \in Data, Under(m, n, d)
    PROVE  \E a, b \in Line[d][n] :
             /\ a # b /\ Cell[a][d] # Top /\ Cell[b][d] = Top
             /\ {x \in Line[d][n] : m \in Support(x)} = {a, b}
<1>1. m \in Nums /\ Cell[m][d] \in 0..Top /\ Cell[m][d] # Top /\ Top \in 0..Top
  BY DataInNums, CellSides
<1>2. PICK a \in Line[d][n] : At(a, n, d, Cell[m][d])
  BY <1>1, OtherOnLine
<1>3. PICK b \in Line[d][n] : At(b, n, d, Top)
  BY <1>1, OtherOnLine
<1>4. Cell[a][d] = Cell[m][d] /\ Cell[b][d] = Top /\ a # b
  BY <1>1, <1>2, <1>3 DEF At
<1>5. ASSUME NEW x \in Line[d][n] PROVE m \in Support(x) <=> x \in {a, b}
  <2>1. m \in Support(x) <=> (Cell[x][d] = Cell[a][d] \/ Cell[x][d] = Cell[b][d])
    BY <1>4, SupportOnLine
  <2>2. Cell[x][d] = Cell[a][d] <=> x = a
    BY OneOnLine
  <2>3. Cell[x][d] = Cell[b][d] <=> x = b
    BY OneOnLine
  <2> QED
    BY <2>1, <2>2, <2>3
<1>6. {x \in Line[d][n] : m \in Support(x)} = {a, b}
  BY <1>5
<1> QED
  BY <1>1, <1>4, <1>6

(* p has the packages of R, and not yet the others.                        *)
Made(p, R) == \A n \in Nums : p[n] = IF n \in R THEN Support(n) ELSE {}

(* The last package of a line, made of the others.                         *)
LEMMA LastMade ==
    ASSUME NEW p, NEW R, Made(p, R), NEW d \in 1..3, NEW n \in Nums, Cell[n][d] = Top,
           n \notin R, \A x \in Line[d][n] : x # n => x \in R
    PROVE  XorOf(p, Line[d][n]) = Support(n)
<1>1. n \in Line[d][n] /\ Line[d][n] \subseteq Nums
  BY DEF Line
<1> SUFFICES ASSUME NEW m \in Data
             PROVE  m \in XorOf(p, Line[d][n]) <=> m \in Support(n)
  BY DEF XorOf, Support
<1> DEFINE X == {x \in Line[d][n] : m \in p[x]}
<1>2. \A x \in Line[d][n] : m \in p[x] <=> x # n /\ m \in Support(x)
  BY <1>1 DEF Made
<1>3. CASE Under(m, n, d)
  <2>1. PICK a \in Line[d][n], b \in Line[d][n] :
            /\ a # b /\ Cell[a][d] # Top /\ Cell[b][d] = Top
            /\ {x \in Line[d][n] : m \in Support(x)} = {a, b}
    BY <1>3, BesideAndLast
  <2>2. b = n
    BY <1>1, <2>1, OneOnLine
  <2>3. X = {a}
    BY <1>2, <2>1, <2>2
  <2>4. Cardinality(X) = 1
    BY <2>3, FS_Singleton
  <2>5. m \in Support(n)
    BY <1>1, <1>3, SupportOnLine
  <2> QED
    BY <2>4, <2>5 DEF XorOf
<1>4. CASE ~Under(m, n, d)
  <2>1. X = {} /\ m \notin Support(n)
    BY <1>1, <1>2, <1>4, SupportOnLine
  <2>2. Cardinality(X) = 0
    BY <2>1, FS_EmptySet
  <2> QED
    BY <2>1, <2>2 DEF XorOf
<1> QED
  BY <1>3, <1>4

(* A pass in direction d makes the last packages of the lines that lack    *)
(* nothing else.                                                           *)
Adds(R, d, where, T) ==
    \A n \in Nums : /\ n \in T <=> n \in R \/ (Cell[n][d] = Top /\ n \in where)
                    /\ Cell[n][d] = Top /\ n \in where =>
                            n \notin R /\ \A x \in Line[d][n] : x # n => x \in R

(* A pass that adds the last packages of lines that are whole else.        *)
LEMMA PassMakes ==
    ASSUME NEW p, NEW R, NEW T, NEW where, Made(p, R), NEW d \in 1..3, Adds(R, d, where, T)
    PROVE  Made(Pass(p, d, where), T)
<1> SUFFICES ASSUME NEW n \in Nums
             PROVE  Pass(p, d, where)[n] = IF n \in T THEN Support(n) ELSE {}
  BY DEF Made
<1>1. CASE Cell[n][d] = Top /\ n \in where
  <2>1. Pass(p, d, where)[n] = XorOf(p, Line[d][n]) /\ n \in T
    BY <1>1 DEF Pass, Adds
  <2>2. XorOf(p, Line[d][n]) = Support(n)
    BY <1>1, LastMade DEF Adds
  <2> QED
    BY <2>1, <2>2
<1>2. CASE ~(Cell[n][d] = Top /\ n \in where)
  <2>1. Pass(p, d, where)[n] = p[n] /\ (n \in T <=> n \in R)
    BY <1>2 DEF Pass, Adds
  <2> QED
    BY <2>1 DEF Made
<1> QED
  BY <1>1, <1>2

(* The others of the line of a last package are short in its direction and *)
(* beside it in the others.                                                *)
LEMMA OthersShort ==
    ASSUME NEW n \in Nums, NEW d \in 1..3, Cell[n][d] = Top, NEW x \in Line[d][n], x # n
    PROVE  /\ x \in Short(d)
           /\ \A e \in 1..3 : e # d => (x \in Short(e) <=> n \in Short(e))
<1>1. x \in Nums /\ n \in Line[d][n] /\ \A e \in (1..3) \ {d} : Cell[x][e] = Cell[n][e]
  BY DEF Line
<1>2. Cell[x][d] # Top
  BY <1>1, OneOnLine
<1>3. Cell[x][d] \in 0..Top /\ Top \in Nat
  BY <1>1, CellSides
<1>4. x \in Short(d)
  BY <1>1, <1>2, <1>3 DEF Short
<1> QED
  BY <1>1, <1>4 DEF Short

(* unit_encode leaves in every package the data it is the exclusive or of. *)
LEMMA EncodeIs == \A n \in Nums : unit_encode[n] = Support(n)
<1>0. 1 \in 1..3 /\ 2 \in 1..3 /\ 3 \in 1..3 /\ \A e \in 1..3 : e = 1 \/ e = 2 \/ e = 3
  OBVIOUS
<1>1. \A n \in Nums, e \in 1..3 : Cell[n][e] = Top <=> n \notin Short(e)
  <2> SUFFICES ASSUME NEW n \in Nums, NEW e \in 1..3 PROVE Cell[n][e] = Top <=> ~(Cell[n][e] < Top)
    BY DEF Short
  <2>1. Cell[n][e] \in 0..Top /\ Top \in Nat
    BY CellSides
  <2> QED
    BY <2>1
<1>2. \A n \in Nums : n \in Data <=> n \in Short(1) /\ n \in Short(2) /\ n \in Short(3)
  BY <1>0, CellSides DEF Short
<1>3. Made(Plain, Data)
  BY SupportOfData DEF Made, Plain
<1>4. Made(EncodedK, Short(1) \cap Short(2))
  <2>1. \A n \in Nums : n \in Short(1) \cap Short(2)
            <=> n \in Data \/ (Cell[n][3] = Top /\ n \in Short(1) \cap Short(2))
    BY <1>0, <1>1, <1>2
  <2>2. ASSUME NEW n \in Nums, Cell[n][3] = Top, n \in Short(1) \cap Short(2)
        PROVE  n \notin Data /\ \A x \in Line[3][n] : x # n => x \in Data
    <3>1. n \notin Data
      BY <1>0, <1>1, <1>2, <2>2
    <3>2. ASSUME NEW x \in Line[3][n], x # n PROVE x \in Data
      <4>1. x \in Nums
        BY <1>0 DEF Line
      <4>2. x \in Short(3) /\ x \in Short(1) /\ x \in Short(2)
        BY <1>0, <2>2, <3>2, OthersShort
      <4> QED
        BY <1>2, <4>1, <4>2
    <3> QED
      BY <3>1, <3>2
  <2>3. Adds(Data, 3, Short(1) \cap Short(2), Short(1) \cap Short(2))
    BY <2>1, <2>2 DEF Adds
  <2> QED
    BY <1>0, <1>3, <2>3, PassMakes DEF EncodedK
<1>5. Made(EncodedI, Short(2))
  <2>1. \A n \in Nums : n \in Short(2)
            <=> n \in Short(1) \cap Short(2) \/ (Cell[n][1] = Top /\ n \in Short(2))
    BY <1>0, <1>1
  <2>2. ASSUME NEW n \in Nums, Cell[n][1] = Top, n \in Short(2)
        PROVE  /\ n \notin Short(1) \cap Short(2)
               /\ \A x \in Line[1][n] : x # n => x \in Short(1) \cap Short(2)
    <3>1. n \notin Short(1)
      BY <1>0, <1>1, <2>2
    <3>2. ASSUME NEW x \in Line[1][n], x # n PROVE x \in Short(1) /\ x \in Short(2)
      BY <1>0, <2>2, <3>2, OthersShort
    <3> QED
      BY <3>1, <3>2
  <2> QED
    <3>1. Adds(Short(1) \cap Short(2), 1, Short(2), Short(2))
      BY <2>1, <2>2 DEF Adds
    <3> QED
      BY <1>0, <1>4, <3>1, PassMakes DEF EncodedI
<1>6. Made(unit_encode, Nums)
  <2>1. \A n \in Nums : n \in Nums <=> n \in Short(2) \/ (Cell[n][2] = Top /\ n \in Nums)
    BY <1>0, <1>1
  <2>2. ASSUME NEW n \in Nums, Cell[n][2] = Top
        PROVE  n \notin Short(2) /\ \A x \in Line[2][n] : x # n => x \in Short(2)
    <3>1. n \notin Short(2)
      BY <1>0, <1>1, <2>2
    <3>2. ASSUME NEW x \in Line[2][n], x # n PROVE x \in Short(2)
      BY <1>0, <2>2, <3>2, OthersShort
    <3> QED
      BY <3>1, <3>2
  <2> QED
    <3>1. Adds(Short(2), 2, Nums, Nums)
      BY <2>1, <2>2 DEF Adds
    <3> QED
      BY <1>0, <1>5, <3>1, PassMakes DEF unit_encode
<1> QED
  BY <1>6 DEF Made

(* Every line cancels out, the lines of code packages too.                 *)
LEMMA LinesCancelOut == LinesCancel
<1> SUFFICES ASSUME NEW d \in 1..3, NEW n \in Nums, NEW m \in Data
             PROVE  m \notin XorOf(unit_encode, Line[d][n])
  BY DEF LinesCancel, XorOf
<1> DEFINE X == {x \in Line[d][n] : m \in unit_encode[x]}
<1>1. X = {x \in Line[d][n] : m \in Support(x)}
  BY EncodeIs DEF Line
<1>2. CASE Under(m, n, d)
  <2>1. PICK a \in Line[d][n], b \in Line[d][n] :
            /\ a # b /\ Cell[a][d] # Top /\ Cell[b][d] = Top
            /\ {x \in Line[d][n] : m \in Support(x)} = {a, b}
    BY <1>2, BesideAndLast
  <2>2. X = {a} \cup {b} /\ b \notin {a}
    BY <1>1, <2>1
  <2> HIDE DEF X
  <2>3. IsFiniteSet({a}) /\ Cardinality({a}) = 1
    BY FS_Singleton
  <2>4. Cardinality(X) = 2
    BY <2>2, <2>3, AddOne
  <2>5. Cardinality(X) % 2 # 1
    BY <2>4
  <2> QED
    BY <2>5 DEF X, XorOf
<1>3. CASE ~Under(m, n, d)
  <2>1. X = {}
    BY <1>1, <1>3, SupportOnLine
  <2>2. Cardinality(X) = 0
    BY <2>1, FS_EmptySet
  <2> QED
    BY <2>2 DEF XorOf
<1> QED
  BY <1>2, <1>3
-----------------------------------------------------------------------------
(* The inductive invariant.                                                *)

(* The place of the next package to be sent, and the packages that have yet*)
(* to come to the receiver.                                                *)
Upcoming == <<id, number>>

Coming == {fq[i] : i \in 1..Len(fq)} \cup (IF q = NULL THEN {} ELSE {q}) \cup {Upcoming}

(* Packages come in the order of sending.                                  *)
OrderInv ==
    /\ \A i, j \in 1..Len(fq) : i < j => Before(fq[i], fq[j])
    /\ \A i \in 1..Len(fq) : Before(fq[i], Upcoming)
    /\ q # NULL => Before(q, Upcoming) /\ \A i \in 1..Len(fq) : Before(q, fq[i])
    /\ pc = "collect" => q = NULL

(* The receiver is at the unit id_new, and past it once it decodes.        *)
UnitInv ==
    /\ u \in Of(id_new)
    /\ \A x \in Coming : x[1] >= id_new
    /\ pc = "get" => id_old \in {-1, id_new} /\ (id_old = -1 => number_old = UNIT_TOTAL_COUNT - 1)
    /\ pc = "decode" => \A x \in Coming : x[1] > id_new \/ id_new \in late

Settled == Range(popped) \cup lost

(* What was passed on or reported is behind the receiver.                  *)
PastInv ==
    /\ \A p \in Settled : \/ p[1] < id_new
                          \/ p[1] = id_new /\ (p[2] <= number_old \/ id_new \in late)
    /\ \A p \in Settled, x \in Coming : Before(p, x) \/ (p[1] = x[1] /\ p[1] \in late)
    /\ \A p \in Range(popped) : Before(p, Upcoming)

(* What tq->u holds is made of data that was sent.                         *)
SentOf(i) == {m \in Data : Before(<<i, m>>, Upcoming)}

KnownInv == Known(u, SentOf(id_new))

TransQueueInv == TypeOK /\ OrderInv /\ UnitInv /\ PastInv /\ KnownInv /\ Delivered

-----------------------------------------------------------------------------
(* Places and their order.                                                 *)

Pair(x) == x = <<x[1], x[2]>> /\ x[1] \in Int /\ x[2] \in Int

(* Places are pairs of numbers.                                            *)
LEMMA PlacePairs ==
    /\ \A p \in Places : Pair(p) /\ p[1] \in 0..(Units - 1) /\ p[2] \in Nums /\ p # NULL
    /\ \A p \in Places : p[2] \in 0..(UNIT_TOTAL_COUNT - 1)
    /\ \A i \in 0..(Units - 1), n \in Nums : <<i, n>> \in Places /\ i \in Int /\ n \in Int
  BY TransQueueAssumption, Counts DEF Places, Nums, Pair

(* The next place to be sent is a pair of numbers.                         *)
LEMMA UpcomingPair ==
    ASSUME TypeOK
    PROVE  Pair(Upcoming) /\ Upcoming[1] = id /\ Upcoming[2] = number
  BY Counts, TransQueueAssumption DEF TypeOK, Upcoming, Pair

(* What is to come has a number within its unit.                           *)
LEMMA ComingPlaces ==
    ASSUME TypeOK
    PROVE  /\ \A x \in Coming : Pair(x) /\ x[2] \in 0..(UNIT_TOTAL_COUNT - 1)
           /\ Upcoming \in Coming
<1>1. \A i \in 1..Len(fq) : fq[i] \in Places
  BY DEF TypeOK
<1>2. q # NULL => q \in Places
  BY DEF TypeOK
<1>3. Upcoming[2] \in 0..(UNIT_TOTAL_COUNT - 1) /\ Pair(Upcoming)
  BY UpcomingPair DEF TypeOK
<1> QED
  BY <1>1, <1>2, <1>3, PlacePairs DEF Coming

(* What was passed on or reported is a place.                              *)
LEMMA SettledPairs ==
    ASSUME TypeOK
    PROVE  /\ \A p \in Settled : p \in Places /\ Pair(p)
           /\ \A i \in 1..Len(popped) : popped[i] \in Places /\ popped[i] \in Range(popped)
           /\ \A p \in Range(popped) : \E i \in 1..Len(popped) : p = popped[i]
<1>1. popped \in Seq(Places) /\ DOMAIN popped = 1..Len(popped)
  BY DEF TypeOK
<1>2. \A p \in lost : p \in Places
  BY DataInNums DEF TypeOK, Places
<1>3. \A p \in Range(popped) : \E i \in 1..Len(popped) : p = popped[i]
  BY <1>1 DEF Range
<1>4. \A i \in 1..Len(popped) : popped[i] \in Places /\ popped[i] \in Range(popped)
  BY <1>1 DEF Range
<1> QED
  BY <1>2, <1>3, <1>4, PlacePairs DEF Settled

(* The order of sending is transitive.                                     *)
LEMMA BeforeTransitive ==
    ASSUME NEW x, NEW y, NEW z, Pair(x), Pair(y), Pair(z), Before(x, y), Before(y, z)
    PROVE  Before(x, z)
  BY DEF Pair, Before

(* A package set that is not sent yet, or lost, or on its way.             *)
LEMMA SendOrder ==
    ASSUME TypeOK, OrderInv, Numbered, transfer_send(Upcoming), Upcoming \in Places,
           UNCHANGED <<q, pc>>
    PROVE  /\ OrderInv' /\ fq' \in Seq(Places)
           /\ id' \in 0..Units /\ number' \in 0..(UNIT_TOTAL_COUNT - 1)
           /\ Pair(Upcoming') /\ Before(Upcoming, Upcoming')
           /\ \A x \in Coming' : x \in Coming \/ x = Upcoming'
<1>1. /\ id \in 0..(Units - 1) /\ number \in 0..(UNIT_TOTAL_COUNT - 1) /\ Units \in Nat
      /\ UNIT_TOTAL_COUNT \in Nat \ {0}
  BY Counts, TransQueueAssumption DEF TypeOK, Numbered
<1>2. /\ number' = IF number = UNIT_TOTAL_COUNT - 1 THEN 0 ELSE number + 1
      /\ id' = IF number = UNIT_TOTAL_COUNT - 1 THEN id + 1 ELSE id
  <2>1. number' = (number + 1) % UNIT_TOTAL_COUNT /\ id' = IF number = UNIT_TOTAL_COUNT - 1 THEN id + 1 ELSE id
    BY DEF Numbered
  <2>2. CASE number = UNIT_TOTAL_COUNT - 1
    <3>1. UNIT_TOTAL_COUNT % UNIT_TOTAL_COUNT = 0
      BY <1>1
    <3> QED
      BY <1>1, <2>1, <2>2, <3>1
  <2>3. CASE number # UNIT_TOTAL_COUNT - 1
    <3>1. number + 1 \in 0..(UNIT_TOTAL_COUNT - 1)
      BY <1>1, <2>3
    <3>2. (number + 1) % UNIT_TOTAL_COUNT = number + 1
      BY <1>1, <3>1
    <3> QED
      BY <2>1, <2>3, <3>2
  <2> QED
    BY <2>2, <2>3
<1>3. id' \in 0..Units /\ number' \in 0..(UNIT_TOTAL_COUNT - 1)
  BY <1>1, <1>2
<1>4. /\ Upcoming = <<id, number>> /\ Upcoming' = <<id', number'>>
      /\ Upcoming[1] = id /\ Upcoming[2] = number /\ Upcoming'[1] = id' /\ Upcoming'[2] = number'
  BY DEF Upcoming
<1>5. Pair(Upcoming') /\ Pair(Upcoming) /\ Before(Upcoming, Upcoming')
  BY <1>1, <1>2, <1>3, <1>4 DEF Pair, Before
<1>6. \A i \in 1..Len(fq) : fq[i] \in Places /\ Pair(fq[i])
  BY PlacePairs DEF TypeOK
<1>7. fq' = fq \/ fq' = Append(fq, Upcoming)
  BY DEF transfer_send
<1>8. fq \in Seq(Places) /\ Len(fq) \in Nat
  BY DEF TypeOK
<1>9. /\ fq' \in Seq(Places)
      /\ \A i \in 1..Len(fq') : (i \in 1..Len(fq) /\ fq'[i] = fq[i]) \/ fq'[i] = Upcoming
      /\ \A i, j \in 1..Len(fq') : i < j => i \in 1..Len(fq) /\ fq'[i] = fq[i]
  <2>1. CASE fq' = fq
    BY <2>1, <1>8
  <2>2. CASE fq' = Append(fq, Upcoming)
    BY <2>2, <1>8
  <2> QED
    BY <2>1, <2>2, <1>7
<1>10. /\ \A i \in 1..Len(fq) : Before(fq[i], Upcoming')
       /\ q # NULL => Before(q, Upcoming')
  <2>1. q # NULL => Pair(q)
    BY PlacePairs DEF TypeOK
  <2> QED
    BY <1>5, <1>6, <2>1, BeforeTransitive DEF OrderInv
<1>11. OrderInv'
  <2>1. q' = q /\ pc' = pc
    OBVIOUS
  <2>2. ASSUME NEW i \in 1..Len(fq'), NEW j \in 1..Len(fq'), i < j
        PROVE  Before(fq'[i], fq'[j])
    <3>1. i \in 1..Len(fq) /\ fq'[i] = fq[i]
      BY <1>7, <1>8, <1>9, <2>2
    <3>2. CASE j \in 1..Len(fq) /\ fq'[j] = fq[j]
      BY <2>2, <3>1, <3>2 DEF OrderInv
    <3>3. CASE fq'[j] = Upcoming
      BY <3>1, <3>3 DEF OrderInv
    <3> QED
      BY <1>9, <3>2, <3>3
  <2>3. \A i \in 1..Len(fq') : Before(fq'[i], Upcoming')
    BY <1>5, <1>9, <1>10
  <2>4. q # NULL => Before(q, Upcoming') /\ \A i \in 1..Len(fq') : Before(q, fq'[i])
    BY <1>9, <1>10 DEF OrderInv
  <2> QED
    BY <2>1, <2>2, <2>3, <2>4 DEF OrderInv
<1>12. \A x \in Coming' : x \in Coming \/ x = Upcoming'
  BY <1>9 DEF Coming
<1> QED
  BY <1>3, <1>5, <1>9, <1>11, <1>12

(* A package that is sent is behind all that was, and disturbs nothing.    *)
LEMMA SendKeeps ==
    ASSUME TransQueueInv, OrderInv', fq' \in Seq(Places),
           id' \in 0..Units, number' \in 0..(UNIT_TOTAL_COUNT - 1),
           Pair(Upcoming'), Before(Upcoming, Upcoming'),
           \A x \in Coming' : x \in Coming \/ x = Upcoming',
           seen' \in BOOLEAN, pads' \subseteq pads \cup {Upcoming}, Upcoming \in Places,
           UNCHANGED <<events, out, receiver>>
    PROVE  TransQueueInv'
<1>1. UNCHANGED <<events, out, pc, q, id_old, id_new, number_old, u, popped, lost, late>>
  BY DEF receiver
<1>2. TypeOK'
  BY <1>1 DEF TransQueueInv, TypeOK
<1>3. /\ Pair(Upcoming) /\ Upcoming \in Coming /\ \A x \in Coming : Pair(x)
      /\ \A p \in Settled : Pair(p) /\ \A i \in 1..Len(popped) : Pair(popped[i])
  BY UpcomingPair, ComingPlaces, SettledPairs, PlacePairs DEF TransQueueInv, Coming
<1>4. id_new \in Int /\ id_new' = id_new
  BY <1>1 DEF TransQueueInv, TypeOK
<1>5. UnitInv'
  <2>1. /\ Upcoming[1] >= id_new /\ Upcoming'[1] >= Upcoming[1]
        /\ Upcoming[1] \in Int /\ Upcoming'[1] \in Int
    BY <1>3 DEF TransQueueInv, UnitInv, Before, Pair
  <2>2. \A x \in Coming' : x[1] >= id_new
    BY <1>4, <2>1 DEF TransQueueInv, UnitInv
  <2>3. pc = "decode" => \A x \in Coming' : x[1] > id_new \/ id_new \in late
    BY <1>3, <1>4, <2>1 DEF TransQueueInv, UnitInv
  <2> QED
    BY <1>1, <2>2, <2>3 DEF TransQueueInv, UnitInv, Of
<1>6. PastInv'
  <2>1. Settled' = Settled /\ Range(popped)' = Range(popped) /\ late' = late /\ number_old' = number_old
    BY <1>1 DEF Settled, Range
  <2>2. ASSUME NEW p \in Settled PROVE Before(p, Upcoming') \/ (p[1] = Upcoming'[1] /\ p[1] \in late)
    <3>1. Before(p, Upcoming) \/ (p[1] = Upcoming[1] /\ p[1] \in late)
      BY <1>3 DEF TransQueueInv, PastInv
    <3> QED
      BY <1>3, <3>1 DEF Pair, Before
  <2>3. \A p \in Settled, x \in Coming' : Before(p, x) \/ (p[1] = x[1] /\ p[1] \in late)
    BY <2>2 DEF TransQueueInv, PastInv
  <2>4. \A p \in Range(popped) : Before(p, Upcoming')
    BY <1>3, BeforeTransitive DEF TransQueueInv, PastInv, Settled
  <2> QED
    BY <1>4, <2>1, <2>3, <2>4 DEF TransQueueInv, PastInv
<1>7. KnownInv'
  <2>1. \A m \in Data : Before(<<id_new, m>>, Upcoming) => Before(<<id_new, m>>, Upcoming')
    <3> SUFFICES ASSUME NEW m \in Data, Before(<<id_new, m>>, Upcoming) PROVE Before(<<id_new, m>>, Upcoming')
      OBVIOUS
    <3>1. Pair(<<id_new, m>>)
      BY <1>4, Counts DEF Data, Pair
    <3> QED
      BY <1>3, <3>1, BeforeTransitive
  <2>2. SentOf(id_new) \subseteq SentOf(id_new)'
    BY <1>4, <2>1 DEF SentOf
  <2>3. \A n \in Nums : u[n] # NULL => Support(n) \subseteq SentOf(id_new)'
    BY <2>2 DEF TransQueueInv, KnownInv, Known
  <2>4. u' = u
    BY <1>1
  <2> QED
    BY <2>3, <2>4 DEF KnownInv, Known
<1>8. Delivered'
  <2>1. \A p \in Range(popped) : p \in pads' => p[2] = 0
    <3> SUFFICES ASSUME NEW p \in Range(popped), p \in pads', p \notin pads PROVE FALSE
      BY DEF TransQueueInv, Delivered
    <3>1. p = Upcoming /\ Before(p, Upcoming)
      BY DEF TransQueueInv, PastInv
    <3> QED
      BY <3>1, <1>3 DEF Before, Pair
  <2> QED
    BY <1>1, <2>1 DEF TransQueueInv, Delivered, Range
<1> QED
  BY <1>2, <1>5, <1>6, <1>7, <1>8 DEF TransQueueInv
-----------------------------------------------------------------------------
(* The receiver takes a package.                                           *)

(* The package taken comes before those that are still to come.            *)
LEMMA TakeOrder ==
    ASSUME TypeOK, OrderInv, Take, UNCHANGED <<id, number>>
    PROVE  /\ p0 \in Places /\ p0 \in Coming /\ q' = NULL /\ fq' \in Seq(Places)
           /\ Coming' \subseteq Coming /\ Upcoming' = Upcoming
           /\ \A x \in Coming' : Before(p0, x)
           /\ OrderInv'
<1>1. fq \in Seq(Places) /\ Len(fq) \in Nat /\ q' = NULL
  BY DEF TypeOK, Take
<1>2. Upcoming' = Upcoming
  BY DEF Upcoming
<1>3. CASE q # NULL
  <2>1. fq' = fq /\ p0 = q /\ q \in Places
    BY <1>3 DEF Take, p0, TypeOK
  <2>2. \A x \in Coming' : x = Upcoming \/ \E i \in 1..Len(fq) : x = fq[i]
    BY <1>1, <1>2, <2>1 DEF Coming
  <2>3. Coming' \subseteq Coming /\ p0 \in Coming
    BY <1>3, <2>1, <2>2 DEF Coming
  <2>4. \A x \in Coming' : Before(p0, x)
    BY <1>3, <2>1, <2>2 DEF OrderInv
  <2>5. OrderInv'
    BY <1>1, <1>2, <2>1 DEF OrderInv
  <2> QED
    BY <1>1, <1>2, <2>1, <2>3, <2>4, <2>5
<1>4. CASE q = NULL
  <2>1. fq # <<>> /\ fq' = Tail(fq) /\ p0 = Head(fq)
    BY <1>4 DEF Take, p0
  <2>2. /\ p0 = fq[1] /\ 1 \in 1..Len(fq) /\ fq[1] \in Places
        /\ fq' \in Seq(Places) /\ Len(fq') = Len(fq) - 1
        /\ \A i \in 1..Len(fq') : fq'[i] = fq[i + 1] /\ i + 1 \in 1..Len(fq) /\ 1 < i + 1
    BY <1>1, <2>1
  <2>3. \A x \in Coming' : x = Upcoming \/ \E i \in 1..Len(fq') : x = fq'[i]
    BY <1>1, <1>2 DEF Coming
  <2>4. Coming' \subseteq Coming /\ p0 \in Coming
    <3>1. Upcoming \in Coming /\ \A i \in 1..Len(fq) : fq[i] \in Coming
      BY DEF Coming
    <3>2. \A i \in 1..Len(fq') : fq'[i] \in Coming
      BY <2>2, <3>1
    <3> QED
      BY <2>2, <2>3, <3>1, <3>2
  <2>5. \A x \in Coming' : Before(p0, x)
    BY <2>2, <2>3 DEF OrderInv
  <2>6. OrderInv'
    <3>1. ASSUME NEW i \in 1..Len(fq'), NEW j \in 1..Len(fq'), i < j PROVE Before(fq'[i], fq'[j])
      <4>1. i + 1 \in 1..Len(fq) /\ j + 1 \in 1..Len(fq) /\ i + 1 < j + 1
        BY <2>2, <3>1
      <4> QED
        BY <4>1, <2>2 DEF OrderInv
    <3> QED
      BY <1>1, <1>2, <2>2, <3>1 DEF OrderInv
  <2> QED
    BY <1>1, <1>2, <2>2, <2>4, <2>5, <2>6
<1> QED
  BY <1>3, <1>4

(* What a package that arrived is made of was sent.                        *)
LEMMA PutKnown ==
    ASSUME NEW i \in Int, NEW v \in Of(i), NEW n \in Nums, TypeOK,
           Known(v, SentOf(i)), Before(<<i, n>>, Upcoming)
    PROVE  [v EXCEPT ![n] = i] \in Of(i) /\ Known([v EXCEPT ![n] = i], SentOf(i))
<1> DEFINE w == [v EXCEPT ![n] = i]
<1>1. w \in Of(i) /\ \A m \in Nums : m # n => w[m] = v[m]
  BY DEF Of
<1>2. Pair(Upcoming) /\ Pair(<<i, n>>) /\ n \in Int
  BY UpcomingPair, Counts DEF Pair, Nums
<1>3. ASSUME NEW m \in Support(n) PROVE m \in SentOf(i)
  <2>1. m \in Data /\ m \in Int /\ Pair(<<i, m>>)
    BY Counts DEF Support, Data, Pair
  <2>2. CASE n \in Data
    <3>1. m = n
      BY <2>2, SupportOfData
    <3> QED
      BY <3>1, <2>1 DEF SentOf
  <2>3. CASE n \notin Data
    <3>1. m < n
      BY <2>1, <2>3, Counts DEF Data, Nums
    <3>2. Before(<<i, m>>, <<i, n>>)
      BY <3>1 DEF Before
    <3>3. Before(<<i, m>>, Upcoming)
      BY <1>2, <2>1, <3>2, BeforeTransitive
    <3> QED
      BY <2>1, <3>3 DEF SentOf
  <2> QED
    BY <2>2, <2>3
<1> HIDE DEF w
<1>4. Known(w, SentOf(i))
  BY <1>1, <1>3 DEF Known
<1> QED
  BY <1>1, <1>4 DEF w

(* unit_reset before the first package of another unit.                    *)
LEMMA ResetKnown ==
    ASSUME TransQueueInv, NEW p, p \in Places
    PROVE  Unit0(p) \in Of(p[1]) /\ Known(Unit0(p), SentOf(p[1]))
<1>1. CASE p[1] # id_new
  <2>1. Unit0(p) = [n \in Nums |-> NULL]
    BY <1>1 DEF Unit0, Blank
  <2> QED
    BY <2>1 DEF Of, Known
<1>2. CASE p[1] = id_new
  BY <1>2 DEF Unit0, TransQueueInv, UnitInv, KnownInv
<1> QED
  BY <1>1, <1>2

(* A package that is passed on, and reports of others.                     *)
LEMMA PassOn ==
    ASSUME TransQueueInv, NEW p, p \in Places, p \in Coming,
           popped' \in {popped, Append(popped, p)}, UNCHANGED <<late, pads>>, lost \subseteq lost',
           \A l \in lost' : l \in lost \/ l[1] \in late \/ (l \notin Range(popped) /\ l # p),
           popped' # popped /\ p \in pads => p[2] = 0
    PROVE  /\ popped' \in Seq(Places) /\ Range(popped)' \subseteq Range(popped) \cup {p}
           /\ Delivered'
<1>1. popped \in Seq(Places) /\ Len(popped) \in Nat /\ TypeOK
  BY DEF TransQueueInv, TypeOK
<1>2. /\ popped' \in Seq(Places) /\ DOMAIN popped = 1..Len(popped) /\ DOMAIN popped' = 1..Len(popped')
      /\ Len(popped') \in {Len(popped), Len(popped) + 1}
      /\ \A i \in 1..Len(popped) : popped'[i] = popped[i] /\ i \in 1..Len(popped')
      /\ \A i \in 1..Len(popped') : i \in 1..Len(popped) \/ (i = Len(popped) + 1 /\ popped'[i] = p /\ popped' # popped)
  <2>1. CASE popped' = popped
    BY <2>1, <1>1
  <2>2. CASE popped' = Append(popped, p)
    BY <2>2, <1>1
  <2> QED
    BY <2>1, <2>2
<1>3. Range(popped)' \subseteq Range(popped) \cup {p}
  <2> SUFFICES ASSUME NEW r \in Range(popped') PROVE r \in Range(popped) \cup {p}
    BY DEF Range
  <2>1. PICK i \in 1..Len(popped') : r = popped'[i]
    BY <1>2 DEF Range
  <2>2. CASE i \in 1..Len(popped)
    <3>1. r = popped[i]
      BY <1>2, <2>1, <2>2
    <3> QED
      BY <1>2, <2>2, <3>1 DEF Range
  <2>3. CASE popped'[i] = p
    BY <2>1, <2>3
  <2> QED
    BY <1>2, <2>2, <2>3
<1>4. /\ \A s \in Settled : Before(s, p) \/ (s[1] = p[1] /\ s[1] \in late)
      /\ \A i \in 1..Len(popped) : popped[i] \in Settled
      /\ Pair(p) /\ ~Before(p, p)
  <2>1. Pair(p)
    BY PlacePairs
  <2> QED
    BY <2>1, <1>1, SettledPairs, SMTT(40) DEF TransQueueInv, PastInv, Before, Pair, Settled
<1>5. ASSUME NEW i \in 1..(Len(popped') - 1), popped'[i + 1][1] \notin late'
      PROVE  Before(popped'[i], popped'[i + 1])
  <2>0. PICK n \in Nat : n = Len(popped) /\ Len(popped') \in {n, n + 1}
    BY <1>1, <1>2
  <2>1. /\ i \in 1..n /\ i + 1 \in 1..Len(popped')
        /\ i \in 1..Len(popped) /\ popped'[i] = popped[i] /\ popped[i] \in Settled
    <3>1. i \in 1..n /\ i + 1 \in 1..Len(popped')
      BY <2>0
    <3> QED
      BY <1>2, <1>4, <2>0, <3>1
  <2>2. CASE i + 1 \in 1..Len(popped)
    <3>1. i \in 1..(n - 1) /\ n - 1 = Len(popped) - 1
      BY <2>0, <2>1, <2>2
    <3>2. popped'[i + 1] = popped[i + 1] /\ late' = late
      BY <1>2, <2>2
    <3> QED
      BY <1>5, <2>1, <3>1, <3>2 DEF TransQueueInv, Delivered
  <2>3. CASE popped'[i + 1] = p
    BY <2>1, <2>3, <1>4, <1>5
  <2> QED
    BY <1>2, <2>1, <2>2, <2>3
<1>6. ASSUME NEW l \in lost', l[1] \notin late' PROVE l \notin Range(popped)'
  <2>1. CASE l \in lost
    <3>1. l \notin Range(popped)
      BY <1>6, <2>1 DEF TransQueueInv, Delivered
    <3>2. l # p
      BY <1>4, <1>6, <2>1 DEF Settled
    <3> QED
      BY <1>3, <3>1, <3>2
  <2>2. CASE l \notin lost
    BY <1>3, <1>6, <2>2
  <2> QED
    BY <2>1, <2>2
<1>7. ASSUME NEW s \in Range(popped)', s \in pads' PROVE s[2] = 0
  <2>1. CASE s \in Range(popped)
    BY <1>7, <2>1 DEF TransQueueInv, Delivered
  <2>2. CASE s \notin Range(popped)
    BY <1>3, <1>7, <2>2
  <2> QED
    BY <2>1, <2>2
<1>8. Delivered'
  BY <1>5, <1>6, <1>7 DEF Delivered
<1> QED
  BY <1>2, <1>3, <1>8

(* A data package looks empty to the receiver when the monitor made it.    *)
LEMMA EmptyIsPadding ==
    ASSUME NEW p, p \in Places, p[2] \in Data
    PROVE  Empty(p) <=> p \in pads
<1>1. unit_encode[p[2]] = {p[2]} /\ p = <<p[1], p[2]>>
  BY EncodeIs, SupportOfData, DataInNums, PlacePairs DEF Pair
<1> DEFINE S == {m \in unit_encode[p[2]] : <<p[1], m>> \in pads}
<1>2. CASE p \in pads
  <2>1. S = {p[2]}
    BY <1>1, <1>2
  <2>2. Cardinality(S) = 1
    BY <2>1, FS_Singleton
  <2> QED
    BY <1>2, <2>2 DEF Empty
<1>3. CASE p \notin pads
  <2>1. S = {}
    BY <1>1, <1>3
  <2>2. Cardinality(S) = 0
    BY <2>1, FS_EmptySet
  <2> QED
    BY <1>3, <2>2 DEF Empty
<1> QED
  BY <1>2, <1>3

(* The receiver in "get" knows its unit.                                   *)
LEMMA AtUnit ==
    ASSUME TransQueueInv, pc = "get"
    PROVE  Old = id_new /\ id_new \in 0..(Units - 1) /\ Units \in Nat
<1>1. id_old \in {-1, id_new} /\ id_new \in 0..(Units - 1) /\ Units \in Nat
  BY TransQueueAssumption DEF TransQueueInv, TypeOK, UnitInv
<1> QED
  BY <1>1 DEF Old

(* A package taken, with the places put behind the receiver.               *)
LEMMA TakePast ==
    ASSUME TransQueueInv, NEW p, p \in Places, p \in Coming, Upcoming' = Upcoming,
           \A x \in Coming' : x \in Coming /\ Before(p, x) /\ Pair(x), Upcoming' \in Coming',
           Range(popped)' \subseteq Range(popped) \cup {p},
           \A l \in lost' : l \in lost \/ (Pair(l) /\ l[1] < p[1]),
           id_new' = p[1], late' = late,
           number_old' = UNIT_TOTAL_COUNT - 1 \/ number_old' = p[2]
              \/ (popped' = popped /\ (p[1] = id_new => number_old' = number_old))
    PROVE  PastInv'
<1>1. /\ Pair(p) /\ p[1] >= id_new /\ id_new \in Int /\ p[2] \in 0..(UNIT_TOTAL_COUNT - 1)
      /\ UNIT_TOTAL_COUNT \in Nat
  <2>1. TypeOK
    BY DEF TransQueueInv
  <2> QED
    BY <2>1, PlacePairs, Counts DEF TransQueueInv, UnitInv, TypeOK
<1>2. Settled' \subseteq Settled \cup {p} \cup {l \in lost' : Pair(l) /\ l[1] < p[1]}
  BY DEF Settled
<1>3. \A s \in Settled : Pair(s) /\ s[2] \in 0..(UNIT_TOTAL_COUNT - 1)
  BY SettledPairs, PlacePairs DEF TransQueueInv
<1>4. ASSUME NEW s \in Settled'
      PROVE  s[1] < p[1] \/ (s[1] = p[1] /\ (s[2] <= number_old' \/ p[1] \in late))
  <2>1. CASE s \in Settled
    <3>1. /\ s[1] < id_new \/ (s[1] = id_new /\ (s[2] <= number_old \/ id_new \in late))
          /\ Before(s, p) \/ (s[1] = p[1] /\ s[1] \in late)
      BY <2>1 DEF TransQueueInv, PastInv
    <3>2. Pair(s) /\ s[2] \in 0..(UNIT_TOTAL_COUNT - 1)
      BY <1>3, <2>1
    <3>3. CASE s[1] < p[1]
      BY <3>3
    <3>4. CASE ~(s[1] < p[1])
      <4>1. s[1] = p[1] /\ s[1] = id_new /\ (s[2] <= number_old \/ id_new \in late)
        BY <1>1, <3>1, <3>2, <3>4 DEF Pair
      <4>2. CASE number_old' = UNIT_TOTAL_COUNT - 1
        BY <1>1, <3>2, <4>1, <4>2
      <4>3. CASE number_old' = p[2]
        BY <1>1, <3>1, <3>2, <4>1, <4>3 DEF Pair, Before
      <4>4. CASE p[1] = id_new => number_old' = number_old
        BY <4>1, <4>4
      <4> QED
        BY <4>2, <4>3, <4>4
    <3> QED
      BY <3>3, <3>4
  <2>2. CASE s = p /\ s \notin Settled
    <3>1. number_old' = UNIT_TOTAL_COUNT - 1 \/ number_old' = p[2]
      <4> SUFFICES ASSUME popped' = popped PROVE FALSE
        OBVIOUS
      <4>1. Range(popped)' = Range(popped)
        BY DEF Range
      <4> QED
        BY <1>1, <2>2, <4>1 DEF Settled, Pair
    <3> QED
      BY <1>1, <2>2, <3>1 DEF Pair
  <2>3. CASE s[1] < p[1]
    BY <2>3
  <2> QED
    BY <1>2, <2>1, <2>2, <2>3
<1>5. ASSUME NEW s \in Settled', NEW x \in Coming'
      PROVE  Before(s, x) \/ (s[1] = x[1] /\ s[1] \in late)
  <2>1. x \in Coming /\ Before(p, x) /\ Pair(x)
    OBVIOUS
  <2>2. CASE s \in Settled
    BY <2>1, <2>2 DEF TransQueueInv, PastInv
  <2>3. CASE s = p
    BY <2>1, <2>3
  <2>4. CASE Pair(s) /\ s[1] < p[1]
    BY <1>1, <2>1, <2>4 DEF Pair, Before
  <2> QED
    BY <1>2, <2>2, <2>3, <2>4
<1>6. ASSUME NEW s \in Range(popped)' PROVE Before(s, Upcoming')
  <2>1. CASE s \in Range(popped)
    BY <2>1 DEF TransQueueInv, PastInv
  <2>2. CASE s = p
    BY <2>2
  <2> QED
    BY <2>1, <2>2
<1> QED
  BY <1>4, <1>5, <1>6 DEF PastInv

(* A place that is put in tq->u after the reset.                           *)
LEMMA PutUnit ==
    ASSUME TransQueueInv, NEW p, p \in Places, p \in Coming, Before(p, Upcoming)
    PROVE  LET v == [Unit0(p) EXCEPT ![p[2]] = p[1]]
           IN  v \in Of(p[1]) /\ Known(v, SentOf(p[1]))
<1>1. /\ Unit0(p) \in Of(p[1]) /\ Known(Unit0(p), SentOf(p[1]))
      /\ p[1] \in Int /\ p[2] \in Nums /\ p = <<p[1], p[2]>> /\ TypeOK
  BY ResetKnown, PlacePairs DEF Pair, TransQueueInv
<1> QED
  BY <1>1, PutKnown

(* The package that was expected.                                          *)
LEMMA OrderKeeps ==
    ASSUME TransQueueInv, transqueue_recv_order
    PROVE  TransQueueInv'
<1>0. PICK p : p = p0
  OBVIOUS
<1>1. /\ pc = "get" /\ pc' = "get" /\ Take /\ InOrder(p)
      /\ u' = IF p[2] \in Data \/ Empty(p) THEN [Unit0(p) EXCEPT ![p[2]] = p[1]] ELSE Unit0(p)
      /\ popped' = IF p[2] \in Data /\ ~Empty(p) THEN Append(popped, p) ELSE popped
      /\ id_old' = p[1] /\ id_new' = p[1] /\ number_old' = p[2]
      /\ UNCHANGED <<id, number, pads, seen, events, out, lost, late>>
  BY <1>0 DEF transqueue_recv_order, Goto, sender
<1>2. /\ p \in Places /\ p \in Coming /\ q' = NULL /\ fq' \in Seq(Places)
      /\ Coming' \subseteq Coming /\ Upcoming' = Upcoming /\ OrderInv'
      /\ \A x \in Coming' : Before(p, x)
  BY <1>0, <1>1, TakeOrder DEF TransQueueInv
<1>3. /\ Pair(p) /\ p[1] \in 0..(Units - 1) /\ p[2] \in Nums /\ Units \in Nat
      /\ Upcoming' \in Coming' /\ \A x \in Coming' : Pair(x)
      /\ p[1] >= id_new /\ id_new \in 0..(Units - 1) /\ p[1] # -1
  <2>1. TypeOK /\ Upcoming' \in Coming'
    BY DEF TransQueueInv, Coming
  <2> QED
    BY <1>2, <2>1, PlacePairs, ComingPlaces, TransQueueAssumption, SMTT(40) DEF TransQueueInv, UnitInv, TypeOK
<1>4. u' \in Of(p[1]) /\ Known(u', SentOf(p[1])) /\ SentOf(p[1])' = SentOf(p[1])
  <2>1. Before(p, Upcoming)
    BY <1>2, <1>3
  <2>2. SentOf(p[1])' = SentOf(p[1])
    BY <1>2 DEF SentOf
  <2> QED
    BY <1>1, <1>2, <2>1, <2>2, PutUnit, ResetKnown
<1>5. popped' \in Seq(Places) /\ Range(popped)' \subseteq Range(popped) \cup {p} /\ Delivered'
  <2>1. popped' # popped /\ p \in pads => p[2] = 0
    BY <1>1, <1>2, EmptyIsPadding
  <2>2. popped' \in {popped, Append(popped, p)} /\ lost' = lost
    BY <1>1
  <2> QED
    BY <1>1, <1>2, <2>1, <2>2, PassOn
<1>6. TypeOK'
  <2>1. u' \in [Nums -> (0..(Units - 1)) \cup {NULL, Mixture}]
    BY <1>3, <1>4 DEF Of
  <2> QED
    BY <1>1, <1>2, <1>3, <1>5, <2>1 DEF TransQueueInv, TypeOK
<1>7. UnitInv'
  <2>1. \A x \in Coming' : x[1] >= p[1]
    BY <1>2, <1>3 DEF Before, Pair
  <2> QED
    BY <1>1, <1>3, <1>4, <2>1 DEF UnitInv
<1>8. PastInv'
  BY <1>1, <1>2, <1>3, <1>5, TakePast
<1>9. KnownInv'
  <2>1. SentOf(id_new)' = SentOf(p[1])
    BY <1>1, <1>2 DEF SentOf
  <2> QED
    BY <1>4, <2>1 DEF KnownInv, Known
<1> QED
  BY <1>2, <1>5, <1>6, <1>7, <1>8, <1>9 DEF TransQueueInv

(* What a gap reports lies behind the package after it.                    *)
LEMMA ReportedBehind ==
    ASSUME TransQueueInv, pc = "get", NEW p, p \in Places, p[1] >= id_new
    PROVE  \A l \in Reported(p) :
             /\ l \in (0..(Units - 1)) \X Data /\ Pair(l) /\ l[1] < p[1]
             /\ l[1] > id_new \/ (l[1] = id_new /\ l[2] > number_old)
<1>1. /\ Old = id_new /\ id_new \in 0..(Units - 1) /\ Units \in Nat
      /\ p[1] \in 0..(Units - 1) /\ Data \subseteq Nums
  BY AtUnit, PlacePairs, DataInNums
<1>2. CASE p[1] = Old
  BY <1>2 DEF Reported
<1>3. CASE p[1] # Old
  <2>1. p[1] > id_new
    BY <1>1, <1>3
  <2>2. ASSUME NEW n \in Data, n > number_old
        PROVE  /\ <<id_new, n>> \in (0..(Units - 1)) \X Data /\ Pair(<<id_new, n>>)
               /\ <<id_new, n>>[1] = id_new /\ <<id_new, n>>[2] = n
    BY <1>1, PlacePairs
  <2>3. ASSUME NEW l \in Places, l[1] \in (id_new + 1)..(p[1] - 1), l[2] \in Data
        PROVE  l \in (0..(Units - 1)) \X Data /\ Pair(l) /\ l[1] < p[1] /\ l[1] > id_new
    <3>1. Pair(l) /\ l[1] \in 0..(Units - 1)
      BY PlacePairs
    <3> QED
      BY <1>1, <2>3, <3>1 DEF Pair
  <2> QED
    BY <1>1, <1>3, <2>1, <2>2, <2>3 DEF Reported
<1> QED
  BY <1>2, <1>3

(* A package after a gap.                                                  *)
LEMMA GapKeeps ==
    ASSUME TransQueueInv, transqueue_recv_gap
    PROVE  TransQueueInv'
<1>0. PICK p : p = p0
  OBVIOUS
<1>1. /\ pc = "get" /\ pc' = (IF p[2] = 0 THEN "get" ELSE "collect") /\ Take
      /\ lost' = lost \cup Reported(p)
      /\ u' = [Unit0(p) EXCEPT ![p[2]] = p[1]] /\ id_new' = p[1]
      /\ p[2] = 0 => /\ popped' = Append(popped, p)
                     /\ id_old' = -1 /\ number_old' = UNIT_TOTAL_COUNT - 1
      /\ p[2] # 0 => /\ id_old' = Old /\ popped' = popped
                     /\ number_old' = IF p[1] # Old THEN 0 ELSE number_old
      /\ UNCHANGED <<id, number, pads, seen, events, out, late>>
  BY <1>0 DEF transqueue_recv_gap, Goto, sender
<1>2. /\ p \in Places /\ p \in Coming /\ q' = NULL /\ fq' \in Seq(Places)
      /\ Coming' \subseteq Coming /\ Upcoming' = Upcoming /\ OrderInv'
      /\ \A x \in Coming' : Before(p, x)
  BY <1>0, <1>1, TakeOrder DEF TransQueueInv
<1>3. /\ Pair(p) /\ p[1] \in 0..(Units - 1) /\ p[2] \in Nums /\ Units \in Nat
      /\ Upcoming' \in Coming' /\ \A x \in Coming' : Pair(x)
      /\ p[1] >= id_new /\ id_new \in 0..(Units - 1) /\ Old = id_new
  <2>1. TypeOK /\ Upcoming' \in Coming'
    BY DEF TransQueueInv, Coming
  <2> QED
    BY <1>1, <1>2, <2>1, PlacePairs, ComingPlaces, AtUnit DEF TransQueueInv, UnitInv
<1>4. u' \in Of(p[1]) /\ Known(u', SentOf(p[1])) /\ SentOf(p[1])' = SentOf(p[1])
  <2>1. Before(p, Upcoming)
    BY <1>2, <1>3
  <2>2. SentOf(p[1])' = SentOf(p[1])
    BY <1>2 DEF SentOf
  <2> QED
    BY <1>1, <1>2, <2>1, <2>2, PutUnit
<1>5. \A l \in Reported(p) :
        /\ l \in (0..(Units - 1)) \X Data /\ Pair(l) /\ l[1] < p[1]
        /\ l[1] > id_new \/ (l[1] = id_new /\ l[2] > number_old)
  BY <1>1, <1>2, <1>3, ReportedBehind
<1>6. ASSUME NEW l \in Reported(p) PROVE l[1] \in late \/ (l \notin Range(popped) /\ l # p)
  <2>1. l # p
    BY <1>3, <1>5 DEF Pair
  <2>2. ASSUME l \in Range(popped) PROVE l[1] \in late
    <3>1. l[1] < id_new \/ (l[1] = id_new /\ (l[2] <= number_old \/ id_new \in late))
      BY <2>2 DEF TransQueueInv, PastInv, Settled
    <3>2. number_old \in Int /\ id_new \in Int /\ l[1] \in Int /\ l[2] \in Int
      BY <1>3, <1>5, Counts DEF TransQueueInv, TypeOK, Nums, Pair
    <3> QED
      BY <1>5, <3>1, <3>2
  <2> QED
    BY <2>1, <2>2
<1>7. popped' \in Seq(Places) /\ Range(popped)' \subseteq Range(popped) \cup {p} /\ Delivered'
  <2>1. popped' # popped /\ p \in pads => p[2] = 0
    BY <1>1
  <2>2. popped' \in {popped, Append(popped, p)} /\ lost \subseteq lost'
    BY <1>1
  <2>3. \A l \in lost' : l \in lost \/ l[1] \in late \/ (l \notin Range(popped) /\ l # p)
    BY <1>1, <1>6
  <2> QED
    BY <1>1, <1>2, <2>1, <2>2, <2>3, PassOn
<1>8. TypeOK'
  <2>1. u' \in [Nums -> (0..(Units - 1)) \cup {NULL, Mixture}]
    BY <1>3, <1>4 DEF Of
  <2>2. lost' \subseteq (0..(Units - 1)) \X Data
    BY <1>1, <1>5 DEF TransQueueInv, TypeOK
  <2>3. number_old' \in Nums /\ id_old' \in -1..(Units - 1) /\ pc' \in {"get", "collect", "decode"}
    <3>1. UNIT_TOTAL_COUNT - 1 \in Nums /\ 0 \in Nums /\ number_old \in Nums
      BY Counts, SMTT(40) DEF Nums, TransQueueInv, TypeOK
    <3> QED
      BY <1>1, <1>3, <3>1
  <2> QED
    BY <1>1, <1>2, <1>3, <1>7, <2>1, <2>2, <2>3 DEF TransQueueInv, TypeOK
<1>9. UnitInv'
  <2>1. \A x \in Coming' : x[1] >= p[1]
    BY <1>2, <1>3 DEF Before, Pair
  <2>2. pc' # "decode" /\ (pc' = "get" => p[2] = 0)
    BY <1>1
  <2> QED
    BY <1>1, <1>4, <2>1, <2>2 DEF UnitInv
<1>10. PastInv'
  <2>1. \A l \in lost' : l \in lost \/ (Pair(l) /\ l[1] < p[1])
    BY <1>1, <1>5
  <2>2. number_old' = UNIT_TOTAL_COUNT - 1
          \/ (popped' = popped /\ (p[1] = id_new => number_old' = number_old))
    BY <1>1, <1>3
  <2> QED
    BY <1>1, <1>2, <1>3, <1>7, <2>1, <2>2, TakePast
<1>11. KnownInv'
  <2>1. SentOf(id_new)' = SentOf(p[1])
    BY <1>1, <1>2 DEF SentOf
  <2> QED
    BY <1>4, <2>1 DEF KnownInv, Known
<1> QED
  BY <1>2, <1>7, <1>8, <1>9, <1>10, <1>11 DEF TransQueueInv

(* The receiver only moves on: what was passed on stays as it is.          *)
LEMMA QuietKeeps ==
    ASSUME TransQueueInv, TypeOK', OrderInv', UnitInv', KnownInv',
           Coming' \subseteq Coming, Upcoming' = Upcoming, late \subseteq late',
           UNCHANGED <<id_new, number_old, popped, lost, pads>>
    PROVE  TransQueueInv'
<1>1. Settled' = Settled /\ Range(popped)' = Range(popped)
  BY DEF Settled, Range
<1>2. PastInv'
  BY <1>1 DEF TransQueueInv, PastInv
<1>3. Delivered'
  BY <1>1 DEF TransQueueInv, Delivered
<1> QED
  BY <1>2, <1>3 DEF TransQueueInv

(* A package of the unit that is collected.                                *)
LEMMA CollectUnit ==
    ASSUME TransQueueInv, transqueue_recv_collect, Head(fq)[1] = id_new
    PROVE  TransQueueInv'
<1>0. PICK p : p = Head(fq)
  OBVIOUS
<1>1. /\ pc = "collect" /\ fq # <<>> /\ fq' = Tail(fq)
      /\ pc' = (IF p[2] = UNIT_TOTAL_COUNT - 1 THEN "decode" ELSE "collect")
      /\ u' = [u EXCEPT ![p[2]] = p[1]] /\ q' = q /\ p[1] = id_new
      /\ UNCHANGED <<id, number, pads, seen, events, out,
                     id_old, id_new, number_old, popped, lost, late>>
  BY <1>0 DEF transqueue_recv_collect, Goto, sender
<1>2. q = NULL /\ Take /\ p = p0
  BY <1>0, <1>1 DEF TransQueueInv, OrderInv, Take, p0
<1>3. /\ p \in Places /\ p \in Coming /\ q' = NULL /\ fq' \in Seq(Places)
      /\ Coming' \subseteq Coming /\ Upcoming' = Upcoming /\ OrderInv'
      /\ \A x \in Coming' : Before(p, x)
  BY <1>1, <1>2, TakeOrder DEF TransQueueInv
<1>4. /\ Pair(p) /\ p[1] \in 0..(Units - 1) /\ p[2] \in Nums
      /\ Upcoming' \in Coming'
      /\ \A x \in Coming' : Pair(x) /\ x[2] \in 0..(UNIT_TOTAL_COUNT - 1) /\ x[1] >= id_new
      /\ p[2] \in 0..(UNIT_TOTAL_COUNT - 1)
  <2>1. TypeOK /\ Upcoming' \in Coming'
    BY DEF TransQueueInv, Coming
  <2> QED
    BY <1>3, <2>1, PlacePairs, ComingPlaces DEF TransQueueInv, UnitInv
<1>5. u' \in Of(id_new) /\ Known(u', SentOf(id_new)) /\ SentOf(id_new)' = SentOf(id_new)
  <2>1. Before(p, Upcoming) /\ Unit0(p) = u
    BY <1>1, <1>3, <1>4 DEF Unit0
  <2>2. SentOf(id_new)' = SentOf(id_new)
    BY <1>1, <1>3 DEF SentOf
  <2>3. u' \in Of(p[1]) /\ Known(u', SentOf(p[1]))
    BY <1>1, <1>3, <2>1, PutUnit
  <2> QED
    BY <1>1, <2>2, <2>3
<1>6. TypeOK'
  <2>1. u' \in [Nums -> (0..(Units - 1)) \cup {NULL, Mixture}]
    BY <1>1, <1>4, <1>5 DEF Of
  <2> QED
    BY <1>1, <1>3, <2>1 DEF TransQueueInv, TypeOK
<1>7. UnitInv'
  <2>1. ASSUME pc' = "decode", NEW x \in Coming' PROVE x[1] > id_new
    <3>1. p[2] = UNIT_TOTAL_COUNT - 1
      BY <1>1, <2>1
    <3>2. p[1] < x[1] \/ (p[1] = x[1] /\ p[2] < x[2])
      BY <1>3 DEF Before
    <3>3. x[1] \in Int /\ x[2] \in 0..(UNIT_TOTAL_COUNT - 1) /\ UNIT_TOTAL_COUNT \in Nat /\ x[1] >= id_new
      BY <1>4, Counts DEF Pair
    <3>4. x[2] <= UNIT_TOTAL_COUNT - 1 /\ x[2] \in Int
      BY <3>3
    <3> QED
      BY <1>1, <3>1, <3>2, <3>3, <3>4
  <2>2. pc' # "get"
    BY <1>1
  <2> QED
    BY <1>1, <1>4, <1>5, <2>1, <2>2 DEF UnitInv
<1>8. KnownInv'
  <2>1. SentOf(id_new)' = SentOf(id_new)
    BY <1>5
  <2> QED
    BY <1>1, <1>5, <2>1 DEF KnownInv, Known
<1> QED
  BY <1>1, <1>3, <1>6, <1>7, <1>8, QuietKeeps

(* A package of another unit ends the collection and is kept.              *)
LEMMA CollectKept ==
    ASSUME TransQueueInv, transqueue_recv_collect, Head(fq)[1] # id_new
    PROVE  TransQueueInv'
<1>0. PICK p : p = Head(fq)
  OBVIOUS
<1>1. /\ pc = "collect" /\ pc' = "decode" /\ fq # <<>> /\ fq' = Tail(fq)
      /\ q' = p /\ u' = u /\ p[1] # id_new
      /\ UNCHANGED <<id, number, pads, seen, events, out,
                     id_old, id_new, number_old, popped, lost, late>>
  BY <1>0 DEF transqueue_recv_collect, Goto, sender
<1>2. q = NULL /\ Upcoming' = Upcoming /\ TypeOK /\ fq \in Seq(Places) /\ Len(fq) \in Nat
  BY <1>1 DEF TransQueueInv, OrderInv, Upcoming, TypeOK
<1>3. /\ p = fq[1] /\ 1 \in 1..Len(fq) /\ p \in Places /\ p # NULL
      /\ fq' \in Seq(Places) /\ Len(fq') = Len(fq) - 1
      /\ \A i \in 1..Len(fq') : fq'[i] = fq[i + 1] /\ i + 1 \in 1..Len(fq) /\ 1 < i + 1
  BY <1>0, <1>1, <1>2, PlacePairs
<1>4. \A i \in 1..Len(fq') : Before(p, fq'[i])
  BY <1>3 DEF TransQueueInv, OrderInv
<1>5. Before(p, Upcoming)
  BY <1>3 DEF TransQueueInv, OrderInv
<1>6. OrderInv'
  <2>1. ASSUME NEW i \in 1..Len(fq'), NEW j \in 1..Len(fq'), i < j PROVE Before(fq'[i], fq'[j])
    <3>1. i + 1 \in 1..Len(fq) /\ j + 1 \in 1..Len(fq) /\ i + 1 < j + 1
      BY <1>3, <2>1
    <3> QED
      BY <1>3, <3>1 DEF TransQueueInv, OrderInv
  <2>2. \A i \in 1..Len(fq') : Before(fq'[i], Upcoming)
    BY <1>3 DEF TransQueueInv, OrderInv
  <2>3. pc' # "collect"
    BY <1>1
  <2> QED
    BY <1>1, <1>2, <1>4, <1>5, <2>1, <2>2, <2>3 DEF OrderInv
<1>7. \A x \in Coming' : x \in Coming /\ (x = p \/ Before(p, x))
  <2>1. Coming' = {fq'[i] : i \in 1..Len(fq')} \cup {p} \cup {Upcoming}
    BY <1>1, <1>2, <1>3 DEF Coming
  <2>2. Upcoming \in Coming /\ \A i \in 1..Len(fq) : fq[i] \in Coming
    BY DEF Coming
  <2>3. \A i \in 1..Len(fq') : fq'[i] \in Coming
    BY <1>3, <2>2
  <2> QED
    BY <1>3, <1>4, <1>5, <2>1, <2>2, <2>3
<1>8. TypeOK'
  BY <1>1, <1>2, <1>3 DEF TypeOK
<1>9. UnitInv'
  <2>1. /\ p[1] >= id_new /\ Pair(p) /\ id_new \in Int
        /\ \A x \in Coming' : x[1] >= id_new /\ Pair(x)
    BY <1>2, <1>3, <1>7, ComingPlaces, PlacePairs DEF TransQueueInv, UnitInv, TypeOK, Coming
  <2>2. \A x \in Coming' : x[1] > id_new
    BY <1>1, <1>7, <2>1 DEF Before, Pair
  <2> QED
    BY <1>1, <2>1, <2>2 DEF TransQueueInv, UnitInv, Of
<1>10. KnownInv'
  <2>1. SentOf(id_new)' = SentOf(id_new)
    BY <1>1, <1>2 DEF SentOf
  <2> QED
    BY <1>1, <2>1 DEF TransQueueInv, KnownInv, Known
<1> QED
  BY <1>1, <1>2, <1>6, <1>7, <1>8, <1>9, <1>10, QuietKeeps

(* Nothing comes for a second.                                             *)
LEMMA TimeoutKeeps ==
    ASSUME TransQueueInv, transqueue_recv_timeout
    PROVE  TransQueueInv'
<1>1. /\ pc = "collect" /\ pc' = "decode" /\ late' = late \cup {id_new}
      /\ UNCHANGED <<id, number, pads, seen, fq, events, out, q,
                     id_old, id_new, number_old, u, popped, lost>>
  BY DEF transqueue_recv_timeout, Goto, sender, net
<1>2. Coming' = Coming /\ Upcoming' = Upcoming /\ SentOf(id_new)' = SentOf(id_new)
  BY <1>1 DEF Coming, Upcoming, SentOf
<1>3. TypeOK'
  BY <1>1 DEF TransQueueInv, TypeOK
<1>4. OrderInv'
  BY <1>1, <1>2 DEF TransQueueInv, OrderInv
<1>5. UnitInv'
  BY <1>1, <1>2 DEF TransQueueInv, UnitInv, Of
<1>6. KnownInv'
  BY <1>1, <1>2 DEF TransQueueInv, KnownInv, Known
<1> QED
  BY <1>1, <1>2, <1>3, <1>4, <1>5, <1>6, QuietKeeps

(* A pass of unit_decode.                                                  *)
LEMMA RoundKeeps ==
    ASSUME TransQueueInv, transqueue_recv_round
    PROVE  TransQueueInv'
<1>1. /\ pc = "decode" /\ pc' = "decode" /\ u' = Round(u)
      /\ UNCHANGED <<id, number, pads, seen, fq, events, out, q,
                     id_old, id_new, number_old, popped, lost, late>>
  BY DEF transqueue_recv_round, Goto, sender, net
<1>2. Coming' = Coming /\ Upcoming' = Upcoming /\ SentOf(id_new)' = SentOf(id_new)
  BY <1>1 DEF Coming, Upcoming, SentOf
<1>3. id_new \in 0..(Units - 1) /\ id_new \in Int
  BY TransQueueAssumption DEF TransQueueInv, TypeOK
<1>4. u' \in Of(id_new) /\ Known(u', SentOf(id_new))
  BY <1>1, <1>3, RoundOf, RoundKnown DEF TransQueueInv, UnitInv, KnownInv
<1>5. TypeOK'
  <2>1. u' \in [Nums -> (0..(Units - 1)) \cup {NULL, Mixture}]
    BY <1>3, <1>4 DEF Of
  <2> QED
    BY <1>1, <2>1 DEF TransQueueInv, TypeOK
<1>6. OrderInv'
  BY <1>1, <1>2 DEF TransQueueInv, OrderInv
<1>7. UnitInv'
  BY <1>1, <1>2, <1>4 DEF TransQueueInv, UnitInv
<1>8. KnownInv'
  BY <1>1, <1>2, <1>4 DEF KnownInv, Known
<1> QED
  BY <1>1, <1>2, <1>5, <1>6, <1>7, <1>8, QuietKeeps

-----------------------------------------------------------------------------
(* The decoded packages are delivered in ascending order.                  *)

(* Ascending lists the elements of a finite set of numbers upwards: the one*)
(* with i smaller ones is its element i + 1, and there is one for every i. *)
Below(S, n) == {m \in S : m < n}
Rank(S, n) == Cardinality(Below(S, n))

(* The ranks of a finite set are 0 to its size less one.                   *)
LEMMA AscendingRank ==
    ASSUME NEW S, IsFiniteSet(S), S \subseteq Int
    PROVE  /\ Cardinality(S) \in Nat
           /\ \A i \in 1..Cardinality(S) : \E n \in S : Rank(S, n) = i - 1
           /\ \A a, b \in S : a <= b => Rank(S, a) <= Rank(S, b)
           /\ \A a \in S : Rank(S, a) \in Nat
<1> DEFINE below(n) == Below(S, n)
           rank(n) == Rank(S, n)
           c == Cardinality(S)
<1>1. c \in Nat
  BY FS_CardinalityType
<1>2. ASSUME NEW n \in S PROVE IsFiniteSet(below(n)) /\ rank(n) \in 0..(c - 1)
  <2>1. below(n) \in SUBSET S /\ n \notin below(n)
    BY DEF Below
  <2>2. below(n) # S
    BY <2>1
  <2> HIDE DEF below
  <2>3. IsFiniteSet(below(n)) /\ Cardinality(below(n)) <= Cardinality(S) /\ Cardinality(below(n)) # Cardinality(S)
    BY <2>1, <2>2, FS_Subset
  <2>4. Cardinality(below(n)) \in Nat
    BY <2>3, FS_CardinalityType
  <2> QED
    BY <1>1, <2>3, <2>4 DEF Rank, below
<1>3. ASSUME NEW a \in S, NEW b \in S, a < b PROVE rank(a) < rank(b)
  <2>1. below(a) \in SUBSET below(b) /\ a \in below(b) /\ a \notin below(a)
    <3>1. a \in Int /\ b \in Int /\ \A m \in S : m \in Int
      OBVIOUS
    <3>2. ASSUME NEW m \in S, m < a PROVE m < b
      <4>1. m \in Int
        BY <3>1
      <4> QED
        BY <1>3, <3>1, <3>2, <4>1
    <3>3. a \in Below(S, b) /\ a \notin Below(S, a)
      BY <1>3, <3>1 DEF Below
    <3> QED
      BY <3>2, <3>3 DEF Below
  <2>2. IsFiniteSet(below(a)) /\ IsFiniteSet(below(b)) /\ rank(a) \in Nat /\ rank(b) \in Nat
    BY <1>1, <1>2
  <2> HIDE DEF below
  <2>3. Cardinality(below(a)) <= Cardinality(below(b)) /\ Cardinality(below(a)) # Cardinality(below(b))
    BY <2>1, <2>2, FS_Subset
  <2> QED
    BY <2>2, <2>3 DEF Rank, below
<1> DEFINE f == [n \in S |-> rank(n)]
           T == 0..(c - 1)
<1>4. IsFiniteSet(T) /\ Cardinality(T) = c
  <2>1. 0 \in Int /\ c - 1 \in Int
    BY <1>1
  <2>2. IsFiniteSet(0..(c - 1)) /\ Cardinality(0..(c - 1)) = IF 0 > c - 1 THEN 0 ELSE (c - 1) - 0 + 1
    BY <2>1, FS_Interval
  <2> QED
    BY <1>1, <2>2
<1>5. f \in Injection(S, T)
  <2>1. f \in [S -> T] /\ DOMAIN f = S
    BY <1>2
  <2>2. ASSUME NEW a \in S, NEW b \in S, f[a] = f[b] PROVE a = b
    <3>1. rank(a) = rank(b) /\ rank(a) \in Int /\ rank(b) \in Int
      BY <1>2, <2>2
    <3>2. a \in Int /\ b \in Int
      OBVIOUS
    <3>3. ~(a < b) /\ ~(b < a)
      BY <1>3, <3>1
    <3> QED
      BY <3>2, <3>3
  <2> HIDE DEF f, T
  <2> QED
    BY <2>1, <2>2 DEF Injection, IsInjective
<1>6. \A i \in T : \E n \in S : f[n] = i
  <2> HIDE DEF f, T
  <2>1. f \in Surjection(S, T)
    BY <1>4, <1>5, FS_Injection
  <2> QED
    BY <2>1 DEF Surjection
<1>7. \A i \in 1..c : \E n \in S : rank(n) = i - 1
  <2> SUFFICES ASSUME NEW i \in 1..c PROVE \E n \in S : rank(n) = i - 1
    OBVIOUS
  <2>1. i - 1 \in T
    BY <1>1
  <2> QED
    BY <1>6, <2>1
<1>8. \A a, b \in S : a <= b => rank(a) <= rank(b)
  <2> SUFFICES ASSUME NEW a \in S, NEW b \in S, a <= b PROVE rank(a) <= rank(b)
    OBVIOUS
  <2>1. rank(a) \in Int /\ rank(b) \in Int /\ a \in Int /\ b \in Int
    BY <1>2
  <2>2. CASE a < b
    BY <1>3, <2>1, <2>2
  <2>3. CASE a = b
    BY <2>1, <2>3
  <2> HIDE DEF rank
  <2> QED
    BY <2>1, <2>2, <2>3
<1> QED
  BY <1>1, <1>2, <1>7, <1>8

(* Ascending lists elements of the set, upwards.                           *)
LEMMA AscendingIs ==
    ASSUME NEW S, IsFiniteSet(S), S \subseteq Int
    PROVE  /\ Ascending(S) \in Seq(S)
           /\ \A i, j \in 1..Len(Ascending(S)) : i < j => Ascending(S)[i] < Ascending(S)[j]
<1> DEFINE rank(n) == Rank(S, n)
           c == Cardinality(S)
           g == [i \in 1..c |-> CHOOSE n \in S : rank(n) = i - 1]
<1>1. /\ c \in Nat /\ \A i \in 1..c : \E n \in S : rank(n) = i - 1
      /\ \A a, b \in S : a <= b => rank(a) <= rank(b)
      /\ \A a \in S : rank(a) \in Nat
  BY AscendingRank
<1>2. Ascending(S) = g
  BY DEF Ascending, Rank, Below
<1> HIDE DEF rank, c
<1>3. \A i \in 1..c : g[i] \in S /\ rank(g[i]) = i - 1
  BY <1>1
<1>4. g = [i \in 1..c |-> g[i]] /\ DOMAIN g = 1..c
  OBVIOUS
<1> HIDE DEF g
<1>5. g \in Seq(S) /\ Len(g) = c
  <2>1. g \in [1..c -> S]
    BY <1>3, <1>4
  <2> QED
    BY <1>1, <2>1
<1>6. ASSUME NEW i \in 1..c, NEW j \in 1..c, i < j PROVE g[i] < g[j]
  <2>1. g[i] \in S /\ g[j] \in S /\ rank(g[i]) = i - 1 /\ rank(g[j]) = j - 1
    BY <1>3
  <2>2. ~(g[j] <= g[i])
    <3> SUFFICES ASSUME g[j] <= g[i] PROVE FALSE
      OBVIOUS
    <3>1. rank(g[j]) <= rank(g[i])
      BY <1>1, <2>1
    <3> QED
      BY <1>1, <1>6, <2>1, <3>1
  <2>3. g[i] \in Int /\ g[j] \in Int
    BY <2>1
  <2> QED
    BY <2>2, <2>3
<1> QED
  BY <1>2, <1>5, <1>6

(* What transqueue_recv passes on and reports after unit_decode.           *)
Good == {n \in {m \in Data : m > number_old} : u[n] # NULL /\ ~Empty(<<id_new, n>>)}

(* They are places of data that was sent, and no padding.                  *)
LEMMA GoodPlaces ==
    ASSUME TransQueueInv
    PROVE  /\ IsFiniteSet(Good) /\ Good \subseteq Int
           /\ \A n \in Good : /\ n \in Data /\ n > number_old /\ u[n] # NULL
                              /\ <<id_new, n>> \in Places /\ Pair(<<id_new, n>>)
                              /\ <<id_new, n>> \notin pads
                              /\ Before(<<id_new, n>>, Upcoming)
<1>1. id_new \in 0..(Units - 1) /\ number_old \in Int
  BY Counts DEF TransQueueInv, TypeOK, Nums
<1>2. Good \subseteq Nums /\ \A n \in Good : n \in Data /\ n \in Nums /\ n \in Int
  <2>1. \A n \in Nums : n \in Int
    BY DEF Nums
  <2>2. \A n \in Good : n \in Data
    BY DEF Good
  <2> QED
    BY <2>1, <2>2, DataInNums
<1>3. IsFiniteSet(Good)
  BY <1>2, NumsFinite, FS_Subset
<1>4. ASSUME NEW n \in Good
      PROVE  /\ n > number_old /\ u[n] # NULL
             /\ <<id_new, n>> \in Places /\ Pair(<<id_new, n>>)
             /\ <<id_new, n>> \notin pads /\ Before(<<id_new, n>>, Upcoming)
  <2>1. n \in Data /\ n \in Nums /\ n > number_old /\ u[n] # NULL /\ ~Empty(<<id_new, n>>)
    BY <1>2 DEF Good
  <2>2. PICK p : p = <<id_new, n>>
    OBVIOUS
  <2>3. p \in Places /\ Pair(p) /\ p[2] = n
    BY <1>1, <2>1, <2>2, PlacePairs
  <2>4. p \notin pads
    BY <2>1, <2>2, <2>3, EmptyIsPadding
  <2>5. Support(n) \subseteq SentOf(id_new) /\ n \in Support(n)
    BY <2>1, SupportOfData DEF TransQueueInv, KnownInv, Known
  <2>6. Before(p, Upcoming)
    BY <2>2, <2>5 DEF SentOf
  <2> QED
    BY <2>1, <2>2, <2>3, <2>4, <2>6
<1> QED
  BY <1>2, <1>3, <1>4

(* The list that is appended to popped.                                    *)
Delivery == [i \in DOMAIN Ascending(Good) |-> <<id_new, Ascending(Good)[i]>>]

Joined(v, s, t) ==
    /\ Len(v) = Len(s) + Len(t) /\ Len(s) \in Nat /\ Len(t) \in Nat
    /\ \A i \in 1..Len(s) : v[i] = s[i]
    /\ \A i \in (Len(s) + 1)..Len(v) : i - Len(s) \in 1..Len(t) /\ v[i] = t[i - Len(s)]

(* The elements of two sequences one after the other.                      *)
LEMMA Concatenation ==
    ASSUME NEW S, NEW s \in Seq(S), NEW t \in Seq(S), NEW v, v = s \o t
    PROVE  v \in Seq(S) /\ Joined(v, s, t)
<1>1. v \in Seq(S) /\ Len(v) = Len(s) + Len(t) /\ Len(s) \in Nat /\ Len(t) \in Nat
  OBVIOUS
<1>2. \A i \in 1..Len(s) : v[i] = s[i]
  OBVIOUS
<1>3. ASSUME NEW i \in (Len(s) + 1)..Len(v)
      PROVE  i - Len(s) \in 1..Len(t) /\ v[i] = t[i - Len(s)]
  <2>1. i - Len(s) \in 1..Len(t) /\ i \in 1..(Len(s) + Len(t)) /\ ~(i <= Len(s))
    BY <1>1
  <2> QED
    BY <2>1
<1> QED
  BY <1>1, <1>2, <1>3 DEF Joined

(* The list is of good places, upwards, at the end of popped.              *)
LEMMA DeliverList ==
    ASSUME TransQueueInv, pc = "decode", NEW t, t = Delivery, popped' = popped \o t
    PROVE  /\ t \in Seq(Places) /\ popped' \in Seq(Places)
           /\ \A i \in 1..Len(t) : t[i][1] = id_new /\ t[i][2] \in Good /\ t[i] = <<id_new, t[i][2]>>
           /\ \A i, j \in 1..Len(t) : i < j => Before(t[i], t[j])
           /\ Len(popped') = Len(popped) + Len(t)
           /\ \A i \in 1..Len(popped) : popped'[i] = popped[i]
           /\ \A i \in (Len(popped) + 1)..Len(popped') :
                i - Len(popped) \in 1..Len(t) /\ popped'[i] = t[i - Len(popped)]
<1> DEFINE a == Ascending(Good)
<1>1. /\ a \in Seq(Good) /\ \A i, j \in 1..Len(a) : i < j => a[i] < a[j]
  BY GoodPlaces, AscendingIs
<1>2. t = [i \in DOMAIN a |-> <<id_new, a[i]>>]
  BY DEF Delivery
<1> HIDE DEF a
<1>3. DOMAIN a = 1..Len(a) /\ Len(a) \in Nat /\ \A i \in 1..Len(a) : a[i] \in Good
  BY <1>1
<1>4. \A i \in 1..Len(a) : t[i] = <<id_new, a[i]>> /\ t[i] \in Places
  BY <1>2, <1>3, GoodPlaces
<1>5. t \in Seq(Places) /\ Len(t) = Len(a)
  <2>1. t \in [1..Len(a) -> Places]
    BY <1>2, <1>3, <1>4
  <2> QED
    BY <1>3, <2>1
<1>6. \A i \in 1..Len(t) : t[i][1] = id_new /\ t[i][2] = a[i] /\ t[i][2] \in Good
  BY <1>3, <1>4, <1>5
<1>7. \A i, j \in 1..Len(t) : i < j => Before(t[i], t[j])
  BY <1>1, <1>5, <1>6 DEF Before
<1>8. popped \in Seq(Places)
  BY DEF TransQueueInv, TypeOK
<1>9. /\ popped' \in Seq(Places) /\ Len(popped') = Len(popped) + Len(t)
      /\ \A i \in 1..Len(popped) : popped'[i] = popped[i]
      /\ \A i \in (Len(popped) + 1)..Len(popped') :
           i - Len(popped) \in 1..Len(t) /\ popped'[i] = t[i - Len(popped)]
  <2>1. PICK v : v = popped'
    OBVIOUS
  <2>2. v \in Seq(Places) /\ Joined(v, popped, t)
    BY <1>5, <1>8, <2>1, Concatenation
  <2> QED
    BY <2>1, <2>2 DEF Joined
<1> QED
  BY <1>4, <1>5, <1>6, <1>7, <1>9

(* After unit_decode the data is passed on or reported.                    *)
LEMMA DecodeKeeps ==
    ASSUME TransQueueInv, transqueue_recv_decode
    PROVE  TransQueueInv'
<1> DEFINE gone == {<<id_new, n>> : n \in {m \in {k \in Data : k > number_old} : u[m] = NULL}}
<1>0. PICK t : t = Delivery
  OBVIOUS
<1>1. /\ pc = "decode" /\ pc' = "get"
      /\ id_old' = -1 /\ number_old' = UNIT_TOTAL_COUNT - 1
      /\ UNCHANGED <<id, number, pads, seen, fq, events, out, q, id_new, u, late>>
      /\ popped' = popped \o t /\ lost' = lost \cup gone
  BY <1>0 DEF transqueue_recv_decode, Decoded, Deliver, Goto, sender, net, Good, Delivery
<1>2. /\ t \in Seq(Places) /\ popped' \in Seq(Places)
      /\ \A i \in 1..Len(t) : t[i][1] = id_new /\ t[i][2] \in Good /\ t[i] = <<id_new, t[i][2]>>
      /\ \A i, j \in 1..Len(t) : i < j => Before(t[i], t[j])
      /\ Len(popped') = Len(popped) + Len(t)
      /\ \A i \in 1..Len(popped) : popped'[i] = popped[i]
      /\ \A i \in (Len(popped) + 1)..Len(popped') :
           i - Len(popped) \in 1..Len(t) /\ popped'[i] = t[i - Len(popped)]
  BY <1>0, <1>1, DeliverList
<1>3. Coming' = Coming /\ Upcoming' = Upcoming /\ SentOf(id_new)' = SentOf(id_new)
  BY <1>1 DEF Coming, Upcoming, SentOf
<1>4. /\ id_new \in 0..(Units - 1) /\ Units \in Nat /\ number_old \in Nums /\ number_old \in Int
      /\ UNIT_TOTAL_COUNT \in Nat \ {0} /\ popped \in Seq(Places) /\ Len(popped) \in Nat
      /\ Len(t) \in Nat
  BY <1>2, Counts, TransQueueAssumption DEF TransQueueInv, TypeOK, Nums
<1>5. ASSUME NEW s \in Range(popped)', s \notin Range(popped)
      PROVE  \E n \in Good : s = <<id_new, n>>
  <2>1. PICK i \in 1..Len(popped') : s = popped'[i]
    BY <1>2, <1>5 DEF Range
  <2>2. i \notin 1..Len(popped)
    BY <1>2, <1>4, <1>5, <2>1 DEF Range
  <2>3. i \in (Len(popped) + 1)..Len(popped')
    BY <1>2, <1>4, <2>1, <2>2
  <2> QED
    BY <1>2, <2>1, <2>3
<1>6. \A l \in gone : \E n \in Data : l = <<id_new, n>> /\ n > number_old /\ u[n] = NULL
  OBVIOUS
<1> HIDE DEF gone
<1>7. ASSUME NEW s \in Settled'
      PROVE  s \in Settled \/ \E n \in Data : s = <<id_new, n>> /\ n > number_old
  <2>1. CASE s \in Range(popped)' /\ s \notin Range(popped)
    BY <1>5, <2>1, GoodPlaces
  <2>2. CASE s \in lost'
    BY <1>1, <1>6, <2>2 DEF Settled
  <2> QED
    BY <2>1, <2>2 DEF Settled
<1>8. TypeOK'
  <2>1. lost' \subseteq (0..(Units - 1)) \X Data
    BY <1>1, <1>4, <1>6 DEF TransQueueInv, TypeOK
  <2>2. UNIT_TOTAL_COUNT - 1 \in Nums
    BY <1>4 DEF Nums
  <2> QED
    BY <1>1, <1>2, <1>4, <2>1, <2>2 DEF TransQueueInv, TypeOK
<1>9. OrderInv'
  BY <1>1, <1>3 DEF TransQueueInv, OrderInv
<1>10. UnitInv'
  BY <1>1, <1>3 DEF TransQueueInv, UnitInv, Of
<1>11. KnownInv'
  BY <1>1, <1>3 DEF TransQueueInv, KnownInv, Known
<1>12. PastInv'
  <2>1. ASSUME NEW s \in Settled'
        PROVE  s[1] < id_new \/ (s[1] = id_new /\ s[2] <= UNIT_TOTAL_COUNT - 1)
    <3>1. CASE s \in Settled
      <4>1. s[2] \in 0..(UNIT_TOTAL_COUNT - 1)
        BY <3>1, SettledPairs, PlacePairs DEF TransQueueInv
      <4> QED
        BY <1>4, <3>1, <4>1 DEF TransQueueInv, PastInv
    <3>2. CASE \E n \in Data : s = <<id_new, n>> /\ n > number_old
      <4>1. \A n \in Data : n \in 0..(UNIT_TOTAL_COUNT - 1)
        BY DataInNums DEF Nums
      <4> QED
        BY <1>4, <3>2, <4>1
    <3> QED
      BY <1>7, <3>1, <3>2
  <2>2. ASSUME NEW s \in Settled', NEW x \in Coming
        PROVE  Before(s, x) \/ (s[1] = x[1] /\ s[1] \in late)
    <3>1. CASE s \in Settled
      BY <3>1 DEF TransQueueInv, PastInv
    <3>2. CASE s[1] = id_new
      <4>1. x[1] >= id_new /\ (x[1] > id_new \/ id_new \in late) /\ Pair(x)
        BY <1>1, ComingPlaces DEF TransQueueInv, UnitInv
      <4> QED
        BY <1>4, <3>2, <4>1 DEF Before, Pair
    <3> QED
      BY <1>7, <3>1, <3>2
  <2>3. ASSUME NEW s \in Range(popped)' PROVE Before(s, Upcoming)
    <3>1. CASE s \in Range(popped)
      BY <3>1 DEF TransQueueInv, PastInv
    <3>2. CASE s \notin Range(popped)
      BY <1>5, <3>2, GoodPlaces
    <3> QED
      BY <3>1, <3>2
  <2> QED
    BY <1>1, <1>3, <2>1, <2>2, <2>3 DEF PastInv
<1>13. ASSUME NEW s \in Settled, s[1] \notin late \/ id_new \notin late,
              NEW n \in Int, n > number_old
       PROVE  s # <<id_new, n>> /\ (id_new \notin late => Before(s, <<id_new, n>>))
  <2>1. Pair(s) /\ (s[1] < id_new \/ (s[1] = id_new /\ (s[2] <= number_old \/ id_new \in late)))
    BY SettledPairs DEF TransQueueInv, PastInv
  <2>2. PICK p : p = <<id_new, n>>
    OBVIOUS
  <2>3. p[1] = id_new /\ p[2] = n
    BY <2>2
  <2>4. s # p
    BY <1>4, <1>13, <2>1, <2>3 DEF Pair
  <2>5. id_new \notin late => Before(s, p)
    BY <1>4, <1>13, <2>1, <2>3 DEF Pair, Before
  <2> QED
    BY <2>2, <2>4, <2>5
<1>14. Delivered'
  <2>1. ASSUME NEW i \in 1..(Len(popped') - 1), popped'[i + 1][1] \notin late
        PROVE  Before(popped'[i], popped'[i + 1])
    <3>0. PICK c \in Nat, d \in Nat : c = Len(popped) /\ d = Len(t) /\ Len(popped') = c + d
      BY <1>2, <1>4
    <3>1. CASE i + 1 \in 1..Len(popped)
      <4>1. i \in 1..(c - 1) /\ i \in 1..Len(popped) /\ c - 1 = Len(popped) - 1
        BY <3>0, <3>1
      <4>2. popped'[i] = popped[i] /\ popped'[i + 1] = popped[i + 1]
        BY <1>2, <3>1, <4>1
      <4> QED
        BY <2>1, <4>1, <4>2 DEF TransQueueInv, Delivered
    <3>2. CASE i = Len(popped)
      <4>1. i + 1 \in (Len(popped) + 1)..Len(popped') /\ (i + 1) - Len(popped) = 1
        BY <3>0, <3>2
      <4>2. popped'[i + 1] = t[1] /\ 1 \in 1..Len(t)
        BY <1>2, <4>1
      <4>3. PICK n \in Good : popped'[i + 1] = <<id_new, n>>
        BY <1>2, <4>2
      <4>4. id_new \notin late
        BY <1>2, <2>1, <4>2
      <4>7. n > number_old /\ n \in Int
        BY GoodPlaces
      <4>5. i \in 1..Len(popped)
        BY <3>0, <3>2
      <4>6. popped'[i] = popped[i] /\ popped[i] \in Settled
        BY <1>2, <4>5, SettledPairs DEF TransQueueInv, Settled
      <4> QED
        BY <1>13, <4>3, <4>4, <4>6, <4>7
    <3>3. CASE i > Len(popped)
      <4>1. i \in (Len(popped) + 1)..Len(popped') /\ i + 1 \in (Len(popped) + 1)..Len(popped')
        BY <3>0, <3>3
      <4>2. i - Len(popped) < (i + 1) - Len(popped)
        BY <3>0
      <4> QED
        BY <1>2, <4>1, <4>2
    <3>4. i + 1 \in 1..Len(popped) \/ i = Len(popped) \/ i > Len(popped)
      BY <3>0
    <3> QED
      BY <3>1, <3>2, <3>3, <3>4
  <2>2. ASSUME NEW l \in lost', l[1] \notin late PROVE l \notin Range(popped)'
    <3>1. CASE l \in lost
      <4>1. l \notin Range(popped) /\ l \in Settled
        BY <2>2, <3>1 DEF TransQueueInv, Delivered, Settled
      <4>2. \A n \in Good : l # <<id_new, n>>
        BY <1>13, <2>2, <4>1, GoodPlaces
      <4> QED
        BY <1>5, <4>1, <4>2
    <3>2. CASE l \in gone
      <4>1. PICK n \in Data : l = <<id_new, n>> /\ n > number_old /\ u[n] = NULL
        BY <1>6, <3>2
      <4>2. n \in Int /\ l[1] = id_new
        BY <4>1, DataInNums DEF Nums
      <4>3. l \notin Settled
        BY <1>13, <2>2, <4>1, <4>2
      <4>4. \A m \in Good : l # <<id_new, m>>
        BY <4>1, GoodPlaces
      <4> QED
        BY <1>5, <4>3, <4>4 DEF Settled
    <3> QED
      BY <1>1, <3>1, <3>2
  <2>3. ASSUME NEW s \in Range(popped)', s \in pads PROVE s[2] = 0
    <3>1. CASE s \in Range(popped)
      BY <2>3, <3>1 DEF TransQueueInv, Delivered
    <3>2. CASE s \notin Range(popped)
      BY <1>5, <2>3, <3>2, GoodPlaces
    <3> QED
      BY <3>1, <3>2
  <2> QED
    BY <1>1, <2>1, <2>2, <2>3 DEF Delivered
<1> QED
  BY <1>8, <1>9, <1>10, <1>11, <1>12, <1>14 DEF TransQueueInv

-----------------------------------------------------------------------------
(* The sender, the monitor and UDP.                                        *)

(* Data or code: the package is sent under its number.                     *)
LEMMA SendAny ==
    ASSUME TransQueueInv, transfer_send(<<id, number>>), Numbered, number \in Nums,
           seen' \in BOOLEAN, pads' \subseteq pads \cup {Upcoming}, UNCHANGED <<events, out, receiver>>
    PROVE  TransQueueInv'
<1>1. Upcoming = <<id, number>> /\ TypeOK /\ OrderInv /\ UNCHANGED <<q, pc>>
  BY DEF Upcoming, TransQueueInv, receiver
<1>2. Upcoming \in Places
  <2>1. id \in 0..(Units - 1)
    BY <1>1, TransQueueAssumption DEF TypeOK, Numbered
  <2> QED
    BY <1>1, <2>1, PlacePairs
<1>3. /\ OrderInv' /\ fq' \in Seq(Places)
      /\ id' \in 0..Units /\ number' \in 0..(UNIT_TOTAL_COUNT - 1)
      /\ Pair(Upcoming') /\ Before(Upcoming, Upcoming')
      /\ \A x \in Coming' : x \in Coming \/ x = Upcoming'
  BY <1>1, <1>2, SendOrder
<1> QED
  BY <1>2, <1>3, SendKeeps

(* A package of the application or of the monitor.                         *)
LEMMA DataKeeps ==
    ASSUME TransQueueInv, NEW empty \in BOOLEAN, transqueue_send_data(empty)
    PROVE  TransQueueInv'
<1>1. /\ number \in Data /\ transfer_send(<<id, number>>) /\ Numbered
      /\ pads' = IF empty THEN pads \cup {<<id, number>>} ELSE pads
      /\ seen' = (seen /\ ~empty) /\ UNCHANGED <<events, out, receiver>>
  BY DEF transqueue_send_data
<1>2. number \in Nums /\ seen' \in BOOLEAN /\ pads' \subseteq pads \cup {Upcoming}
  BY <1>1, DataInNums DEF Upcoming
<1> QED
  BY <1>1, <1>2, SendAny

(* A code package.                                                         *)
LEMMA CodeKeeps ==
    ASSUME TransQueueInv, transqueue_send_code
    PROVE  TransQueueInv'
<1>1. /\ number \in Nums /\ transfer_send(<<id, number>>) /\ Numbered
      /\ pads' = pads /\ seen' = seen /\ UNCHANGED <<events, out, receiver>>
  BY DEF transqueue_send_code
<1>2. seen' \in BOOLEAN
  BY <1>1 DEF TransQueueInv, TypeOK
<1> QED
  BY <1>1, <1>2, SendAny

(* The decision to pad and the outages touch neither the packages nor the  *)
(* receiver.                                                               *)
LEMMA OutsideKeeps ==
    ASSUME TransQueueInv, transqueue_monitor \/ Outage
    PROVE  TransQueueInv'
<1>1. UNCHANGED <<id, number, pads, fq, pc, q, id_old, id_new, number_old, u, popped, lost, late>>
  BY DEF transqueue_monitor, Outage, sender, receiver
<1>2. TypeOK'
  <2>1. CASE transqueue_monitor
    <3>1. events \in Nat /\ MaxEvents \in Nat /\ seen' = TRUE /\ events' = events + 1
          /\ events < MaxEvents /\ out' = out
      BY <2>1, TransQueueAssumption DEF transqueue_monitor, TransQueueInv, TypeOK
    <3>2. events' \in 0..MaxEvents
      BY <3>1
    <3> QED
      BY <1>1, <3>1, <3>2 DEF TransQueueInv, TypeOK
  <2>2. CASE Outage
    <3>1. /\ events \in 0..MaxEvents /\ MaxEvents \in Nat /\ seen' = seen
          /\ events' = events \/ (events' = events + 1 /\ events < MaxEvents)
          /\ out' \in BOOLEAN
      BY <2>2, TransQueueAssumption DEF Outage, sender, TransQueueInv, TypeOK
    <3>2. events' \in 0..MaxEvents
      BY <3>1
    <3> QED
      BY <1>1, <3>1, <3>2 DEF TransQueueInv, TypeOK
  <2> QED
    BY <2>1, <2>2
<1>3. Coming' = Coming /\ Upcoming' = Upcoming /\ SentOf(id_new)' = SentOf(id_new)
  BY <1>1 DEF Coming, Upcoming, SentOf
<1>4. OrderInv'
  BY <1>1, <1>3 DEF TransQueueInv, OrderInv
<1>5. UnitInv'
  BY <1>1, <1>3 DEF TransQueueInv, UnitInv, Of
<1>6. KnownInv'
  BY <1>1, <1>3 DEF TransQueueInv, KnownInv, Known
<1> QED
  BY <1>1, <1>2, <1>3, <1>4, <1>5, <1>6, QuietKeeps

-----------------------------------------------------------------------------
(* The theorems.                                                           *)

(* The invariant holds at the start,                                       *)
LEMMA TransQueueInit ==
    ASSUME Init
    PROVE  TransQueueInv
<1>1. /\ id = 0 /\ number = 0 /\ pads = {} /\ seen = FALSE
      /\ fq = <<>> /\ events = 0 /\ out = FALSE /\ pc = "get" /\ q = NULL
      /\ id_old = -1 /\ id_new = 0 /\ number_old = UNIT_TOTAL_COUNT - 1
      /\ u = [num \in Nums |-> NULL] /\ popped = <<>> /\ lost = {} /\ late = {}
  BY DEF Init, Blank
<1>2. Units \in Nat \ {0} /\ MaxEvents \in Nat /\ UNIT_TOTAL_COUNT \in Nat \ {0}
  BY Counts, TransQueueAssumption
<1>3. TypeOK
  <2>1. number_old \in Nums /\ number \in 0..(UNIT_TOTAL_COUNT - 1)
    BY <1>1, <1>2 DEF Nums
  <2>2. u \in [Nums -> (0..(Units - 1)) \cup {NULL, Mixture}]
    BY <1>1
  <2>3. id \in 0..Units /\ id_new \in 0..(Units - 1) /\ id_old \in -1..(Units - 1) /\ events \in 0..MaxEvents
    BY <1>1, <1>2
  <2>4. <<>> \in Seq(Places)
    OBVIOUS
  <2>5. fq \in Seq(Places) /\ popped \in Seq(Places)
    BY <1>1, <2>4
  <2>6. pads \subseteq Places /\ lost \subseteq (0..(Units - 1)) \X Data /\ late \subseteq 0..(Units - 1)
    BY <1>1
  <2>7. seen \in BOOLEAN /\ out \in BOOLEAN /\ pc \in {"get", "collect", "decode"} /\ q \in Places \cup {NULL}
    BY <1>1
  <2> QED
    BY <2>1, <2>2, <2>3, <2>5, <2>6, <2>7 DEF TypeOK
<1>4. Upcoming = <<0, 0>> /\ Coming = {<<0, 0>>} /\ Settled = {} /\ Range(popped) = {}
  <2>1. Upcoming = <<0, 0>> /\ Settled = {} /\ Range(popped) = {}
    BY <1>1 DEF Upcoming, Settled, Range
  <2>2. 1..Len(fq) = {}
    BY <1>1
  <2> QED
    BY <1>1, <2>1, <2>2 DEF Coming
<1>5. OrderInv
  BY <1>1 DEF OrderInv
<1>6. UnitInv
  BY <1>1, <1>4 DEF UnitInv, Of
<1>7. PastInv
  BY <1>4 DEF PastInv
<1>8. KnownInv
  BY <1>1 DEF KnownInv, Known
<1>9. Delivered
  BY <1>1, <1>4 DEF Delivered
<1> QED
  BY <1>3, <1>5, <1>6, <1>7, <1>8, <1>9 DEF TransQueueInv

(* and every step keeps it.                                                *)
LEMMA TransQueueStep ==
    ASSUME TransQueueInv, [Next]_vars
    PROVE  TransQueueInv'
<1>1. CASE transqueue_send
  BY <1>1, DataKeeps, CodeKeeps DEF transqueue_send
<1>2. CASE transqueue_monitor \/ Outage
  BY <1>2, OutsideKeeps
<1>3. CASE transqueue_recv_order
  BY <1>3, OrderKeeps
<1>4. CASE transqueue_recv_gap
  BY <1>4, GapKeeps
<1>5. CASE transqueue_recv_collect
  BY <1>5, CollectUnit, CollectKept
<1>6. CASE transqueue_recv_timeout
  BY <1>6, TimeoutKeeps
<1>7. CASE transqueue_recv_round
  BY <1>7, RoundKeeps
<1>8. CASE transqueue_recv_decode
  BY <1>8, DecodeKeeps
<1>9. CASE UNCHANGED vars
  <2>1. UNCHANGED <<id, number, pads, seen, fq, events, out, pc, q,
                    id_old, id_new, number_old, u, popped, lost, late>>
    BY <1>9 DEF vars, sender, net, receiver
  <2>2. Coming' = Coming /\ Upcoming' = Upcoming /\ SentOf(id_new)' = SentOf(id_new)
    BY <2>1 DEF Coming, Upcoming, SentOf
  <2>3. TypeOK'
    BY <2>1 DEF TransQueueInv, TypeOK
  <2>4. OrderInv'
    BY <2>1, <2>2 DEF TransQueueInv, OrderInv
  <2>5. UnitInv'
    BY <2>1, <2>2 DEF TransQueueInv, UnitInv, Of
  <2>6. KnownInv'
    BY <2>1, <2>2 DEF TransQueueInv, KnownInv, Known
  <2> QED
    BY <2>1, <2>2, <2>3, <2>4, <2>5, <2>6, QuietKeeps
<1> QED
  BY <1>1, <1>2, <1>3, <1>4, <1>5, <1>6, <1>7, <1>8, <1>9 DEF Next, transqueue_recv

(* The inductive invariant: packages come in the order of sending, tq->u   *)
(* holds packages of one unit, made of data that was sent, and what was    *)
(* passed on or reported lies behind the receiver.                         *)
THEOREM TransQueueInvariance == Spec => []TransQueueInv
<1>1. Init => TransQueueInv
  BY TransQueueInit
<1>2. TransQueueInv /\ [Next]_vars => TransQueueInv'
  BY TransQueueStep
<1> QED
  BY <1>1, <1>2, PTL DEF Spec

(* The packages of a full unit cancel out on every line, those of code     *)
(* packages too, in whatever order unit_encode made them.                  *)
THEOREM CodeSoundness == Spec => []CodeSound
<1>1. CodeSound
  BY LinesCancelOut DEF CodeSound
<1> QED
  BY <1>1, PTL

(* A restored package is a package of its unit: the line it comes from     *)
(* cancels out, and it is never the exclusive or of packages of two units, *)
(* for transqueue_recv resets tq->u in time.                               *)
THEOREM DecodeSoundness == Spec => []DecodeSound
<1>1. TransQueueInv /\ CodeSound => DecodeSound
  BY DEF TransQueueInv, UnitInv, Of, DecodeSound
<1> QED
  BY <1>1, CodeSoundness, TransQueueInvariance, PTL

(* transqueue_pop returns the packages in the order of transqueue_push,    *)
(* each once, and none that was reported lost, whatever UDP loses.         *)
THEOREM DeliveryInOrder == Spec => []Delivered
<1>1. TransQueueInv => Delivered
  BY DEF TransQueueInv
<1> QED
  BY <1>1, TransQueueInvariance, PTL

(* unit_decode restores every package of a unit that lacks fewer than      *)
(* eight: the loop cannot end earlier.                                     *)
THEOREM FewAreRestored == Spec => FewRestored
<1>1. TransQueueInv /\ [Next]_vars
        => [transqueue_recv_decode /\ Cardinality({n \in Nums : u[n] = NULL}) < 8
                => lost' = lost]_vars
  <2> SUFFICES ASSUME TransQueueInv, transqueue_recv_decode,
                      Cardinality({n \in Nums : u[n] = NULL}) < 8
               PROVE  lost' = lost
    OBVIOUS
  <2>1. u = Round(u) /\ u \in Of(id_new) /\ id_new \in Int
    BY TransQueueAssumption DEF transqueue_recv_decode, Decoded, TransQueueInv, UnitInv, TypeOK
  <2>2. \A d \in 1..3 : Lone(u, d) = {}
    BY <2>1, RoundNothing
  <2>3. Missing(u) = {}
    <3>1. Missing(u) = {n \in Nums : u[n] = NULL}
      BY DEF Missing
    <3>2. IsFiniteSet(Missing(u))
      BY <3>1, NumsFinite, FS_Subset
    <3>3. Cardinality(Missing(u)) \in Nat /\ Cardinality(Missing(u)) < 8
      BY <3>1, <3>2, FS_CardinalityType
    <3>4. ~(Cardinality(Missing(u)) >= 8)
      BY <3>3
    <3> QED
      BY <2>2, <3>4, EightMissing
  <2>4. \A n \in Data : u[n] # NULL
    BY <2>3, DataInNums DEF Missing
  <2>5. {<<id_new, n>> : n \in {m \in {k \in Data : k > number_old} : u[m] = NULL}} = {}
    BY <2>4
  <2> QED
    BY <2>5 DEF transqueue_recv_decode, Deliver
<1> QED
  BY <1>1, TransQueueInvariance, PTL DEF Spec, FewRestored

-----------------------------------------------------------------------------
(* The speed limit of limit.c                                              *)

CONSTANTS limit, size, interval, duration, MaxTime, MaxCount

VARIABLES now, time_point, index, data, count, result, sent, slow, forgotten

L == INSTANCE Limit

(* How many intervals ago the slot s was filled, and the packages that     *)
(* went out before the time x.                                             *)
Age(s) == IF s <= index THEN index - s ELSE index - s + L!times

UpTo(x) == IF x = 0 THEN 0 ELSE sent[x - 1]

(* The ring has moved m times.  A slot holds at least what went out before *)
(* the end of its interval: a check that comes late finds more.            *)
RingAt(m) ==
    /\ time_point = m * interval
    /\ m < L!times => index = m
    /\ \A s \in 0..(L!times - 1) :
        IF Age(s) > m THEN data[s] = 0 ELSE UpTo((m - Age(s)) * interval) <= data[s]

LimitInv ==
    /\ now \in Nat /\ time_point \in 0..now /\ count \in Nat
    /\ index \in 0..(L!times - 1) /\ data \in [0..(L!times - 1) -> Nat]
    /\ sent \in [0..now -> Nat] /\ sent[now] = count
    /\ \A t, v \in 0..now : t <= v => sent[t] <= sent[v]
    /\ \E m \in Nat : RingAt(m)

(* The ring has a slot more than the intervals it covers.                  *)
LEMMA RingLength ==
    ASSUME L!LimitAssumption
    PROVE  /\ limit \in Nat \ {0} /\ size \in Nat \ {0} /\ interval \in Nat \ {0}
           /\ L!times \in Nat /\ L!times >= 2
           /\ duration = (L!times - 1) * interval
<1>1. /\ limit \in Nat \ {0} /\ size \in Nat \ {0} /\ interval \in Nat \ {0}
      /\ \E k \in 1..MaxTime : duration = k * interval /\ k \in Nat \ {0}
  BY DEF L!LimitAssumption
<1>2. PICK k \in Nat \ {0} : duration = k * interval
  BY <1>1
<1>3. duration \in Nat
  BY <1>1, <1>2
<1>4. /\ duration \div interval \in Nat /\ duration % interval \in 0..(interval - 1)
      /\ k * interval + 0 = (duration \div interval) * interval + (duration % interval)
  <2>1. PICK n \in Nat, d \in Nat \ {0} : n = duration /\ d = interval
    BY <1>1, <1>3
  <2>2. n \div d \in Nat /\ n % d \in 0..(d - 1) /\ n = (n \div d) * d + (n % d)
    BY Digits
  <2>3. k * d + 0 = n /\ k * d \in Nat
    BY <1>2, <2>1
  <2> QED
    BY <2>1, <2>2, <2>3
<1>5. k = duration \div interval
  BY <1>1, <1>4, DigitsUnique
<1> QED
  BY <1>1, <1>2, <1>5 DEF L!times

(* Multiples of the interval up to m of them.                              *)
LEMMA Multiples ==
    ASSUME NEW i \in Nat \ {0}, NEW m \in Nat, NEW a \in 0..m
    PROVE  /\ m * i \in Nat /\ (m - a) * i \in Nat /\ (m - a) * i <= m * i
           /\ (m - a) * i = m * i - a * i /\ a * i \in Nat
           /\ (m + 1) * i = m * i + i
<1>1. m - a \in Nat /\ a \in Nat
  OBVIOUS
<1>2. m * i \in Nat /\ (m - a) * i \in Nat /\ a * i \in Nat
  BY <1>1
<1>3. (m - a) * i = m * i - a * i
  BY <1>1
<1>4. (m + 1) * i = m * i + i
  OBVIOUS
<1> QED
  BY <1>2, <1>3, <1>4

(* The index runs round the ring.                                          *)
LEMMA NextSlot ==
    ASSUME NEW n \in Nat \ {0}, NEW i \in 0..(n - 1)
    PROVE  (i + 1) % n = IF i = n - 1 THEN 0 ELSE i + 1
<1>1. i + 1 \in Nat
  OBVIOUS
<1>2. /\ (i + 1) \div n \in Nat /\ (i + 1) % n \in 0..(n - 1)
      /\ i + 1 = ((i + 1) \div n) * n + ((i + 1) % n)
  BY <1>1, Digits
<1>3. CASE i = n - 1
  <2>1. 1 * n + 0 = ((i + 1) \div n) * n + ((i + 1) % n) /\ 0 \in 0..(n - 1)
    BY <1>2, <1>3
  <2>2. 0 = (i + 1) % n
    BY <1>2, <2>1, DigitsUnique
  <2> QED
    BY <1>3, <2>2
<1>4. CASE i # n - 1
  <2>1. 0 * n + (i + 1) = ((i + 1) \div n) * n + ((i + 1) % n) /\ i + 1 \in 0..(n - 1)
    BY <1>2, <1>4
  <2>2. i + 1 = (i + 1) % n
    BY <1>2, <2>1, DigitsUnique
  <2> QED
    BY <1>4, <2>2
<1> QED
  BY <1>3, <1>4

(* A product grows with its factor.                                        *)
LEMMA Stretch ==
    ASSUME NEW x \in Int, NEW y \in Int, NEW z \in Nat, x >= y
    PROVE  x * z >= y * z
<1>1. (x - y) * z >= 0
  OBVIOUS
<1>2. (x - y) * z = x * z - y * z
  OBVIOUS
<1>3. x * z \in Int /\ y * z \in Int
  OBVIOUS
<1> QED
  BY <1>1, <1>2, <1>3

(* At the start the ring is empty.                                         *)
LEMMA LimitInit ==
    ASSUME L!LimitAssumption, L!Init
    PROVE  LimitInv
<1>1. L!times \in Nat /\ L!times >= 2 /\ interval \in Nat
  BY RingLength
<1>2. /\ now = 0 /\ time_point = 0 /\ index = 0 /\ count = 0
      /\ data = [i \in 0..(L!times - 1) |-> 0] /\ sent = [t \in {0} |-> 0]
  BY DEF L!Init
<1>3. 0..0 = {0}
  OBVIOUS
<1>4. sent \in [0..now -> Nat] /\ sent[now] = count /\ sent[0] = 0
  BY <1>2, <1>3
<1>5. RingAt(0)
  <2>1. time_point = 0 * interval
    BY <1>1, <1>2
  <2>2. \A s \in 0..(L!times - 1) : Age(s) \in Nat /\ (Age(s) > 0 \/ Age(s) = 0) /\ data[s] = 0
    BY <1>1, <1>2 DEF Age
  <2>3. UpTo((0 - 0) * interval) = 0
    BY <1>1 DEF UpTo
  <2> QED
    BY <1>2, <2>1, <2>2, <2>3 DEF RingAt
<1> QED
  BY <1>1, <1>2, <1>3, <1>4, <1>5 DEF LimitInv

(* The ring is as full as it was while the history of what lies before     *)
(* time_point is as it was.                                                *)
LEMMA RingStays ==
    ASSUME L!LimitAssumption, NEW m \in Nat, RingAt(m), index \in 0..(L!times - 1),
           UNCHANGED <<time_point, index, data>>,
           \A x \in 0..time_point : UpTo(x)' = UpTo(x)
    PROVE  RingAt(m)'
<1>1. L!times' = L!times /\ L!times \in Nat /\ interval \in Nat \ {0}
  BY RingLength DEF L!times
<1>2. \A s \in 0..(L!times - 1) : Age(s)' = Age(s) /\ Age(s) \in Nat
  BY <1>1 DEF Age
<1>3. ASSUME NEW s \in 0..(L!times - 1), ~(Age(s) > m)
      PROVE  UpTo((m - Age(s)) * interval)' = UpTo((m - Age(s)) * interval)
  <2>1. PICK a \in 0..m : a = Age(s)
    BY <1>2, <1>3
  <2>2. (m - a) * interval \in 0..time_point
    BY <1>1, Multiples DEF RingAt
  <2>3. UpTo((m - a) * interval)' = UpTo((m - a) * interval)
    BY <2>2
  <2> QED
    BY <1>2, <2>1, <2>3
<1> QED
  BY <1>1, <1>2, <1>3 DEF RingAt

(* What happens to the ring when an interval is over.                      *)
LEMMA RingMoves ==
    ASSUME L!LimitAssumption, LimitInv, L!limit_speed_check, L!Due
    PROVE  /\ time_point' = time_point + interval /\ UNCHANGED <<now, count, sent>>
           /\ time_point' \in 0..now /\ index' \in 0..(L!times - 1)
           /\ index' = IF index = L!times - 1 THEN 0 ELSE index + 1
           /\ data' \in [0..(L!times - 1) -> Nat] /\ data'[index'] = count
           /\ \A s \in 0..(L!times - 1) : s # index' => data'[s] = data[s]
           /\ \A s \in 0..(L!times - 1) : /\ s # index' => Age(s)' = Age(s) + 1
                                          /\ s = index' => Age(s)' = 0
                                          /\ Age(s) \in Nat
<1>0. /\ L!times' = L!times /\ L!times \in Nat /\ L!times >= 2 /\ interval \in Nat \ {0}
  BY RingLength DEF L!times
<1>1. /\ now \in Nat /\ time_point \in 0..now /\ count \in Nat
      /\ index \in 0..(L!times - 1) /\ data \in [0..(L!times - 1) -> Nat]
  BY DEF LimitInv
<1>2. /\ index' = (index + 1) % L!times /\ data' = [data EXCEPT ![index'] = count]
      /\ time_point' = time_point + interval
      /\ now - time_point + 1 > interval /\ UNCHANGED <<now, count, sent>>
  BY DEF L!limit_speed_check, L!Index, L!Ring, L!Due, L!Elapsed
<1>3. /\ time_point' \in 0..now /\ index' \in 0..(L!times - 1)
      /\ index' = IF index = L!times - 1 THEN 0 ELSE index + 1
  <2>1. index' = IF index = L!times - 1 THEN 0 ELSE index + 1
    <3>1. PICK n \in Nat \ {0} : n = L!times
      BY <1>0, <1>1
    <3>2. (index + 1) % n = IF index = n - 1 THEN 0 ELSE index + 1
      <4>1. index \in 0..(n - 1)
        BY <1>1, <3>1
      <4> QED
        BY <4>1, NextSlot
    <3> QED
      BY <1>2, <3>1, <3>2
  <2>2. time_point' \in 0..now
    BY <1>0, <1>1, <1>2
  <2> QED
    BY <1>0, <1>1, <2>1, <2>2
<1>4. /\ data' \in [0..(L!times - 1) -> Nat] /\ data'[index'] = count
      /\ \A s \in 0..(L!times - 1) : s # index' => data'[s] = data[s]
  BY <1>1, <1>2, <1>3
<1>5. \A s \in 0..(L!times - 1) : /\ s # index' => Age(s)' = Age(s) + 1
                                  /\ s = index' => Age(s)' = 0
                                  /\ Age(s) \in Nat
  BY <1>0, <1>1, <1>3 DEF Age
<1> QED
  BY <1>2, <1>3, <1>4, <1>5, ZenonT(30)

(* Every step keeps the ring right.                                        *)
LEMMA LimitStep ==
    ASSUME L!LimitAssumption, LimitInv, [L!Next]_(L!vars)
    PROVE  LimitInv'
<1>0. /\ L!times' = L!times /\ L!times \in Nat /\ L!times >= 2 /\ interval \in Nat \ {0}
      /\ duration' = duration
  BY RingLength DEF L!times
<1>1. PICK m \in Nat : RingAt(m)
  BY DEF LimitInv
<1>2. /\ now \in Nat /\ time_point \in 0..now /\ count \in Nat
      /\ index \in 0..(L!times - 1) /\ data \in [0..(L!times - 1) -> Nat]
      /\ sent \in [0..now -> Nat] /\ sent[now] = count
      /\ \A t, v \in 0..now : t <= v => sent[t] <= sent[v]
  BY DEF LimitInv
<1>3. CASE L!Tick
  <2>1. /\ now' = now + 1 /\ sent' = [t \in 0..now' |-> IF t = now' THEN count ELSE sent[t]]
        /\ UNCHANGED <<time_point, index, data, count>>
    BY <1>3 DEF L!Tick
  <2>2. /\ now' \in Nat /\ now' \in 0..now' /\ \A t \in 0..now : t \in 0..now' /\ t # now'
        /\ \A t \in 0..now' : t \in 0..now \/ t = now'
    BY <1>2, <2>1
  <2>3. sent' \in [0..now' -> Nat] /\ sent'[now'] = count' /\ \A t \in 0..now : sent'[t] = sent[t]
    BY <1>2, <2>1, <2>2
  <2>4. \A t \in 0..now : sent[t] <= count
    BY <1>2
  <2>5. \A t, v \in 0..now' : t <= v => sent'[t] <= sent'[v]
    BY <1>2, <2>1, <2>2, <2>3, <2>4
  <2>6. \A x \in 0..time_point : UpTo(x)' = UpTo(x)
    BY <1>2, <2>3 DEF UpTo
  <2>7. RingAt(m)'
    BY <1>1, <1>2, <2>1, <2>6, RingStays
  <2>8. time_point' \in 0..now'
    BY <1>2, <2>1
  <2> QED
    BY <1>0, <1>2, <2>1, <2>2, <2>3, <2>5, <2>7, <2>8 DEF LimitInv
<1>4. CASE L!limit_speed_add
  <2>1. /\ count' = count + 1 /\ sent' = [sent EXCEPT ![now] = count']
        /\ UNCHANGED <<now, time_point, index, data>>
    BY <1>4 DEF L!limit_speed_add
  <2>2. /\ sent' \in [0..now -> Nat] /\ sent'[now] = count' /\ count' \in Nat
        /\ \A t \in 0..now : t # now => sent'[t] = sent[t]
    BY <1>2, <2>1
  <2>3. \A t, v \in 0..now : t <= v => sent'[t] <= sent'[v]
    <3> SUFFICES ASSUME NEW t \in 0..now, NEW v \in 0..now, t <= v
                 PROVE  sent'[t] <= sent'[v]
      OBVIOUS
    <3>1. sent[t] <= sent[v] /\ sent[t] <= sent[now] /\ sent[t] \in Nat /\ now \in 0..now
      BY <1>2
    <3>2. CASE v = now
      BY <1>2, <2>1, <2>2, <3>1, <3>2
    <3>3. CASE v # now
      <4>1. t # now
        BY <1>2, <3>3
      <4> QED
        BY <2>2, <3>1, <3>3, <4>1
    <3> QED
      BY <3>2, <3>3
  <2>4. \A x \in 0..time_point : UpTo(x)' = UpTo(x)
    <3> SUFFICES ASSUME NEW x \in 0..time_point, x # 0 PROVE sent'[x - 1] = sent[x - 1]
      BY DEF UpTo
    <3>1. x - 1 \in 0..now /\ x - 1 # now
      BY <1>2
    <3> QED
      BY <2>2, <3>1
  <2>5. RingAt(m)'
    BY <1>1, <1>2, <2>1, <2>4, RingStays
  <2> QED
    BY <1>0, <1>2, <2>1, <2>2, <2>3, <2>5 DEF LimitInv
<1>5. CASE L!limit_speed_check /\ ~L!Due
  <2>1. UNCHANGED <<now, time_point, index, data, count, sent>>
    BY <1>5 DEF L!limit_speed_check, L!Index, L!Ring
  <2>2. \A x \in 0..time_point : UpTo(x)' = UpTo(x)
    BY <2>1 DEF UpTo
  <2>3. RingAt(m)'
    BY <1>1, <1>2, <2>1, <2>2, RingStays
  <2> QED
    BY <1>0, <1>2, <2>1, <2>3 DEF LimitInv
<1>6. CASE L!limit_speed_check /\ L!Due
  <2>1. /\ time_point' = time_point + interval /\ UNCHANGED <<now, count, sent>>
        /\ time_point' \in 0..now /\ index' \in 0..(L!times - 1)
        /\ index' = IF index = L!times - 1 THEN 0 ELSE index + 1
        /\ data' \in [0..(L!times - 1) -> Nat] /\ data'[index'] = count
        /\ \A s \in 0..(L!times - 1) : s # index' => data'[s] = data[s]
        /\ \A s \in 0..(L!times - 1) : /\ s # index' => Age(s)' = Age(s) + 1
                                       /\ s = index' => Age(s)' = 0
                                       /\ Age(s) \in Nat
    BY <1>6, RingMoves
  <2>5. \A x : UpTo(x)' = UpTo(x)
    BY <2>1 DEF UpTo
  <2>6. RingAt(m + 1)'
    <3>1. time_point' = (m + 1) * interval
      BY <1>0, <1>1, <2>1, Multiples DEF RingAt
    <3>2. m + 1 < L!times => index' = m + 1
      BY <1>0, <1>1, <2>1 DEF RingAt
    <3>3. UpTo((m + 1) * interval) <= count
      <4>1. PICK tp : tp = (m + 1) * interval /\ tp \in 0..now
        BY <2>1, <3>1
      <4>2. (tp - 1 \in 0..now /\ tp - 1 <= now /\ now \in 0..now) \/ tp = 0
        BY <1>2, <4>1
      <4>3. UpTo(tp) <= count
        BY <1>2, <4>2 DEF UpTo
      <4> QED
        BY <4>1, <4>3
    <3>5. PICK n \in Nat : n = m + 1
      OBVIOUS
    <3>4. ASSUME NEW s \in 0..(L!times - 1)
          PROVE  \E b \in Nat : /\ b = Age(s)'
                                /\ IF b > n THEN data'[s] = 0
                                   ELSE UpTo((n - b) * interval) <= data'[s]
      <4>1. CASE s = index'
        <5>1. Age(s)' = 0 /\ n - 0 = m + 1 /\ ~(0 > n) /\ 0 \in Nat
          BY <2>1, <3>5, <4>1
        <5>2. UpTo((n - 0) * interval) <= data'[s]
          BY <2>1, <3>3, <4>1, <5>1
        <5> QED
          BY <5>1, <5>2
      <4>2. CASE s # index'
        <5>1. PICK a \in Nat : a = Age(s) /\ Age(s)' = a + 1
          BY <2>1, <4>2
        <5>2. n - (a + 1) = m - a /\ (a + 1 > n <=> a > m) /\ a + 1 \in Nat
          BY <3>5
        <5>3. IF a > m THEN data[s] = 0 ELSE UpTo((m - a) * interval) <= data[s]
          BY <1>1, <5>1 DEF RingAt
        <5>4. IF a + 1 > n THEN data'[s] = 0 ELSE UpTo((n - (a + 1)) * interval) <= data'[s]
          BY <2>1, <4>2, <5>2, <5>3
        <5> QED
          BY <5>1, <5>2, <5>4
      <4> QED
        BY <4>1, <4>2
    <3>6. RingAt(n)'
      <4>1. time_point' = n * interval' /\ (n < L!times' => index' = n)
        BY <1>0, <3>1, <3>2, <3>5
      <4>2. ASSUME NEW s \in 0..(L!times - 1)
            PROVE  (IF Age(s) > n THEN data[s] = 0 ELSE UpTo((n - Age(s)) * interval) <= data[s])'
        <5>1. PICK a \in Nat : /\ a = Age(s)'
                               /\ IF a > n THEN data'[s] = 0
                                  ELSE UpTo((n - a) * interval) <= data'[s]
          BY <3>4
        <5>3. UpTo((n - a) * interval)' = UpTo((n - a) * interval)
          BY <2>5
        <5> QED
          BY <5>1, <5>3
      <4> QED
        BY <1>0, <4>1, <4>2 DEF RingAt
    <3> QED
      BY <3>5, <3>6
  <2>7. m + 1 \in Nat
    OBVIOUS
  <2> QED
    BY <1>0, <1>2, <2>1, <2>6, <2>7 DEF LimitInv
<1>7. CASE UNCHANGED L!vars
  <2>1. UNCHANGED <<now, time_point, index, data, count, sent>>
    BY <1>7 DEF L!vars
  <2>2. \A x \in 0..time_point : UpTo(x)' = UpTo(x)
    BY <2>1 DEF UpTo
  <2>3. RingAt(m)'
    BY <1>1, <1>2, <2>1, <2>2, RingStays
  <2> QED
    BY <1>0, <1>2, <2>1, <2>3 DEF LimitInv
<1> QED
  BY <1>3, <1>4, <1>5, <1>6, <1>7 DEF L!Next

(* The ring is right in every state, however late the checks come.         *)
THEOREM LimitInvariance == ASSUME L!LimitAssumption PROVE L!Spec => []LimitInv
<1>1. L!Init => LimitInv
  BY LimitInit
<1>2. LimitInv /\ [L!Next]_(L!vars) => LimitInv'
  BY LimitStep
<1> QED
  BY <1>1, <1>2, PTL DEF L!Spec

(* A caller that limit_speed_check refuses has sent too much over a stretch*)
(* of time that ends now: it begins where the oldest slot was due.         *)
THEOREM LimitRefuses == ASSUME L!LimitAssumption PROVE L!Spec => L!RefusedWhenFast
<1>1. LimitInv /\ LimitInv' /\ [L!Next]_(L!vars)
        => [L!limit_speed_check /\ L!Fast =>
                \E from \in 0..now : L!Sent(from) * size > limit * (now - from + 1)]_(L!vars)
  <2> SUFFICES ASSUME LimitInv, LimitInv', L!limit_speed_check, L!Fast
               PROVE  \E from \in 0..now : L!Sent(from) * size > limit * (now - from + 1)
    OBVIOUS
  <2>0. /\ L!times' = L!times /\ L!times \in Nat /\ L!times >= 2 /\ interval \in Nat \ {0}
        /\ duration = (L!times - 1) * interval /\ limit \in Nat \ {0} /\ size \in Nat \ {0}
    BY RingLength DEF L!times
  <2>1. PICK m \in Nat : RingAt(m)'
    BY DEF LimitInv
  <2>2. PICK i, tp, d : i = L!Index /\ tp = time_point' /\ d = L!Ring
    OBVIOUS
  <2>3. /\ i = index' /\ d = data' /\ UNCHANGED <<now, count, sent>>
        /\ L!Since = now - tp + 1
    <3>1. i = index' /\ d = data' /\ UNCHANGED <<now, count, sent>>
      BY <2>2 DEF L!limit_speed_check
    <3>2. now \in Int /\ time_point \in Int /\ interval \in Int
      BY <2>0 DEF LimitInv
    <3>3. tp = IF L!Due THEN time_point + interval ELSE time_point
      BY <2>2 DEF L!limit_speed_check
    <3>4. L!Since = now - tp + 1
      BY <3>2, <3>3 DEF L!Since, L!Elapsed
    <3> QED
      BY <3>1, <3>4
  <2>4. /\ i \in 0..(L!times - 1) /\ d \in [0..(L!times - 1) -> Nat] /\ tp \in 0..now
        /\ now \in Nat /\ count \in Nat /\ sent \in [0..now -> Nat] /\ tp = m * interval
        /\ (m < L!times => i = m)
    BY <2>0, <2>1, <2>2, <2>3 DEF LimitInv, RingAt
  <2> DEFINE age(s) == IF s <= i THEN i - s ELSE i - s + L!times
  <2>5. \A s \in 0..(L!times - 1) :
            IF age(s) > m THEN d[s] = 0 ELSE UpTo((m - age(s)) * interval) <= d[s]
    <3>1. \A s : Age(s)' = age(s)
      BY <2>0, <2>3 DEF Age
    <3>2. \A x : UpTo(x)' = UpTo(x)
      BY <2>3 DEF UpTo
    <3> QED
      BY <2>0, <2>1, <2>3, <3>1, <3>2 DEF RingAt
  <2>6. \E s \in 0..(L!times - 1), a \in 0..m :
            /\ s = L!Oldest /\ a = age(s) /\ L!Covered = a * interval
    <3>1. CASE L!Full
      <4>1. d[L!times - 1] # 0 /\ L!Oldest = (i + 1) % L!times /\ L!Covered = duration
        BY <2>2, <3>1 DEF L!Full, L!Oldest, L!Covered
      <4>2. L!times - 1 <= m
        <5> SUFFICES ASSUME m < L!times - 1 PROVE FALSE
          BY <2>0
        <5>1. i = m /\ age(L!times - 1) > m /\ L!times - 1 \in 0..(L!times - 1)
          BY <2>0, <2>4
        <5> QED
          BY <2>5, <4>1, <5>1
      <4>3. L!Oldest = IF i = L!times - 1 THEN 0 ELSE i + 1
        <5>1. PICK n \in Nat \ {0} : n = L!times /\ i \in 0..(n - 1)
          BY <2>0, <2>4
        <5>2. (i + 1) % n = IF i = n - 1 THEN 0 ELSE i + 1
          BY <5>1, NextSlot
        <5> QED
          BY <4>1, <5>1, <5>2
      <4>4. L!Oldest \in 0..(L!times - 1) /\ age(L!Oldest) = L!times - 1
        BY <2>0, <2>4, <4>3
      <4>5. L!times - 1 \in 0..m
        BY <2>0, <4>2
      <4> QED
        BY <2>0, <4>1, <4>4, <4>5
    <3>2. CASE ~L!Full
      <4>1. L!Oldest = 0 /\ L!Covered = interval * i
        BY <2>2, <3>2 DEF L!Oldest, L!Covered
      <4>2. age(0) = i /\ i \in 0..m /\ 0 \in 0..(L!times - 1) /\ interval * i = i * interval
        BY <2>0, <2>4
      <4> QED
        BY <4>1, <4>2
    <3> QED
      BY <3>1, <3>2
  <2>7. PICK s \in 0..(L!times - 1), a \in 0..m :
            s = L!Oldest /\ a = age(s) /\ L!Covered = a * interval
    BY <2>6
  <2>8. PICK from \in Int, c \in Int : from = (m - a) * interval /\ c = a * interval
    BY <2>0, Multiples
  <2>9. from \in 0..now /\ c + (now - tp + 1) = now - from + 1
    <3>1. PICK z \in Int : z = m * interval
      BY <2>0
    <3>2. from = z - c /\ from <= z /\ from \in Nat
      BY <2>0, <2>8, <3>1, Multiples
    <3> QED
      BY <2>4, <3>1, <3>2, SMTT(40)
  <2>10. UpTo(from) <= d[s] /\ UpTo(from) \in Nat /\ d[s] \in Nat
    <3>1. ~(a > m)
      OBVIOUS
    <3>2. UpTo((m - a) * interval) <= d[s]
      BY <2>5, <2>7, <3>1
    <3>3. from = 0 \/ from - 1 \in 0..now
      BY <2>4, <2>9
    <3>4. UpTo(from) \in Nat
      BY <2>4, <3>3 DEF UpTo
    <3> QED
      BY <2>4, <2>8, <3>2, <3>4
  <2>11. (count - d[s]) * size > limit * (now - from + 1)
    BY <2>2, <2>3, <2>7, <2>8, <2>9 DEF L!Fast
  <2>12. L!Sent(from) = count - UpTo(from)
    BY DEF L!Sent, UpTo
  <2>13. (count - UpTo(from)) * size >= (count - d[s]) * size
    <3>1. PICK x \in Int, y \in Int, z \in Nat : x = count - UpTo(from) /\ y = count - d[s] /\ z = size
      BY <2>0, <2>4, <2>10
    <3>2. x >= y
      BY <2>4, <2>10, <3>1
    <3>3. x * z >= y * z
      BY <3>2, Stretch
    <3> QED
      BY <3>1, <3>3
  <2>14. L!Sent(from) * size > limit * (now - from + 1)
    <3>1. /\ (count - UpTo(from)) * size \in Int /\ (count - d[s]) * size \in Int
          /\ limit * (now - from + 1) \in Int
      BY <2>0, <2>4, <2>10
    <3> QED
      BY <2>11, <2>12, <2>13, <3>1
  <2> QED
    BY <2>9, <2>14
<1> QED
  BY <1>1, LimitInvariance, PTL DEF L!Spec, L!RefusedWhenFast

(* The slot a check compares with.                                         *)
OldSlot == IF data[L!times - 1] # 0 THEN (index + 1) % L!times ELSE 0

(* What went out before the time x or was forgotten, and what SpeedKept    *)
(* wants of the rest of a stretch.                                         *)
Base(x) == IF UpTo(x) < forgotten THEN forgotten ELSE UpTo(x)

Allowed(from) == (count - Base(from) - 2) * size <= limit * (duration + interval)

(* While the last slot is 0, slot 0 is as it was when the ring last forgot.*)
FilledInv ==
    /\ forgotten \in Nat /\ forgotten <= count
    /\ \A s \in 0..(L!times - 1) : data[s] <= count
    /\ data[L!times - 1] = 0 => data[0] = forgotten
    /\ index = L!times - 1 /\ data[index] = 0 => forgotten = 0

(* A ring that may forget at its next move was never filled: what it is to *)
(* forget is what was sent in the interval before, and the checks of that  *)
(* interval saw all of it.                                                 *)
ForgottenInv ==
    /\ (forgotten - 1) * size <= limit * (duration + interval)
    /\ index = L!times - 1 /\ data[index] = 0 =>
        /\ (count - 1) * size <= limit * (duration + interval)
        /\ result => count * size <= limit * (duration + interval)

(* A slot that was filled in time has one package too many at most.        *)
CleanInv ==
    \A s \in 0..(L!times - 1) :
        Age(s) * interval <= time_point /\ Age(s) + 1 < 2 * L!times - slow
            => data[s] <= UpTo(time_point - Age(s) * interval) + 1

(* What the last check found, if it was in time.                           *)
CheckedInv ==
    slow < 2 * L!times =>
        /\ time_point + interval <= now + 1
              => count <= UpTo(time_point + interval) + (IF result THEN 0 ELSE 1)
        /\ result => (count - data[OldSlot]) * size <= limit * (duration + interval)

(* SpeedKept for the stretches that began after the ring was in time again.*)
StretchInv ==
    slow < L!times =>
        \A from \in 0..now :
            /\ now - from < duration
            /\ from >= time_point - (L!times - 1 - slow) * interval
            => Allowed(from)

SpeedInv ==
    /\ slow \in 0..(2 * L!times) /\ result \in BOOLEAN
    /\ FilledInv /\ ForgottenInv /\ CleanInv /\ CheckedInv /\ StretchInv

(* The packages that went out before a time grow with it.                  *)
LEMMA UpToGrows ==
    ASSUME LimitInv
    PROVE  /\ now \in Nat /\ count \in Nat
           /\ \A x \in 0..(now + 1) : UpTo(x) \in Nat /\ UpTo(x) <= count
           /\ \A x, y \in 0..(now + 1) : x <= y => UpTo(x) <= UpTo(y)
           /\ UpTo(now + 1) = count
<1>1. /\ now \in Nat /\ count \in Nat /\ sent \in [0..now -> Nat] /\ sent[now] = count
      /\ \A t, v \in 0..now : t <= v => sent[t] <= sent[v]
  BY DEF LimitInv
<1>2. \A x \in 0..(now + 1) : x = 0 \/ (x - 1 \in 0..now /\ x # 0)
  BY <1>1
<1>3. \A x \in 0..(now + 1) : UpTo(x) \in Nat /\ UpTo(x) <= count
  BY <1>1, <1>2 DEF UpTo
<1>4. ASSUME NEW x \in 0..(now + 1), NEW y \in 0..(now + 1), x <= y
      PROVE  UpTo(x) <= UpTo(y)
  <2>1. CASE x = 0
    BY <1>3, <2>1 DEF UpTo
  <2>2. CASE x # 0
    <3>1. x - 1 \in 0..now /\ y - 1 \in 0..now /\ x - 1 <= y - 1 /\ y # 0
      BY <1>1, <1>2, <1>4, <2>2
    <3> QED
      BY <1>1, <2>2, <3>1 DEF UpTo
  <2> QED
    BY <2>1, <2>2
<1>5. UpTo(now + 1) = count
  <2>1. now + 1 # 0 /\ now + 1 - 1 = now
    BY <1>1
  <2> QED
    BY <1>1, <2>1 DEF UpTo
<1> QED
  BY <1>1, <1>3, <1>4, <1>5

(* What is not counted any more of a stretch.                              *)
LEMMA BaseRight ==
    ASSUME LimitInv, FilledInv, NEW x \in 0..(now + 1)
    PROVE  /\ Base(x) \in Nat /\ Base(x) <= count
           /\ UpTo(x) <= Base(x) /\ forgotten <= Base(x)
<1>1. UpTo(x) \in Nat /\ UpTo(x) <= count /\ count \in Nat
  BY UpToGrows
<1>2. forgotten \in Nat /\ forgotten <= count
  BY DEF FilledInv
<1> QED
  BY <1>1, <1>2 DEF Base

(* The slot of the comparison counts one package too many at most, when    *)
(* the ring is in time.                                                    *)
LEMMA OldSlotRight ==
    ASSUME L!LimitAssumption, LimitInv, SpeedInv, slow < L!times
    PROVE  /\ data[OldSlot] \in Nat
           /\ \A from \in 0..now : now - from < duration => data[OldSlot] <= Base(from) + 1
<1>0. /\ L!times \in Nat /\ L!times >= 2 /\ interval \in Nat \ {0}
      /\ duration = (L!times - 1) * interval
  BY RingLength
<1>1. PICK m \in Nat : RingAt(m)
  BY DEF LimitInv
<1>2. /\ now \in Nat /\ time_point \in 0..now /\ index \in 0..(L!times - 1)
      /\ data \in [0..(L!times - 1) -> Nat] /\ slow \in Nat
  BY <1>0 DEF LimitInv, SpeedInv
<1>3. \A x \in 0..(now + 1) : UpTo(x) \in Nat
  BY UpToGrows
<1>4. CASE data[L!times - 1] # 0
  <2>1. OldSlot = IF index = L!times - 1 THEN 0 ELSE index + 1
    <3>1. PICK n \in Nat \ {0} : n = L!times
      BY <1>0
    <3>2. index \in 0..(n - 1)
      BY <1>2, <3>1
    <3>3. (index + 1) % n = IF index = n - 1 THEN 0 ELSE index + 1
      BY <3>2, NextSlot
    <3> QED
      BY <1>4, <3>1, <3>3 DEF OldSlot
  <2>2. OldSlot \in 0..(L!times - 1) /\ Age(OldSlot) = L!times - 1
    BY <1>0, <1>2, <2>1 DEF Age
  <2>3. L!times - 1 <= m
    <3> SUFFICES ASSUME m < L!times - 1 PROVE FALSE
      BY <1>0
    <3>1. index = m /\ Age(L!times - 1) > m /\ L!times - 1 \in 0..(L!times - 1)
      BY <1>0, <1>1 DEF RingAt, Age
    <3> QED
      BY <1>1, <1>4, <3>1 DEF RingAt
  <2>4. PICK d \in Nat : d = duration /\ d <= time_point
    <3>1. PICK a \in 0..m : a = L!times - 1
      BY <1>0, <2>3
    <3>2. m * interval \in Nat /\ a * interval \in Nat /\ (m - a) * interval \in Nat
          /\ (m - a) * interval = m * interval - a * interval
      BY <1>0, Multiples
    <3>3. time_point = m * interval
      BY <1>1 DEF RingAt
    <3> QED
      BY <1>0, <3>1, <3>2, <3>3
  <2>5. L!times - 1 + 1 < 2 * L!times - slow
    BY <1>0, <1>2
  <2>6. data[OldSlot] <= UpTo(time_point - d) + 1
    BY <1>0, <2>2, <2>4, <2>5 DEF SpeedInv, CleanInv
  <2>7. ASSUME NEW from \in 0..now, now - from < duration PROVE data[OldSlot] <= Base(from) + 1
    <3>1. time_point - d \in 0..(now + 1) /\ from \in 0..(now + 1) /\ time_point - d <= from
      BY <1>2, <2>4, <2>7
    <3>2. UpTo(time_point - d) <= UpTo(from)
      BY <3>1, UpToGrows
    <3>3. UpTo(time_point - d) \in Nat /\ UpTo(from) \in Nat /\ data[OldSlot] \in Nat
      BY <1>2, <1>3, <2>2, <3>1
    <3>4. UpTo(from) <= Base(from) /\ Base(from) \in Nat
      BY <3>1, BaseRight DEF SpeedInv
    <3> QED
      BY <2>6, <3>2, <3>3, <3>4
  <2> QED
    BY <1>2, <2>2, <2>7
<1>5. CASE data[L!times - 1] = 0
  <2>1. OldSlot = 0 /\ data[OldSlot] = forgotten /\ forgotten \in Nat
    BY <1>5 DEF OldSlot, SpeedInv, FilledInv
  <2>2. \A from \in 0..now : forgotten <= Base(from) /\ Base(from) \in Nat
    <3>1. \A from \in 0..now : from \in 0..(now + 1)
      BY <1>2
    <3> QED
      BY <3>1, BaseRight DEF SpeedInv
  <2> QED
    BY <2>1, <2>2
<1> QED
  BY <1>4, <1>5

(* Nothing was sent yet.                                                   *)
LEMMA SpeedInit ==
    ASSUME L!LimitAssumption, L!Init
    PROVE  SpeedInv
<1>0. /\ limit \in Nat \ {0} /\ size \in Nat \ {0} /\ interval \in Nat \ {0}
      /\ L!times \in Nat /\ L!times >= 2 /\ duration = (L!times - 1) * interval
  BY RingLength
<1>1. /\ now = 0 /\ time_point = 0 /\ index = 0 /\ count = 0 /\ slow = 0 /\ result = FALSE
      /\ data = [i \in 0..(L!times - 1) |-> 0] /\ sent[0] = 0
  BY DEF L!Init
<1>2. duration > 0 /\ duration \in Nat
  <2>1. PICK k \in Nat \ {0}, i \in Nat \ {0} : k = L!times - 1 /\ i = interval
    BY <1>0
  <2>2. k * i > 0 /\ k * i \in Nat
    OBVIOUS
  <2> QED
    BY <1>0, <2>1, <2>2
<1>3. slow \in 0..(2 * L!times) /\ result \in BOOLEAN
  <2>1. PICK n \in Nat : n = L!times
    BY <1>0
  <2>2. 0 \in 0..(2 * n)
    OBVIOUS
  <2> QED
    BY <1>1, <2>1, <2>2
<1>4. \A s \in 0..(L!times - 1) : data[s] = 0
  BY <1>1
<1>4a. forgotten = 0
  BY DEF L!Init
<1>4b. limit * (duration + interval) \in Nat /\ duration + interval \in Nat
  BY <1>0, <1>2
<1>5. FilledInv /\ ForgottenInv
  <2>1. FilledInv
    BY <1>0, <1>1, <1>4, <1>4a DEF FilledInv
  <2>2. index # L!times - 1
    BY <1>0, <1>1
  <2>3. (0 - 1) * size <= limit * (duration + interval)
    BY <1>0, <1>4b
  <2> QED
    BY <1>4a, <2>1, <2>2, <2>3 DEF ForgottenInv
<1>6. CleanInv
  <2> SUFFICES ASSUME NEW s \in 0..(L!times - 1), Age(s) * interval <= time_point
               PROVE  data[s] <= UpTo(time_point - Age(s) * interval) + 1
    BY DEF CleanInv
  <2>1. PICK a \in Nat : a = Age(s)
    BY <1>0, <1>1 DEF Age
  <2>2. a * interval \in Nat
    BY <1>0
  <2>3. time_point - a * interval = 0
    BY <1>1, <2>1, <2>2
  <2>4. UpTo(time_point - a * interval) = 0
    BY <2>3 DEF UpTo
  <2> QED
    BY <1>4, <2>1, <2>4
<1>7. CheckedInv
  <2>1. ASSUME time_point + interval <= now + 1
        PROVE  count <= UpTo(time_point + interval) + (IF result THEN 0 ELSE 1)
    <3>1. time_point + interval = 1
      BY <1>0, <1>1, <2>1
    <3>2. UpTo(time_point + interval) = 0
      BY <1>1, <3>1 DEF UpTo
    <3> QED
      BY <1>1, <3>2
  <2> QED
    BY <1>1, <2>1 DEF CheckedInv
<1>8. StretchInv
  <2>1. \A from \in 0..now : Base(from) = 0
    BY <1>1, <1>4a DEF UpTo, Base
  <2>2. (0 - 0 - 2) * size <= limit * (duration + interval)
    <3>1. (0 - 0 - 2) * size <= 0 /\ (0 - 0 - 2) * size \in Int
      BY <1>0
    <3>2. limit * (duration + interval) \in Nat
      BY <1>0, <1>2
    <3> QED
      BY <3>1, <3>2
  <2> QED
    BY <1>1, <2>1, <2>2 DEF StretchInv, Allowed
<1> QED
  BY <1>3, <1>5, <1>6, <1>7, <1>8 DEF SpeedInv

(* The bounds of a check that finds nothing to complain about.             *)
LEMMA CheckBound ==
    ASSUME L!LimitAssumption, LimitInv, LimitInv', L!limit_speed_check
    PROVE  /\ UNCHANGED <<now, count, sent>> /\ result' \in BOOLEAN
           /\ time_point' \in 0..now
           /\ result' /\ now - time_point' + 1 <= interval
                => (count - data'[OldSlot']) * size <= limit * (duration + interval)
           /\ slow' = IF now - time_point' + 1 > interval THEN 2 * L!times
                      ELSE IF L!Due /\ slow > 0 THEN slow - 1 ELSE slow
<1>0. /\ limit \in Nat \ {0} /\ size \in Nat \ {0} /\ interval \in Nat \ {0}
      /\ L!times' = L!times /\ L!times \in Nat /\ L!times >= 2
      /\ duration = (L!times - 1) * interval /\ duration \in Nat
  <2>1. (L!times - 1) * interval \in Nat
    <3>1. PICK k \in Nat, i \in Nat : k = L!times - 1 /\ i = interval
      BY RingLength
    <3> QED
      BY <3>1
  <2> QED
    BY <2>1, RingLength DEF L!times
<1>1. /\ now \in Nat /\ count \in Nat /\ time_point \in 0..now
      /\ now' \in Nat /\ count' \in Nat /\ time_point' \in 0..now'
      /\ index' \in 0..(L!times - 1) /\ data' \in [0..(L!times - 1) -> Nat]
  BY <1>0 DEF LimitInv
<1>2. /\ UNCHANGED <<now, count, sent>> /\ result' = ~L!Fast
      /\ index' = L!Index /\ data' = L!Ring
      /\ slow' = IF L!Since > interval THEN 2 * L!times
                 ELSE IF L!Due /\ slow > 0 THEN slow - 1 ELSE slow
  BY DEF L!limit_speed_check
<1>3. L!Since = now - time_point' + 1
  <2>1. time_point' = IF L!Due THEN time_point + interval ELSE time_point
    BY DEF L!limit_speed_check
  <2> QED
    BY <1>0, <1>1, <2>1 DEF L!Since, L!Elapsed
<1>4. L!Oldest = OldSlot'
  BY <1>0, <1>2 DEF L!Oldest, L!Full, OldSlot
<1>5. OldSlot' \in 0..(L!times - 1)
  <2>1. PICK n \in Nat \ {0} : n = L!times
    BY <1>0, <1>1
  <2>1a. PICK i \in 0..(n - 1) : i = index'
    BY <1>1, <2>1
  <2>2. (i + 1) % n \in 0..(n - 1) /\ 0 \in 0..(n - 1)
    <3>1. (i + 1) % n = IF i = n - 1 THEN 0 ELSE i + 1
      BY <2>1, NextSlot
    <3>2. (IF i = n - 1 THEN 0 ELSE i + 1) \in 0..(n - 1)
      BY <2>1
    <3> QED
      BY <2>1, <3>1, <3>2
  <2> QED
    BY <1>0, <2>1, <2>1a, <2>2 DEF OldSlot
<1>6a. PICK r \in Nat : r = data'[OldSlot']
  BY <1>1, <1>5
<1>6b. PICK x \in Nat : x = now - time_point' + 1
  <2>1. now' = now
    BY <1>2
  <2>2. now \in Nat /\ time_point' \in 0..now'
    BY <1>1
  <2>3. now - time_point' + 1 \in Nat
    <3>1. PICK t \in 0..now : t = time_point'
      BY <2>1, <2>2
    <3>2. now - t + 1 \in Nat
      BY <2>2
    <3> QED
      BY <3>1, <3>2
  <2> QED
    BY <2>3, Zenon
<1>6c. \A y \in Int, z \in Nat : y * z \in Int /\ z * y \in Int
  OBVIOUS
<1>6d. count - r \in Int /\ size \in Nat /\ limit \in Nat /\ duration + interval \in Nat
  <2>1. count \in Nat
    BY <1>1
  <2> QED
    BY <1>0, <1>6a, <2>1
<1>7. L!Fast <=> (count - r) * size > limit * (L!Covered + x)
  BY <1>2, <1>3, <1>4, <1>6a, <1>6b DEF L!Fast
<1>8. L!Covered \in Nat /\ L!Covered <= duration
  <2>1. PICK n \in Nat, i \in Nat, d \in Nat \ {0} :
            n = L!times - 1 /\ i = index' /\ d = interval /\ i <= n
    BY <1>0, <1>1
  <2>2. n * d >= i * d
    BY <2>1, Stretch
  <2>3. i * d \in Nat /\ d * i = i * d
    OBVIOUS
  <2> QED
    BY <1>0, <1>2, <2>1, <2>2, <2>3 DEF L!Covered
<1>9. PICK c \in Nat : c = L!Covered /\ c <= duration
  BY <1>8
<1>10. ASSUME result', x <= interval PROVE (count - r) * size <= limit * (duration + interval)
  <2>1. (count - r) * size <= limit * (c + x)
    <3>1. (count - r) * size \in Int /\ limit * (c + x) \in Int
      BY <1>6c, <1>6d, <1>6b, <1>9
    <3>2. ~((count - r) * size > limit * (c + x))
      BY <1>2, <1>7, <1>9, <1>10, Zenon
    <3>3. \A y, z \in Int : ~(y > z) => y <= z
      OBVIOUS
    <3> QED
      BY <3>1, <3>2, <3>3
  <2>2. limit * (duration + interval) >= limit * (c + x)
    <3>1. PICK a \in Int, b \in Int, l \in Nat : a = duration + interval /\ b = c + x /\ l = limit
      BY <1>0, <1>6a, <1>6b, <1>9
    <3>2. a >= b
      BY <1>0, <1>6a, <1>6b, <1>9, <1>10, <3>1
    <3>3. a * l >= b * l /\ a * l = l * a /\ b * l = l * b
      BY <3>2, Stretch
    <3> QED
      BY <3>1, <3>3
  <2>3. /\ (count - r) * size \in Int /\ limit * (c + x) \in Int
        /\ limit * (duration + interval) \in Int
    BY <1>6c, <1>6d, <1>6b, <1>9
  <2> QED
    BY <2>1, <2>2, <2>3
<1>12. result' \in BOOLEAN
  BY <1>2 DEF L!Fast
<1>13. result' /\ now - time_point' + 1 <= interval
            => (count - data'[OldSlot']) * size <= limit * (duration + interval)
  BY <1>6a, <1>6b, <1>10
<1> QED
  BY <1>1, <1>2, <1>3, <1>12, <1>13

(* What is allowed is not negative, and so are fewer packages.             *)
LEMMA SpeedSizes ==
    ASSUME L!LimitAssumption
    PROVE  /\ limit \in Nat \ {0} /\ size \in Nat \ {0} /\ interval \in Nat \ {0}
           /\ duration \in Nat /\ duration > 0
           /\ limit * (duration + interval) \in Nat
<1>1. PICK k \in Nat \ {0}, i \in Nat \ {0} : k = L!times - 1 /\ i = interval
  BY RingLength
<1>2. k * i \in Nat /\ k * i > 0
  OBVIOUS
<1>3. /\ limit \in Nat \ {0} /\ size \in Nat \ {0} /\ interval \in Nat \ {0}
      /\ duration = k * i
  BY <1>1, RingLength
<1>4. duration \in Nat /\ duration > 0 /\ duration + interval \in Nat
  BY <1>2, <1>3
<1>5. \A a, b \in Nat : a * b \in Nat
  OBVIOUS
<1> QED
  BY <1>3, <1>4, <1>5

LEMMA FewerAllowed ==
    ASSUME L!LimitAssumption, NEW a \in Int, NEW b \in Int, a <= b,
           b * size <= limit * (duration + interval)
    PROVE  a * size <= limit * (duration + interval)
<1>1. PICK z \in Nat, l \in Nat : z = size /\ l = limit * (duration + interval)
  BY SpeedSizes
<1>2. b * z >= a * z /\ a * z \in Int /\ b * z \in Int
  BY Stretch
<1> QED
  BY <1>1, <1>2

LEMMA LittleAllowed ==
    ASSUME L!LimitAssumption, NEW a \in Int, a <= 0
    PROVE  a * size <= limit * (duration + interval)
<1>1. 0 * size <= limit * (duration + interval)
  BY SpeedSizes
<1> QED
  BY <1>1, FewerAllowed

(* What every step but a check that moves the ring has in common: the ring *)
(* and what it stands for are as they were.                                *)
LEMMA RingKept ==
    ASSUME L!LimitAssumption, LimitInv, LimitInv', SpeedInv,
           UNCHANGED <<time_point, index, data, slow, forgotten>>, count' >= count,
           \A x \in 0..time_point : UpTo(x)' = UpTo(x)
    PROVE  slow' \in 0..(2 * L!times) /\ FilledInv' /\ CleanInv'
<1>0. /\ L!times' = L!times /\ L!times \in Nat /\ L!times >= 2
      /\ interval \in Nat \ {0} /\ duration' = duration
  BY RingLength DEF L!times
<1>1. slow' \in 0..(2 * L!times) /\ FilledInv'
  <2>1. count \in Nat /\ count' \in Nat /\ data \in [0..(L!times - 1) -> Nat]
    BY DEF LimitInv
  <2> QED
    BY <1>0, <2>1 DEF SpeedInv, FilledInv
<1>2. time_point \in Nat /\ index \in 0..(L!times - 1)
  BY DEF LimitInv
<1>3. \A s \in 0..(L!times - 1) : Age(s)' = Age(s) /\ Age(s) \in Nat
  BY <1>0, <1>2 DEF Age
<1>4. CleanInv'
  <2>1. ASSUME NEW s \in 0..(L!times - 1), NEW a \in Nat, a = Age(s),
               a * interval <= time_point, a + 1 < 2 * L!times - slow
        PROVE  data[s] <= UpTo(time_point - a * interval)' + 1
    <3>1. PICK p \in Nat : p = a * interval
      BY <1>0
    <3>2. time_point - p \in 0..time_point
      BY <1>2, <2>1, <3>1
    <3>3. data[s] <= UpTo(time_point - p) + 1
      BY <2>1, <3>1 DEF SpeedInv, CleanInv
    <3>4. UpTo(time_point - p)' = UpTo(time_point - p)
      BY <3>2
    <3> QED
      BY <3>1, <3>3, <3>4
  <2>2. ASSUME NEW s \in 0..(L!times' - 1), Age(s)' * interval' <= time_point',
               Age(s)' + 1 < 2 * L!times' - slow'
        PROVE  data'[s] <= UpTo(time_point - Age(s) * interval)' + 1
    <3>1. PICK a \in Nat : a = Age(s)
      BY <1>0, <1>3
    <3>2. Age(s)' = a
      BY <1>0, <1>3, <3>1
    <3>3. data[s] <= UpTo(time_point - a * interval)' + 1
      BY <1>0, <2>1, <2>2, <3>1, <3>2
    <3> QED
      BY <3>2, <3>3
  <2> QED
    BY <2>2 DEF CleanInv
<1> QED
  BY <1>1, <1>4

(* A tick opens a stretch that nothing was sent in.                        *)
LEMMA SpeedTick ==
    ASSUME L!LimitAssumption, LimitInv, LimitInv', SpeedInv, L!Tick
    PROVE  SpeedInv'
<1>0. /\ L!times' = L!times /\ L!times \in Nat /\ interval \in Nat \ {0}
      /\ limit \in Nat \ {0} /\ size \in Nat \ {0}
      /\ duration' = duration /\ interval' = interval /\ limit' = limit /\ size' = size
      /\ duration \in Nat
  BY RingLength, SpeedSizes DEF L!times
<1>1. /\ now' = now + 1 /\ sent' = [t \in 0..now' |-> IF t = now' THEN count ELSE sent[t]]
      /\ UNCHANGED <<time_point, index, data, count, result, slow, forgotten>>
  BY DEF L!Tick
<1>2. /\ now \in Nat /\ count \in Nat /\ time_point \in 0..now
      /\ sent \in [0..now -> Nat] /\ sent[now] = count
  BY DEF LimitInv
<1>3. \A x \in 0..(now + 1) : UpTo(x)' = UpTo(x) /\ UpTo(x) \in Nat
  <2>1. \A t \in 0..now : sent'[t] = sent[t]
    BY <1>1, <1>2
  <2>2. \A x \in 0..(now + 1) : x = 0 \/ x - 1 \in 0..now
    BY <1>2
  <2>3. \A x \in 0..(now + 1) : UpTo(x)' = UpTo(x)
    BY <2>1, <2>2 DEF UpTo
  <2> QED
    BY <2>3, UpToGrows
<1>4. result' \in BOOLEAN /\ count' >= count /\ ForgottenInv'
  <2>1. result' \in BOOLEAN /\ count' >= count
    BY <1>1, <1>2 DEF SpeedInv
  <2>2. ForgottenInv'
    BY <1>0, <1>1 DEF SpeedInv, ForgottenInv
  <2> QED
    BY <2>1, <2>2
<1>5. \A x \in 0..time_point : UpTo(x)' = UpTo(x)
  BY <1>2, <1>3
<1>6. slow' \in 0..(2 * L!times) /\ FilledInv' /\ CleanInv'
  BY <1>1, <1>4, <1>5, RingKept
<1>7. CheckedInv'
  <2>0. PICK x \in Nat : x = time_point + interval
    BY <1>0, <1>2
  <2>1. ASSUME slow < 2 * L!times, x <= now + 2
        PROVE  count <= UpTo(x)' + (IF result THEN 0 ELSE 1)
    <3>1. CASE x = now + 2
      <4>1. PICK n \in Nat : n = now' /\ x = n + 1
        BY <1>1, <1>2, <3>1
      <4>2. n \in 0..now' /\ n + 1 # 0 /\ n + 1 - 1 = n /\ sent'[n] = count
        BY <1>1, <1>2, <4>1
      <4>3. UpTo(x)' = count
        BY <4>1, <4>2 DEF UpTo
      <4> QED
        BY <1>2, <4>3
    <3>2. CASE x <= now + 1
      <4>1. x \in 0..(now + 1)
        BY <1>2, <3>2
      <4>2. count <= UpTo(x) + (IF result THEN 0 ELSE 1)
        BY <2>0, <2>1, <3>2 DEF SpeedInv, CheckedInv
      <4>3. UpTo(x)' = UpTo(x)
        BY <1>3, <4>1
      <4> QED
        BY <4>2, <4>3
    <3> QED
      BY <1>2, <2>1, <3>1, <3>2
  <2>2. OldSlot' = OldSlot
    BY <1>0, <1>1 DEF OldSlot
  <2>3. slow < 2 * L!times /\ result
            => (count - data[OldSlot]) * size <= limit * (duration + interval)
    BY DEF SpeedInv, CheckedInv
  <2>4. now' + 1 = now + 2
    BY <1>1, <1>2
  <2>5. x = time_point' + interval'
    BY <1>0, <1>1, <2>0
  <2> QED
    BY <1>0, <1>1, <2>1, <2>2, <2>3, <2>4, <2>5 DEF CheckedInv
<1>8. StretchInv'
  <2>1. ASSUME NEW from \in 0..now', slow < L!times, now' - from < duration,
               from >= time_point - (L!times - 1 - slow) * interval
        PROVE  (count - Base(from)' - 2) * size <= limit * (duration + interval)
    <3>1. CASE from = now + 1
      <4>1. Base(from)' = count
        <5>1. UpTo(from)' = count
          BY <1>2, <1>3, <3>1, UpToGrows
        <5>2. forgotten' = forgotten /\ forgotten \in Nat /\ forgotten <= count
          BY <1>1 DEF SpeedInv, FilledInv
        <5> QED
          BY <1>2, <5>1, <5>2 DEF Base
      <4> QED
        BY <1>2, <4>1, LittleAllowed
    <3>2. CASE from # now + 1
      <4>1. from \in 0..now /\ now - from < duration
        BY <1>0, <1>1, <1>2, <2>1, <3>2
      <4>2. Allowed(from)
        BY <2>1, <4>1 DEF SpeedInv, StretchInv
      <4>3. Base(from)' = Base(from)
        BY <1>1, <1>2, <1>3, <4>1 DEF Base
      <4> QED
        BY <4>2, <4>3 DEF Allowed
    <3> QED
      BY <3>1, <3>2
  <2> QED
    BY <1>0, <1>1, <2>1 DEF StretchInv, Allowed
<1> QED
  BY <1>4, <1>6, <1>7, <1>8 DEF SpeedInv

(* What is sent was allowed by the check before it.                        *)
LEMMA SpeedAdd ==
    ASSUME L!LimitAssumption, LimitInv, LimitInv', SpeedInv, L!limit_speed_add
    PROVE  SpeedInv'
<1>0. /\ L!times' = L!times /\ L!times \in Nat /\ interval \in Nat \ {0}
      /\ limit \in Nat \ {0} /\ size \in Nat \ {0}
      /\ duration' = duration /\ interval' = interval /\ limit' = limit /\ size' = size
      /\ duration \in Nat
  BY RingLength, SpeedSizes DEF L!times
<1>1. /\ result /\ result' = FALSE /\ count' = count + 1 /\ sent' = [sent EXCEPT ![now] = count']
      /\ UNCHANGED <<now, time_point, index, data, slow, forgotten>>
  BY DEF L!limit_speed_add
<1>2. /\ now \in Nat /\ count \in Nat /\ time_point \in 0..now
      /\ sent \in [0..now -> Nat] /\ sent[now] = count
  BY DEF LimitInv
<1>3. \A x \in 0..now : UpTo(x)' = UpTo(x) /\ UpTo(x) \in Nat
  <2>1. \A x \in 0..now : x = 0 \/ (x - 1 \in 0..now /\ x - 1 # now)
    BY <1>2
  <2>2. \A t \in 0..now : t # now => sent'[t] = sent[t]
    BY <1>1, <1>2
  <2>3. \A x \in 0..now : UpTo(x)' = UpTo(x)
    BY <2>1, <2>2 DEF UpTo
  <2>4. \A x \in 0..now : x \in 0..(now + 1)
    BY <1>2
  <2> QED
    BY <2>3, <2>4, UpToGrows
<1>4. result' \in BOOLEAN /\ count' >= count /\ ForgottenInv'
  <2>1. result' \in BOOLEAN /\ count' >= count
    <3>1. result' \in BOOLEAN
      BY <1>1, Zenon
    <3>2. count' >= count
      BY <1>1, <1>2
    <3> QED
      BY <3>1, <3>2
  <2>2. PICK e : e = count' - 1
    OBVIOUS
  <2>3. e = count /\ ~result'
    BY <1>1, <1>2, <2>2
  <2>4. index = L!times - 1 /\ data[index] = 0 => e * size <= limit * (duration + interval)
    BY <1>1, <2>3 DEF SpeedInv, ForgottenInv
  <2>5. ForgottenInv'
    <3>1. (forgotten' - 1) * size' <= limit' * (duration' + interval')
      BY <1>0, <1>1 DEF SpeedInv, ForgottenInv
    <3>2. ASSUME index' = L!times' - 1, data'[index'] = 0
          PROVE  (count' - 1) * size' <= limit' * (duration' + interval')
      <4>1. e * size <= limit * (duration + interval)
        BY <1>0, <1>1, <2>4, <3>2
      <4> QED
        BY <1>0, <2>2, <4>1
    <3> QED
      BY <2>3, <3>1, <3>2 DEF ForgottenInv
  <2> QED
    BY <2>1, <2>5
<1>5. \A x \in 0..time_point : UpTo(x)' = UpTo(x)
  BY <1>2, <1>3
<1>6. slow' \in 0..(2 * L!times) /\ FilledInv' /\ CleanInv'
  BY <1>1, <1>4, <1>5, RingKept
<1>7. CheckedInv'
  <2>0. PICK x \in Nat : x = time_point + interval
    BY <1>0, <1>2
  <2>1. ASSUME slow < 2 * L!times, x <= now + 1
        PROVE  count + 1 <= UpTo(x)' + 1
    <3>1. CASE x = now + 1
      <4>1. x # 0 /\ x - 1 = now /\ sent'[now] = count + 1
        BY <1>1, <1>2, <3>1
      <4>2. UpTo(x)' = count + 1
        BY <4>1 DEF UpTo
      <4> QED
        BY <1>2, <4>2
    <3>2. CASE x <= now
      <4>1. x \in 0..now
        BY <1>2, <3>2
      <4>2. count <= UpTo(x) + 0
        <5>1. x <= now + 1
          BY <2>1
        <5> QED
          BY <1>1, <2>0, <2>1, <5>1 DEF SpeedInv, CheckedInv
      <4>3. UpTo(x)' = UpTo(x) /\ UpTo(x) \in Nat
        BY <1>3, <4>1
      <4> QED
        BY <1>2, <4>2, <4>3
    <3> QED
      BY <1>2, <2>1, <3>1, <3>2
  <2>2. x = time_point' + interval'
    BY <1>0, <1>1, <2>0
  <2>3. now' = now /\ count' = count + 1 /\ slow' = slow /\ ~result'
    BY <1>1
  <2> QED
    BY <1>0, <2>1, <2>2, <2>3 DEF CheckedInv
<1>8. StretchInv'
  <2>0. \A from \in 0..now : Base(from)' = Base(from) /\ Base(from) \in Nat
    <3>1. \A from \in 0..now : from \in 0..(now + 1)
      BY <1>2
    <3> QED
      BY <1>1, <1>3, <3>1, BaseRight DEF SpeedInv, Base
  <2>1. ASSUME NEW from \in 0..now, slow < L!times, now - from < duration
        PROVE  (count + 1 - Base(from) - 2) * size <= limit * (duration + interval)
    <3>1. slow < 2 * L!times
      BY <1>0, <2>1 DEF SpeedInv
    <3>2. (count - data[OldSlot]) * size <= limit * (duration + interval)
      BY <1>1, <3>1 DEF SpeedInv, CheckedInv
    <3>3. data[OldSlot] \in Nat /\ data[OldSlot] <= Base(from) + 1 /\ Base(from) \in Nat
      BY <2>0, <2>1, OldSlotRight
    <3> QED
      BY <1>2, <3>2, <3>3, FewerAllowed
  <2>2. \A from \in 0..now' :
            slow' < L!times' /\ now' - from < duration' => Allowed(from)'
    <3> SUFFICES ASSUME NEW from \in 0..now, slow < L!times, now - from < duration
                 PROVE  Allowed(from)'
      BY <1>0, <1>1
    <3>1. (count + 1 - Base(from) - 2) * size <= limit * (duration + interval)
      BY <2>1
    <3>2. PICK e \in Int : e = count + 1 - Base(from) - 2
      BY <1>2, <2>0
    <3>3. count' - Base(from)' - 2 = e
      BY <1>1, <1>2, <2>0, <3>2
    <3>4. e * size <= limit * (duration + interval)
      BY <3>1, <3>2
    <3>5. Allowed(from)' <=>
            (count' - Base(from)' - 2) * size' <= limit' * (duration' + interval')
      BY DEF Allowed
    <3> QED
      BY <1>0, <3>3, <3>4, <3>5, Zenon
  <2> QED
    BY <2>2 DEF StretchInv
<1> QED
  BY <1>4, <1>6, <1>7, <1>8 DEF SpeedInv

(* A check inside the interval finds what is in the ring.                  *)
LEMMA SpeedIdle ==
    ASSUME L!LimitAssumption, LimitInv, LimitInv', SpeedInv, L!limit_speed_check, ~L!Due
    PROVE  SpeedInv'
<1>0. /\ L!times' = L!times /\ L!times \in Nat /\ interval \in Nat \ {0}
      /\ duration' = duration /\ interval' = interval /\ limit' = limit /\ size' = size
      /\ duration \in Nat
  BY RingLength, SpeedSizes DEF L!times
<1>1. /\ UNCHANGED <<now, time_point, index, data, count, sent, forgotten>> /\ result' \in BOOLEAN
      /\ now - time_point + 1 <= interval
  <2>1. UNCHANGED <<now, time_point, index, data, count, sent, forgotten>>
    BY DEF L!limit_speed_check, L!Index, L!Ring
  <2>2. now \in Nat /\ time_point \in 0..now
    BY DEF LimitInv
  <2> QED
    BY <1>0, <2>1, <2>2, CheckBound DEF L!Due, L!Elapsed
<1>2. now \in Nat /\ count \in Nat /\ time_point \in 0..now
  BY DEF LimitInv
<1>3. \A x : UpTo(x)' = UpTo(x)
  BY <1>1 DEF UpTo
<1>4. slow' = slow /\ ~(now - time_point' + 1 > interval)
  <2>1. ~(now - time_point' + 1 > interval)
    BY <1>0, <1>1, <1>2
  <2> QED
    BY <2>1, CheckBound
<1>5. result' => (count - data[OldSlot']) * size <= limit * (duration + interval)
  <2>1. now - time_point' + 1 <= interval
    BY <1>1
  <2> QED
    BY <1>1, <2>1, CheckBound
<1>6. slow' \in 0..(2 * L!times) /\ FilledInv' /\ CleanInv' /\ ForgottenInv'
  <2>1. slow' \in 0..(2 * L!times) /\ FilledInv' /\ CleanInv'
    BY <1>1, <1>2, <1>3, <1>4, RingKept
  <2>2. ASSUME index = L!times - 1, data[index] = 0, result'
        PROVE  count * size <= limit * (duration + interval)
    <3>1. OldSlot' = 0
      BY <1>0, <1>1, <2>2 DEF OldSlot
    <3>2. data[0] = 0
      BY <2>2 DEF SpeedInv, FilledInv
    <3>3. (count - data[0]) * size <= limit * (duration + interval)
      BY <1>5, <2>2, <3>1
    <3>4. count - data[0] = count
      BY <1>2, <3>2
    <3> QED
      BY <3>3, <3>4
  <2>3. ForgottenInv'
    BY <1>0, <1>1, <2>2 DEF SpeedInv, ForgottenInv
  <2> QED
    BY <2>1, <2>3
<1>7. CheckedInv'
  <2>1. PICK x \in Nat : x = time_point + interval
    BY <1>0, <1>2
  <2>2. ASSUME x <= now + 1 PROVE count <= UpTo(x)' + (IF result' THEN 0 ELSE 1)
    <3>1. x = now + 1
      BY <1>0, <1>1, <1>2, <2>1, <2>2
    <3>2. UpTo(x)' = count
      BY <1>3, <3>1, UpToGrows
    <3> QED
      BY <1>2, <3>2
  <2> QED
    BY <1>0, <1>1, <1>5, <2>1, <2>2 DEF CheckedInv
<1>8. StretchInv'
  <2>1. \A from \in 0..now : Allowed(from)' <=> Allowed(from)
    BY <1>0, <1>1, <1>3 DEF Allowed, Base
  <2> QED
    BY <1>0, <1>1, <1>4, <2>1 DEF SpeedInv, StretchInv
<1> QED
  BY <1>1, <1>6, <1>7, <1>8 DEF SpeedInv

(* A ring that comes round with nothing in its last slot forgets what was  *)
(* sent in the last interval, and nothing was sent before.                 *)
LEMMA FilledDue ==
    ASSUME L!LimitAssumption, LimitInv, LimitInv', SpeedInv, L!limit_speed_check, L!Due
    PROVE  /\ forgotten' = forgotten \/ forgotten' = count
           /\ FilledInv' /\ ForgottenInv'
<1>0. /\ L!times' = L!times /\ L!times \in Nat /\ L!times >= 2
      /\ size' = size /\ limit' = limit /\ duration' = duration /\ interval' = interval
  BY RingLength DEF L!times
<1>1. /\ index' = IF index = L!times - 1 THEN 0 ELSE index + 1
      /\ data'[index'] = count /\ count' = count /\ count \in Nat
      /\ \A s \in 0..(L!times - 1) : s # index' => data'[s] = data[s]
      /\ index \in 0..(L!times - 1) /\ index' \in 0..(L!times - 1)
      /\ data' \in [0..(L!times - 1) -> Nat]
  BY RingMoves DEF LimitInv
<1>2. /\ forgotten \in Nat /\ forgotten <= count
      /\ \A s \in 0..(L!times - 1) : data[s] <= count
      /\ data[L!times - 1] = 0 => data[0] = forgotten
  BY DEF SpeedInv, FilledInv
<1>3. 0 \in 0..(L!times - 1) /\ L!times - 1 \in 0..(L!times - 1) /\ L!times - 1 # 0
  BY <1>0
<1>4. forgotten' = IF index = L!times - 1 /\ data[L!times - 1] = 0 THEN count ELSE forgotten
  <2>1. forgotten' = IF index' = 0 /\ data'[L!times - 1] = 0 THEN count ELSE forgotten
    BY DEF L!limit_speed_check, L!Full
  <2>2. index' = 0 <=> index = L!times - 1
    BY <1>0, <1>1
  <2>3. index' = 0 => data'[L!times - 1] = data[L!times - 1]
    BY <1>1, <1>3
  <2> QED
    BY <2>1, <2>2, <2>3
<1>5. forgotten' \in Nat /\ forgotten' <= count'
  BY <1>1, <1>2, <1>4
<1>6. \A s \in 0..(L!times - 1) : data'[s] <= count'
  BY <1>1, <1>2
<1>7. ASSUME data'[L!times - 1] = 0 PROVE data'[0] = forgotten'
  <2>1. CASE index' = 0
    <3>1. index = L!times - 1 /\ data[L!times - 1] = 0
      BY <1>0, <1>1, <1>3, <1>7, <2>1
    <3> QED
      BY <1>1, <1>4, <2>1, <3>1
  <2>2. CASE index' = L!times - 1
    <3>1. count = 0
      BY <1>1, <1>7, <2>2
    <3>2. data'[0] \in Nat /\ data'[0] <= count'
      BY <1>1, <1>3, <1>6
    <3> QED
      BY <1>1, <1>5, <3>1, <3>2
  <2>3. CASE index' # 0 /\ index' # L!times - 1
    <3>1. index # L!times - 1
      BY <1>1, <2>3
    <3>2. data'[0] = data[0] /\ data'[L!times - 1] = data[L!times - 1]
      BY <1>1, <1>3, <2>3
    <3> QED
      BY <1>2, <1>4, <1>7, <3>1, <3>2
  <2> QED
    BY <2>1, <2>2, <2>3
<1>8. ASSUME index' = L!times - 1, data'[index'] = 0 PROVE count = 0 /\ forgotten' = 0
  BY <1>1, <1>5, <1>8
<1>9. (forgotten' - 1) * size <= limit * (duration + interval)
  <2>1. CASE index = L!times - 1 /\ data[L!times - 1] = 0
    BY <1>4, <2>1 DEF SpeedInv, ForgottenInv
  <2>2. CASE ~(index = L!times - 1 /\ data[L!times - 1] = 0)
    BY <1>4, <2>2 DEF SpeedInv, ForgottenInv
  <2> QED
    BY <2>1, <2>2
<1>10. ASSUME index' = L!times - 1, data'[index'] = 0
       PROVE  /\ (count' - 1) * size <= limit * (duration + interval)
              /\ count' * size <= limit * (duration + interval)
  <2>1. count' = 0 /\ count' \in Int /\ count' - 1 \in Int /\ count' <= 0 /\ count' - 1 <= 0
    BY <1>1, <1>8, <1>10
  <2> QED
    BY <2>1, LittleAllowed
<1>11. FilledInv'
  BY <1>0, <1>5, <1>6, <1>7, <1>8 DEF FilledInv
<1>12. ForgottenInv'
  BY <1>0, <1>9, <1>10 DEF ForgottenInv
<1> QED
  BY <1>4, <1>11, <1>12

(* The slot that is filled is as exact as the check is in time.            *)
LEMMA CleanDue ==
    ASSUME L!LimitAssumption, LimitInv, LimitInv', SpeedInv, L!limit_speed_check, L!Due
    PROVE  CleanInv'
<1>0. /\ L!times' = L!times /\ interval \in Nat \ {0} /\ interval' = interval
  BY RingLength DEF L!times
<1>1. PICK n \in Nat : n = L!times /\ n >= 2
  BY RingLength
<1>2. /\ now \in Nat /\ count \in Nat /\ time_point \in 0..now
  BY DEF LimitInv
<1>3. /\ time_point' = time_point + interval /\ UNCHANGED <<now, count, sent>>
      /\ time_point' \in 0..now /\ index' \in 0..(n - 1)
      /\ data' \in [0..(n - 1) -> Nat] /\ data'[index'] = count
      /\ \A s \in 0..(n - 1) : s # index' => data'[s] = data[s]
      /\ \A s \in 0..(n - 1) : /\ s # index' => Age(s)' = Age(s) + 1
                               /\ s = index' => Age(s)' = 0
                               /\ Age(s) \in Nat
  BY <1>1, RingMoves
<1>4. PICK x \in Nat : x = time_point /\ time_point' = x + interval
  BY <1>2, <1>3
<1>5. PICK w \in Nat : w = slow /\ w <= 2 * n
  BY <1>1 DEF SpeedInv
<1>6. slow' = 2 * n \/ (w > 0 /\ slow' = w - 1) \/ (w = 0 /\ slow' = w)
  BY <1>1, <1>5, CheckBound
<1>7. \A y : UpTo(y)' = UpTo(y)
  BY <1>3 DEF UpTo
<1>8. ASSUME NEW s \in 0..(n - 1), NEW b \in Nat, b = Age(s)',
             b * interval <= x + interval, b + 1 < 2 * n - slow'
      PROVE  data'[s] <= UpTo(x + interval - b * interval) + 1
  <2>1. (w > 0 /\ slow' = w - 1) \/ (w = 0 /\ slow' = w)
    BY <1>1, <1>6, <1>8
  <2>2. CASE s = index'
    <3>1. b = 0 /\ w < 2 * n
      BY <1>1, <1>3, <1>5, <1>8, <2>1, <2>2
    <3>2. x + interval <= now + 1
      BY <1>2, <1>3, <1>4, CheckBound
    <3>3. count <= UpTo(x + interval) + 1
      <4>1. count <= UpTo(x + interval) + (IF result THEN 0 ELSE 1)
        BY <1>1, <1>4, <1>5, <3>1, <3>2 DEF SpeedInv, CheckedInv
      <4>2. UpTo(x + interval) \in Nat
        BY <1>0, <3>2, UpToGrows
      <4> QED
        BY <1>2, <4>1, <4>2
    <3>4. x + interval - b * interval = x + interval
      BY <1>0, <3>1
    <3> QED
      BY <1>3, <2>2, <3>3, <3>4
  <2>3. CASE s # index'
    <3>1. PICK a \in Nat : a = Age(s) /\ b = a + 1
      BY <1>3, <1>8, <2>3
    <3>2. PICK p \in Nat : p = a * interval
      BY <1>0
    <3>3. b * interval = p + interval
      BY <1>0, <3>1, <3>2
    <3>4. p <= x /\ x + interval - b * interval = x - p
      BY <1>0, <1>8, <3>3
    <3>5. a + 1 < 2 * n - w
      BY <1>1, <1>5, <1>8, <2>1, <3>1
    <3>6. data[s] <= UpTo(x - p) + 1
      BY <1>1, <1>4, <1>5, <3>1, <3>2, <3>4, <3>5 DEF SpeedInv, CleanInv
    <3> QED
      BY <1>3, <2>3, <3>4, <3>6
  <2> QED
    BY <2>2, <2>3
<1>9. ASSUME NEW s \in 0..(n - 1), Age(s)' * interval <= x + interval, Age(s)' + 1 < 2 * n - slow'
      PROVE  (data[s] <= UpTo(time_point - Age(s) * interval) + 1)'
  <2>1. PICK b \in Nat : b = Age(s)'
    <3>1. \A a \in Nat : a + 1 \in Nat
      OBVIOUS
    <3> QED
      BY <1>3, <3>1
  <2>2. PICK g : g = x + interval - b * interval
    OBVIOUS
  <2>3. data'[s] <= UpTo(g) + 1
    BY <1>8, <1>9, <2>1, <2>2
  <2>4. UpTo(g)' = UpTo(g)
    BY <1>7
  <2>5. g = (time_point - Age(s) * interval)'
    BY <1>0, <1>4, <2>1, <2>2
  <2> QED
    BY <2>3, <2>4, <2>5
<1>10. (2 * L!times)' = 2 * n /\ (L!times - 1)' = n - 1
  BY <1>0, <1>1
<1> QED
  BY <1>0, <1>4, <1>9, <1>10 DEF CleanInv

(* A check that is in time knows all that was sent before it.              *)
LEMMA CheckedDue ==
    ASSUME L!LimitAssumption, LimitInv, LimitInv', SpeedInv, L!limit_speed_check
    PROVE  CheckedInv'
<1>0. /\ interval \in Nat \ {0} /\ interval' = interval /\ L!times' = L!times /\ L!times \in Nat
      /\ limit' = limit /\ size' = size /\ duration' = duration
  BY RingLength DEF L!times
<1>1. now \in Nat /\ count \in Nat /\ time_point' \in 0..now /\ UNCHANGED <<now, count, sent>>
  BY CheckBound DEF LimitInv
<1>1a. PICK t \in 0..now : t = time_point'
  BY <1>1
<1>2. PICK x \in Nat : x = t + interval
  BY <1>0, <1>1
<1>3. ASSUME slow' < 2 * L!times PROVE now + 1 <= x
  <2>1. ~(now - t + 1 > interval)
    BY <1>0, <1>1a, <1>3, CheckBound
  <2>2. now \in Nat
    BY <1>1
  <2> QED
    BY <1>0, <1>2, <2>1, <2>2
<1>4. ASSUME slow' < 2 * L!times, x <= now + 1
      PROVE  count <= UpTo(x)' + (IF result' THEN 0 ELSE 1)
  <2>1. x = now + 1
    BY <1>1, <1>2, <1>3, <1>4
  <2>2. UpTo(x)' = count
    BY <1>1, <2>1, UpToGrows DEF UpTo
  <2> QED
    BY <1>1, <2>2
<1>5. ASSUME slow' < 2 * L!times, result'
      PROVE  (count - data'[OldSlot']) * size <= limit * (duration + interval)
  <2>1. now \in Nat /\ now + 1 <= x
    BY <1>1, <1>3, <1>5
  <2>2. now - t + 1 <= interval
    BY <1>0, <1>2, <2>1
  <2> QED
    BY <1>1a, <1>5, <2>2, CheckBound
<1> QED
  BY <1>0, <1>1, <1>1a, <1>2, <1>4, <1>5 DEF CheckedInv

(* A check that moves the ring leaves no new stretch but those that began  *)
(* with the interval.                                                      *)
LEMMA StretchDue ==
    ASSUME L!LimitAssumption, LimitInv, LimitInv', SpeedInv, L!limit_speed_check, L!Due
    PROVE  StretchInv'
<1>0. /\ interval \in Nat \ {0} /\ interval' = interval /\ duration' = duration
      /\ L!times' = L!times /\ limit' = limit /\ size' = size
  BY RingLength DEF L!times
<1>1. /\ now \in Nat /\ count \in Nat /\ time_point \in 0..now
      /\ UNCHANGED <<now, count, sent>> /\ time_point' \in 0..now
  BY CheckBound DEF LimitInv
<1>2. PICK n \in Nat : n = L!times /\ n >= 2
  BY RingLength
<1>3. PICK w \in Nat : w = slow
  BY <1>2 DEF SpeedInv
<1>4. PICK x \in Nat : x = time_point /\ time_point' = x + interval
  BY <1>1, RingMoves
<1>5. ASSUME NEW from \in 0..now, now - from < duration, slow' < n,
             NEW e \in Int, e = (n - 1 - slow') * interval, from >= x + interval - e
      PROVE  Allowed(from)
  <2>1. (w > 0 /\ slow' = w - 1) \/ (w = 0 /\ slow' = w)
    <3>1. slow' # 2 * n
      BY <1>2, <1>5
    <3> QED
      BY <1>2, <1>3, <3>1, CheckBound
  <2>2. w <= n
    BY <1>2, <1>5, <2>1
  <2>3. CASE w = n
    <3>1. n - 1 - slow' = 0 /\ w < 2 * n
      BY <1>2, <2>1, <2>3
    <3>2. x + interval \in 0..(now + 1) /\ from \in 0..(now + 1) /\ x + interval <= from
      BY <1>0, <1>1, <1>4, <1>5, <3>1
    <3>3. /\ UpTo(x + interval) <= UpTo(from)
          /\ UpTo(x + interval) \in Nat /\ UpTo(from) \in Nat
      BY <3>2, UpToGrows
    <3>4. count <= UpTo(x + interval) + (IF result THEN 0 ELSE 1)
      <4>1. x + interval <= now + 1
        BY <3>2
      <4> QED
        BY <1>1, <1>2, <1>3, <1>4, <3>1, <4>1 DEF SpeedInv, CheckedInv
    <3>5. Base(from) \in Nat /\ UpTo(from) <= Base(from)
      BY <3>2, BaseRight DEF SpeedInv
    <3>6. count - Base(from) - 2 \in Int /\ count - Base(from) - 2 <= 0
      BY <1>1, <3>3, <3>4, <3>5
    <3> QED
      BY <3>6, LittleAllowed DEF Allowed
  <2>4. CASE w < n
    <3>1. from >= x - (n - 1 - w) * interval
      <4>1. PICK k \in Nat : k = n - 1 - w
        BY <1>2, <2>4
      <4>2. PICK p \in Nat : p = k * interval
        BY <1>0
      <4>3. CASE w > 0
        <5>1. n - 1 - slow' = k + 1 /\ (k + 1) * interval = p + interval
          BY <1>0, <1>2, <2>1, <4>1, <4>2, <4>3
        <5>2. from >= x + interval - (p + interval)
          BY <1>5, <5>1
        <5>3. from >= x - p
          BY <1>0, <1>1, <5>2
        <5> QED
          BY <4>1, <4>2, <5>3
      <4>4. CASE w = 0
        <5>1. n - 1 - slow' = k
          BY <2>1, <4>1, <4>4
        <5>2. from >= x + interval - p
          BY <1>5, <4>2, <5>1
        <5>3. from >= x - p
          BY <1>0, <1>1, <5>2
        <5> QED
          BY <4>1, <4>2, <5>3
      <4> QED
        BY <4>3, <4>4
    <3> QED
      BY <1>2, <1>3, <1>4, <1>5, <2>4, <3>1 DEF SpeedInv, StretchInv
  <2> QED
    BY <1>2, <2>2, <2>3, <2>4
<1>6. ASSUME NEW from \in 0..now, Allowed(from) PROVE Allowed(from)'
  <2>1. UpTo(from)' = UpTo(from) /\ UpTo(from) \in Nat /\ UpTo(from) <= count
    <3>1. from \in 0..(now + 1)
      BY <1>1
    <3> QED
      BY <1>1, <3>1, UpToGrows DEF UpTo
  <2>2. CASE forgotten' = forgotten
    BY <1>0, <1>1, <1>6, <2>1, <2>2 DEF Allowed, Base
  <2>3. CASE forgotten' = count
    <3>1. Base(from)' = count
      BY <1>1, <2>1, <2>3 DEF Base
    <3>2. count - count - 2 \in Int /\ count - count - 2 <= 0
      BY <1>1
    <3>3. (count - count - 2) * size <= limit * (duration + interval)
      BY <3>2, LittleAllowed
    <3> QED
      BY <1>0, <1>1, <3>1, <3>3 DEF Allowed
  <2> QED
    BY <2>2, <2>3, FilledDue
<1>7. slow' < L!times' <=> slow' < n
  BY <1>0, <1>2
<1>8. ASSUME slow' < n, NEW from \in 0..now', now' - from < duration',
             from >= (time_point - (L!times - 1 - slow) * interval)'
      PROVE  Allowed(from)'
  <2>1. PICK v \in Int : v = slow'
    <3>1. slow' = 2 * n \/ slow' = w - 1 \/ slow' = w
      BY <1>2, <1>3, CheckBound
    <3> QED
      BY <3>1
  <2>2. from \in 0..now /\ now - from < duration
    BY <1>0, <1>1, <1>8
  <2>3. PICK e \in Int : e = (n - 1 - v) * interval
    BY <1>0
  <2>4. from >= x + interval - e
    <3>1. from >= time_point' - (L!times' - 1 - slow') * interval'
      BY <1>8
    <3>2. L!times' - 1 - slow' = n - 1 - v
      BY <1>0, <1>2, <2>1
    <3>3. time_point' = x + interval /\ from \in Int
      BY <1>0, <1>1, <1>4, <2>2
    <3>4. from >= time_point' - e
      BY <1>0, <2>3, <3>1, <3>2
    <3> QED
      BY <1>0, <2>3, <3>3, <3>4
  <2>5. e = (n - 1 - slow') * interval
    BY <2>1, <2>3, Zenon
  <2>6. Allowed(from)
    BY <1>5, <1>8, <2>2, <2>4, <2>5, Zenon
  <2> QED
    BY <1>6, <2>2, <2>6
<1> QED
  BY <1>7, <1>8 DEF StretchInv

(* Every step keeps the bounds on the speed.                               *)
LEMMA SpeedStep ==
    ASSUME L!LimitAssumption, LimitInv, LimitInv', SpeedInv, [L!Next]_(L!vars)
    PROVE  SpeedInv'
<1>1. CASE L!Tick
  BY <1>1, SpeedTick
<1>2. CASE L!limit_speed_add
  BY <1>2, SpeedAdd
<1>3. CASE L!limit_speed_check /\ ~L!Due
  BY <1>3, SpeedIdle
<1>4. CASE L!limit_speed_check /\ L!Due
  <2>1. result' \in BOOLEAN
    BY <1>4, CheckBound
  <2>2. slow' \in 0..(2 * L!times)'
    <3>1. PICK n \in Nat : n = L!times /\ L!times' = n
      BY RingLength DEF L!times
    <3>2. PICK w \in 0..(2 * n) : w = slow
      BY <3>1 DEF SpeedInv
    <3>3. slow' = 2 * n \/ (w > 0 /\ slow' = w - 1) \/ slow' = w
      BY <1>4, <3>1, <3>2, CheckBound
    <3>4. slow' \in 0..(2 * n)
      BY <3>3
    <3> QED
      BY <3>1, <3>4
  <2>3. FilledInv' /\ ForgottenInv' /\ CleanInv' /\ CheckedInv' /\ StretchInv'
    BY <1>4, FilledDue, CleanDue, CheckedDue, StretchDue
  <2> QED
    BY <2>1, <2>2, <2>3 DEF SpeedInv
<1>5. CASE UNCHANGED L!vars
  <2>1. /\ UNCHANGED <<now, time_point, index, data, count, result, sent, slow, forgotten>>
        /\ L!times' = L!times
    BY <1>5 DEF L!vars, L!times
  <2>2. \A x : UpTo(x)' = UpTo(x) /\ Age(x)' = Age(x) /\ (Allowed(x)' <=> Allowed(x))
    BY <2>1 DEF UpTo, Age, Allowed, Base
  <2>3. OldSlot' = OldSlot
    BY <2>1 DEF OldSlot
  <2> QED
    BY <2>1, <2>2, <2>3
       DEF SpeedInv, FilledInv, ForgottenInv, CleanInv, CheckedInv, StretchInv
<1> QED
  BY <1>1, <1>2, <1>3, <1>4, <1>5 DEF L!Next

(* While checks come often enough, no stretch as long as the ring gets more*)
(* than the limit allows for it and an interval more, besides two packages *)
(* and those that the ring forgot; and it forgets once, before it was ever *)
(* filled, and no more than that again.                                    *)
THEOREM LimitKept == ASSUME L!LimitAssumption PROVE L!Spec => []L!SpeedKept
<1>1. L!Init => SpeedInv
  BY SpeedInit
<1>2. LimitInv /\ LimitInv' /\ SpeedInv /\ [L!Next]_(L!vars) => SpeedInv'
  BY SpeedStep
<1>3. LimitInv /\ SpeedInv => L!SpeedKept
  <2> SUFFICES ASSUME LimitInv, SpeedInv PROVE L!SpeedKept
    OBVIOUS
  <2>1. ASSUME slow = 0, NEW from \in 0..now, now - from < duration
        PROVE  (L!Known(from) - 2) * size <= limit * (duration + interval)
    <3>1. L!Known(from) = count - Base(from)
      <4>1. L!Sent(from) = count - UpTo(from)
        BY DEF L!Sent, UpTo
      <4>2. now \in Nat /\ from \in 0..(now + 1)
        BY DEF LimitInv
      <4>3. UpTo(from) \in Nat /\ count \in Nat /\ forgotten \in Nat
        BY <4>2, UpToGrows DEF SpeedInv, FilledInv
      <4> QED
        BY <4>1, <4>3 DEF L!Known, Base
    <3>2. /\ duration = (L!times - 1) * interval /\ L!times \in Nat /\ L!times >= 2
          /\ duration \in Nat
      BY RingLength, SpeedSizes
    <3>3. L!times - 1 - slow = L!times - 1 /\ slow < L!times
      BY <2>1, <3>2
    <3>4. now \in Nat /\ time_point \in 0..now
      BY DEF LimitInv
    <3>5. from >= time_point - (L!times - 1 - slow) * interval
      BY <2>1, <3>2, <3>3, <3>4
    <3>6. Allowed(from)
      BY <2>1, <3>3, <3>5 DEF SpeedInv, StretchInv
    <3> QED
      BY <3>1, <3>6 DEF Allowed
  <2>2. (forgotten - 1) * size <= limit * (duration + interval)
    BY DEF SpeedInv, ForgottenInv
  <2> QED
    BY <2>1, <2>2 DEF L!SpeedKept
<1> QED
  BY <1>1, <1>2, <1>3, LimitInvariance, PTL DEF L!Spec
=============================================================================
