----------------------------- MODULE IndexedList ------------------------------
(***************************************************************************)
(* What the list of dict.c promises: a sequence addressed by indexes from  *)
(* 0, where a negative index counts from the end, as the tests of dict.c   *)
(* use it.  Every call takes effect in one step; `ret' is what the last    *)
(* call was and which element it got, changed, inserted or removed.        *)
(***************************************************************************)
EXTENDS Integers, Sequences

CONSTANTS Node, NULL, Num

VARIABLES items, ret

vars == <<items, ret>>

Size == Len(items)

Position(num) == \* NULL when num is out of range
    IF num \in 0..(Size - 1) THEN num + 1
    ELSE IF num < 0 /\ num >= -Size THEN num + Size + 1 ELSE 0

At(num) == IF Position(num) = 0 THEN NULL ELSE items[Position(num)]

Clamped(num, last) == \* where push and pop put an index out of range
    IF num > Size - 1 THEN last ELSE IF num < -Size THEN 1 ELSE Position(num)

Returns(op, num, n) == ret' = [op |-> op, num |-> num, node |-> n]

Init == items = <<>> /\ ret = [op |-> "new", num |-> 0, node |-> NULL]

Push(num, n) ==
    LET k == Clamped(num, Size + 1) IN
    /\ \A i \in 1..Size : items[i] # n
    /\ items' = SubSeq(items, 1, k - 1) \o <<n>> \o SubSeq(items, k, Size)
    /\ Returns("push", num, n)

Removed(k) == SubSeq(items, 1, k - 1) \o SubSeq(items, k + 1, Size)

Pop(num) ==
    IF items = <<>> THEN UNCHANGED items /\ Returns("pop", num, NULL)
    ELSE LET k == Clamped(num, Size) IN
         /\ items' = Removed(k)
         /\ Returns("pop", num, items[k])

Del(num) ==
    /\ items' = IF Position(num) = 0 THEN items ELSE Removed(Position(num))
    /\ Returns("del", num, At(num))

Access(op, num) == UNCHANGED items /\ Returns(op, num, At(num))

Next ==
    \E num \in Num :
        \/ \E n \in Node : Push(num, n)
        \/ Pop(num) \/ Del(num) \/ Access("get", num) \/ Access("set", num)

Spec == Init /\ [][Next]_vars
=============================================================================
