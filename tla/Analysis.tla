------------------------------ MODULE Analysis --------------------------------
(***************************************************************************)
(* The packing of fields into packages (analysis.c).  One thread fills one *)
(* package after the other, starts each with the prefix it has set, and    *)
(* puts it into its queue when the next field does not fit.  A field is an *)
(* integer or a string; its header and an integer are one unit long.       *)
(***************************************************************************)
EXTENDS Integers, Sequences

CONSTANTS PACKAGE_SIZE, NULL

AnalysisAssumption == PACKAGE_SIZE \in Nat \ {0}

IntField(value) == [type |-> "int", value |-> value, len |-> 0]
StrField(value, len) == [type |-> "str", value |-> value, len |-> len]

(* sizeof(d), and len of a string.                                         *)
Size(field) == 1 + field.len

(* ANALYSIS_INIT: the thread-local a for packages of this type.            *)
analysis_init(type) ==
    [type |-> type, p |-> NULL, id |-> 0, offset_len |-> 0, remain_len |-> PACKAGE_SIZE,
     prefix |-> <<>>, prefix_len |-> 0]

(* A string longer than a whole package is left out: FALSE.                *)
Refused(a, field) == field.type = "str" /\ Size(field) > PACKAGE_SIZE - a.prefix_len

(* The package goes into the queue before this field: ANALYSIS_NEW was set,*)
(* by the caller or for lack of room, and it holds more than the prefix.   *)
Full(a, field, sign) ==
    (sign = "new" \/ Size(field) > a.remain_len) /\ a.offset_len # a.prefix_len

(* Mutant: the room that the prefix takes is forgotten.                    *)
package_new_Roomy(a) ==
    [a EXCEPT !.p = [type |-> a.type, id |-> a.id, fields |-> a.prefix, state |-> "normal"],
              !.id = @ + 1, !.offset_len = a.prefix_len, !.remain_len = PACKAGE_SIZE]

package_new(a) ==
    [a EXCEPT !.p = [type |-> a.type, id |-> a.id, fields |-> a.prefix, state |-> "normal"],
              !.id = @ + 1,
              !.offset_len = a.prefix_len, !.remain_len = PACKAGE_SIZE - a.prefix_len]

Current(a, new) == IF new \/ a.p = NULL THEN package_new(a) ELSE a

Filled(a, field) ==
    [a EXCEPT !.p.fields = Append(@, field),
              !.offset_len = @ + Size(field), !.remain_len = @ - Size(field)]

(* ANALYSIS_PREFIX counts the first time only.                             *)
Prefixed(a) ==
    IF a.prefix_len # 0 THEN a
    ELSE [a EXCEPT !.prefix = a.p.fields, !.prefix_len = PACKAGE_SIZE - a.remain_len]

(* a after the call; what it puts is a.p of before if Full.                *)
analysis_pack(a, field, sign) ==
    LET b == Filled(Current(a, Full(a, field, sign)), field)
    IN  IF Refused(a, field) THEN a ELSE IF sign = "prefix" THEN Prefixed(b) ELSE b

(* ANALYSIS_FINISH, ANALYSIS_CANCEL: the last package, then a is empty.    *)
analysis_last(a, state) == [Current(a, FALSE).p EXCEPT !.state = state]

analysis_end(a) == [Current(a, FALSE) EXCEPT !.p = NULL, !.prefix = <<>>, !.prefix_len = 0]

(* analysis_unpack of a whole package as a sequence of fields of the types *)
(* asked for: the call that finds another type or the end returns FALSE.   *)
Types(fields) == [i \in DOMAIN fields |-> fields[i].type]

Unpacked(p, types) ==
    IF Len(p.fields) >= Len(types) /\ SubSeq(Types(p.fields), 1, Len(types)) = types
    THEN p.fields ELSE <<>>
=============================================================================
