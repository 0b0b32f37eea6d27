------------------------------- MODULE Values -------------------------------
(***************************************************************************)
(* Field values and how the query engine (internal/domain/query) compares  *)
(* them.                                                                   *)
(*                                                                         *)
(* A value is [kind, v]; a list's v is a sequence of strings.  Only the    *)
(* order of a kind's values matters, so v is a number, but for owner keys; *)
(* equal numbers are equal as int and as float.                            *)
(***************************************************************************)
EXTENDS Integers, SequencesExt

Value(k, x) == [kind |-> k, v |-> x]
Nil == Value("nil", 0)

\* What aggregations that cannot be computed come to.
Failed == [error |-> TRUE]

valueOf(x, field) == IF field \in DOMAIN x THEN x[field] ELSE Nil

\* A field's elements, in order; a scalar is its own.
elements(fieldVal) ==
    IF fieldVal.kind = "list" THEN [i \in DOMAIN fieldVal.v |-> Value("string", fieldVal.v[i])] ELSE <<fieldVal>>

\* A value of a filter compares with fields of its kind; a float with ints too.
comparable(fieldVal, v) ==
    \/ fieldVal.kind = v.kind /\ v.kind \in {"string", "int", "float", "bool", "time"}
    \/ fieldVal.kind = "int" /\ v.kind = "float"

verdict(holds) == IF holds THEN "yes" ELSE "no"

\* test says whether they compare that way; it is not looked at otherwise.
compareFieldValue(fieldVal, v, test) ==
    IF comparable(fieldVal, v) THEN verdict(test) ELSE "error"

\* For a sort, missing fields, lists and values of different kinds count as equal.
compareAny(a, b) == IF a.kind # b.kind \/ a.kind = "list" THEN 0 ELSE a.v - b.v
=============================================================================
