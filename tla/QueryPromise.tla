---------------------------- MODULE QueryPromise ----------------------------
(***************************************************************************)
(* What a query over the bus promises its caller, whatever happens to the  *)
(* domain and the connections meanwhile: one error and no rows, or exactly *)
(* the rows one state of the store held between request and answer.  The   *)
(* one exception is a reply that the network lost: then rows may be        *)
(* missing from an answer that looks complete.                             *)
(***************************************************************************)
CONSTANTS Query,    \* calls of the query client
          Row       \* rows a query may match

VARIABLES data,     \* rows the store holds
          outcome,  \* query -> "none", "asked", "answer" or "error"
          answer,   \* query -> the rows its caller was given
          snap,     \* query -> {}, or {the rows the store held when it was served}
          lost      \* queries with a lost reply

vars == <<data, outcome, answer, snap, lost>>

Init ==
    /\ data \in SUBSET Row
    /\ outcome = [q \in Query |-> "none"] /\ answer = [q \in Query |-> {}]
    /\ snap = [q \in Query |-> {}] /\ lost = {}

Write ==
    /\ data' \in SUBSET Row
    /\ UNCHANGED <<outcome, answer, snap, lost>>

Ask(q) ==
    /\ outcome[q] = "none"
    /\ outcome' = [outcome EXCEPT ![q] = "asked"]
    /\ UNCHANGED <<data, answer, snap, lost>>

Serve(q) ==
    /\ outcome[q] # "none" /\ snap[q] = {}
    /\ snap' = [snap EXCEPT ![q] = {data}]
    /\ UNCHANGED <<data, outcome, answer, lost>>

Lose(q) ==
    /\ lost' = lost \cup {q}
    /\ UNCHANGED <<data, outcome, answer, snap>>

Succeed(q) ==
    /\ outcome[q] = "asked"
    /\ outcome' = [outcome EXCEPT ![q] = "answer"]
    /\ \E held \in snap[q] : \E rows \in IF q \in lost THEN SUBSET held ELSE {held} :
           answer' = [answer EXCEPT ![q] = rows]
    /\ UNCHANGED <<data, snap, lost>>

Fail(q) ==
    /\ outcome[q] = "asked"
    /\ outcome' = [outcome EXCEPT ![q] = "error"]
    /\ UNCHANGED <<data, answer, snap, lost>>

Next ==
    \/ Write
    \/ \E q \in Query : Ask(q) \/ Serve(q) \/ Lose(q) \/ Succeed(q) \/ Fail(q)

Spec == Init /\ [][Next]_vars
=============================================================================
