------------------------ MODULE MCSQLiteRepository ------------------------
(* SQLiteRepository and its queries for TLC: one workflow, one run, one    *)
(* task, and one repo that three components claim.                         *)
EXTENDS SQLiteQueries

MCworkflowOf == [run \in Run |-> CHOOSE w \in Workflow : TRUE]
MCrunOf == [task \in Task |-> CHOOSE run \in Run : TRUE]
=============================================================================
