--------------------------- MODULE MCQueryProtocol --------------------------
(* QueryProtocol for TLC: a subject of each kind of handler. *)
EXTENDS QueryProtocol
CONSTANTS runs, ownership, aggregate

HandlerKinds ==
    [s \in Subject |-> CASE s = runs -> "entity" [] s = ownership -> "diagnostics"
                         [] s = aggregate -> "aggregate"]
=============================================================================
