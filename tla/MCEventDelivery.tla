--------------------------- MODULE MCEventDelivery ---------------------------
(* EventDelivery for TLC. *)
EXTENDS EventDelivery
=============================================================================
