------------------------- MODULE MCMemoryRepository -------------------------
(* OwnershipEvents for TLC: the team names a component event may carry.   *)
EXTENDS OwnershipEvents

WithTeam == Team

WithoutTeam == Team \cup {NoName}
=============================================================================
