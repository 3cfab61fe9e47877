-------------------------- MODULE MCAccountHealth --------------------------
(* Small instances of AccountHealth.                                        *)
EXTENDS AccountHealth, TLC

CONSTANTS a1, a2

MCOrder == a1 :> 1 @@ a2 :> 2
=============================================================================
