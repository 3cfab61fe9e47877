--------------------------- MODULE MCSlotLimiter ---------------------------
(* A small instance of SlotLimiter: two exits, three callers, and limits    *)
(* that are tightened and switched off while slots are held.                *)
EXTENDS SlotLimiter, TLC

MCLimitChoices == {[conc |-> 2, rpm |-> 2, rph |-> 3],
                   [conc |-> 1, rpm |-> 0, rph |-> 3]}

Symmetry == Permutations(Requests) \cup Permutations(Exits)
=============================================================================
