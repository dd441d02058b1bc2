------------------------------ MODULE MCCapital ------------------------------
(* Capital held for two entries of the gateway by two devices.                *)
EXTENDS CapitalReservations, TLC

CONSTANTS d1, d2, e1, e2

Symmetry == Permutations({d1, d2}) \cup Permutations({e1, e2})
=============================================================================
