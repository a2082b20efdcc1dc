----------------------------- MODULE MCMapScreen -----------------------------
(* A tourist spot, which search and the body see, and a restaurant, whose    *)
(* list is never added to allLocations.                                      *)
EXTENDS MapScreen

CONSTANTS spot, cafe

MCListOf == [l \in LocationIds |-> IF l = cafe THEN 3 ELSE 1]
=============================================================================
