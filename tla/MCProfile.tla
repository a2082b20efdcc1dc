------------------------------ MODULE MCProfile ------------------------------
(* Two users take turns on one phone, with two edits or uploads between them. *)
EXTENDS Profile, TLC

CONSTANTS ana, ben

MCPermutations == Permutations({ana, ben})
=============================================================================
