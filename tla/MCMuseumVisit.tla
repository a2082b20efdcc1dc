---------------------------- MODULE MCMuseumVisit ----------------------------
(* The code changes among two values and none; the AR screen may or may not *)
(* find the scanner's controller.                                           *)
EXTENDS MuseumVisit

MCReuseChoices == BOOLEAN
=============================================================================
