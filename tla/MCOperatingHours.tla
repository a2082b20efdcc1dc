--------------------------- MODULE MCOperatingHours ---------------------------
(* One table for Monday to Friday, one for Saturday, one for Sunday, each of *)
(* them closed, on the hour, at half past, overnight or all day; and a place *)
(* that is open on Wednesdays only.                                          *)
EXTENDS OperatingHours

At(o, om, c, cm) == [open |-> [hour |-> o, min |-> om], close |-> [hour |-> c, min |-> cm]]

MCSchedules == {NoHours, At(8, 0, 17, 0), At(8, 1, 17, 1), At(18, 0, 2, 0), At(0, 0, 0, 0)}

MCTables ==
    {[d \in Days |-> IF d < 5 THEN w ELSE IF d = 5 THEN sat ELSE sun] :
        w, sat, sun \in MCSchedules}
    \cup {[d \in Days |-> IF d = 2 THEN s ELSE NoHours] : s \in MCSchedules}
=============================================================================
