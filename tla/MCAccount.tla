------------------------------ MODULE MCAccount ------------------------------
(* Accounts in small numbers.  disturbed is never reset and the invariants  *)
(* of the run that prunes with Undisturbed all hold trivially where it is   *)
(* TRUE, so pruning there loses no violation of them.  The tail of          *)
(* googleSignIn, which is disturbed from its start, is followed to its end  *)
(* where nothing else is under way.                                         *)
EXTENDS Account, TLC

Undisturbed ==
    \/ ~disturbed
    \/ /\ \E t \in Tasks : At(t, "deleteUser") /\ \A o \in Tasks \ {t} : task[o] = Idle
       /\ logout = "idle" /\ touches = {} /\ timer = [i \in Timers |-> NoTimer]

MCPermutations == Permutations(GoogleUsers) \cup Permutations(PasswordUsers)
                    \cup Permutations(Tasks)
=============================================================================
