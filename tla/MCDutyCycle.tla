----------------------------- MODULE MCDutyCycle -----------------------------
(* TLC instance of DutyCycle.  The processes are interchangeable: nothing   *)
(* but the safety properties is checked, and none of them names one.        *)
EXTENDS DutyCycle

Symmetry == Permutations(Process)
=============================================================================
