----------------------------- MODULE MCBchField -----------------------------
(* The parameters the program is shipped with: m = 10, length 1020 and      *)
(* t = 219, of which the first elements of the field are enough.            *)
EXTENDS BchField

Spec == FieldInit /\ [][FieldNext]_<<pc, fieldVars>>

Taps10 == {0, 3, 10}
Codes10 == {[codelength |-> 1020, t |-> 219]}
=============================================================================
