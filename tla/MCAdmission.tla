----------------------------- MODULE MCAdmission -----------------------------
(* Instance of Admission for model checking.                               *)
EXTENDS Admission, TLC

Symmetry == Permutations(Callers)
=============================================================================
