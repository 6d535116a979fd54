----------------------------- MODULE MCFormFlow -----------------------------
(* FormFlow with interchangeable participants.                              *)
EXTENDS FormFlow

Symmetry == Permutations(Person)
=============================================================================
