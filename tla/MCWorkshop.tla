----------------------------- MODULE MCWorkshop -----------------------------
(* Bounded instances of Workshop for TLC. *)
EXTENDS Workshop, TLC

AllInputs == Input

Symmetry == Permutations(Req) \cup Permutations(Existing) \cup Permutations(Vin)
=============================================================================
