--------------------------- MODULE MCProvisioning ---------------------------
(* Bounded instances of Provisioning for TLC. *)
EXTENDS Provisioning, TLC

Symmetry == Permutations(Req) \cup Permutations(Email)
=============================================================================
