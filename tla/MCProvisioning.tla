--------------------------- MODULE MCProvisioning ---------------------------
(***************************************************************************)
(* Model-checking instance of Provisioning.                                *)
(***************************************************************************)
EXTENDS Provisioning, TLC

Symmetry == Permutations(Phones)

=============================================================================
