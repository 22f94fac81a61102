--------------------------- MODULE MCKeyResolver ----------------------------
(***************************************************************************)
(* Model-checking instance of KeyResolver.                                 *)
(***************************************************************************)
EXTENDS KeyResolver, TLC

Symmetry == Permutations(Keys)

=============================================================================
