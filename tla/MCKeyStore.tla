----------------------------- MODULE MCKeyStore -----------------------------
(***************************************************************************)
(* Model-checking instance of KeyStore.                                    *)
(***************************************************************************)
EXTENDS KeyStore, TLC

Symmetry == Permutations(Keys)

=============================================================================
