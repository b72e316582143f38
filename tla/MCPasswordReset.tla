--------------------------- MODULE MCPasswordReset ---------------------------
(* PasswordReset with small sets of model values, for TLC.                 *)
EXTENDS PasswordReset, TLC

Symmetry == Permutations(Reqs)
=============================================================================
