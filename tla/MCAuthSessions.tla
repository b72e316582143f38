--------------------------- MODULE MCAuthSessions ---------------------------
(* AuthSessions with small sets of model values, for TLC.                  *)
EXTENDS AuthSessions, TLC

Symmetry == Permutations(Sessions) \cup Permutations(Tokens) \cup Permutations(Reqs)
=============================================================================
