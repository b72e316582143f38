--------------------------- MODULE MCAchievements ---------------------------
(* Achievements for TLC: the requests are interchangeable.                 *)
EXTENDS Achievements
ReqSymmetry == Permutations(Reqs)
=============================================================================
