------------------------- MODULE MCSessionLifecycle -------------------------
(* SessionLifecycle with its symmetry for TLC: sessions and workers are all alike. *)
EXTENDS SessionLifecycle, TLC

MCSymmetry == Permutations(Sessions) \cup Permutations(Workers)
=============================================================================
