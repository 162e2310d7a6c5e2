---------------------------- MODULE MCMiniCloud -----------------------------
(* Instances of MiniCloud for TLC. *)
EXTENDS MiniCloud, TLC

SessionSymmetry == Permutations(Session)
=============================================================================
