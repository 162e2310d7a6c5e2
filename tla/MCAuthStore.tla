---------------------------- MODULE MCAuthStore -----------------------------
(* Instances of AuthStore, alone and under Enrollment, for TLC.            *)
EXTENDS Enrollment, TLC

StoreSymmetry == Permutations(AgentToken) \cup Permutations(Dial)
=============================================================================
