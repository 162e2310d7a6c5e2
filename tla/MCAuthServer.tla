---------------------------- MODULE MCAuthServer ----------------------------
(* Instances of AuthServer for TLC: every invite is for the one user.      *)
EXTENDS AuthServer, TLC

OneUser == [i \in Invite |-> CHOOSE u \in User : TRUE]

ServerSymmetry == Permutations(Browser) \cup Permutations(Challenge)
=============================================================================
