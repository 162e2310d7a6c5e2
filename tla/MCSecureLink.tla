---------------------------- MODULE MCSecureLink ----------------------------
(* Instances of SecureLink for TLC: two goroutines write at the agent, the *)
(* others at the broker.                                                   *)
EXTENDS SecureLink, TLC

CONSTANTS w1, w2

MCSideOf == [w \in Writer |-> IF w \in {w1, w2} THEN "agent" ELSE "broker"]
=============================================================================
