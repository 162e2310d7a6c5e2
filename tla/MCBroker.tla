------------------------------ MODULE MCBroker ------------------------------
(* Instances of BrokerEnv for TLC. *)
EXTENDS BrokerEnv, TLC

ConnSymmetry == Permutations(Conn)
=============================================================================
