--------------------------- MODULE MCLegacyBroker ---------------------------
(* Instances of LegacyBroker for TLC: all browsers are for one device, one *)
(* of them types and one of its shells prints.                             *)
EXTENDS LegacyBroker, TLC

CONSTANTS c1, h1

SameDevice == [c \in Client |-> CHOOSE d \in Device : TRUE]
OneTypes == [x \in Socket |-> IF x = c1 THEN 2 ELSE IF x = h1 THEN 1 ELSE 0]
=============================================================================
