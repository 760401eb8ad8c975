-------------------------- MODULE MCDebugInterface --------------------------
(* Instances of DebugInterface for TLC. *)
EXTENDS DebugInterface, TLC

CONSTANTS c1, c2, a1

OneClient == {c1}
TwoClients == {c1, c2}
OneAddr == {a1}
NoAddr == {}
Clocks == {1, 2}
=============================================================================
