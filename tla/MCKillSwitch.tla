---------------------------- MODULE MCKillSwitch ----------------------------
(* An instance of KillSwitch for TLC: two agents and the fleet.            *)
EXTENDS KillSwitch

TwoAgents == {"a1", "a2"}
=============================================================================
