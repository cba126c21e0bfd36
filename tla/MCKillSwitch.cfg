\* Every failure and restart, over two agents and the fleet.
CONSTANTS
  Agents <- TwoAgents
SPECIFICATION Spec
INVARIANTS
  AcknowledgedKillHolds
  DurableKillEnforced
PROPERTIES
  UnkillIsDurableAndAudited
