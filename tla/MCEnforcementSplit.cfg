\* An operator in another process, and a call with nothing to wait on.
CONSTANTS
  Requests = {"r1", "r2"}
  Resolvers = {"s1"}
  Refs = {}
  FiredRefs <- NoneFire
  SharedLoop = FALSE
  Wired = {"r1"}
  Dispatching = {"r1"}
  ByHand = {"r1"}
  SideEffects <- OneNotifies
  OpenClass = {}
SPECIFICATION EnforcementFairSpec
PROPERTIES
  CallsEnd
\* Nothing is left to do once every call ended.
CHECK_DEADLOCK FALSE
