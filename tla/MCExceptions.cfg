\* Exceptions across an amendment, on one loop with their operator.
CONSTANTS
  Requests = {"r1", "r2", "r3"}
  Resolvers = {"s1"}
  Refs = {"p", "z"}
  FiredRefs <- FiredBy
  SharedLoop = TRUE
  Wired = {"r1"}
  Dispatching = {"r1"}
  ByHand = {"r1"}
  SideEffects <- SomeNotify
  OpenClass = {"r2"}
  AgentOf <- Makers
  EffectIn <- Constitutions
  MaxTime = 1
SPECIFICATION ExceptionsSpec
INVARIANTS
  RanAsTheTableSays
  ObligationsPrecedeRun
  EventsMatchRows
  GrantsRatified
  RanAsRatified
  DenyLiftedFromOutside
PROPERTIES
  SingleTransition
\* Nothing is left to do once every call ended.
CHECK_DEADLOCK FALSE
