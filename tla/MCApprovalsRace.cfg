\* An operator in another process races the deadline.
CONSTANTS
  Requests = {"r1"}
  Resolvers = {"s1"}
  Refs = {"p", "q", "z"}
  FiredRefs <- FiredBy
  SharedLoop = FALSE
SPECIFICATION Spec
INVARIANTS
  EventsMatchRows
\* Nothing is left to do once every request is decided.
CHECK_DEADLOCK FALSE
