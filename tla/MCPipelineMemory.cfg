\* Four actions of three conversations, windows of two, two kept; two versions.
CONSTANTS
  e1 = e1
  e2 = e2
  e3 = e3
  e4 = e4
  c1 = c1
  c2 = c2
  c3 = c3
  v1 = v1
  v2 = v2
  Evaluations <- Actions
  Conversations <- Threads
  Forbidden <- Declared
  Window = 2
  MaxConversations = 2
  MaxEntries = 1
  Classes = {"rename", "destroy"}
  Verdicts = {"deny"}
  Versions <- Loaded
  MaxAttempts = 2
SYMMETRY Symmetric
SPECIFICATION Spec
INVARIANTS
  MatchesHappened
  SequencesCaught
  AdvisedByItsOwnVersion
\* Nothing is left to do once every action was decided.
CHECK_DEADLOCK FALSE
