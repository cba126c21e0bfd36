\* Two sessions over one agent and one component; a cache of one entry.
CONSTANTS
  Threads = {"t1", "t2"}
  Agents = {"a"}
  Components = {"k"}
  Grades = {"low"}
  DefaultTrust = "default"
  TTL = 2
  TokenTTL = 2
  MaxEntries = 1
  MaxTime = 4
SPECIFICATION Spec
INVARIANTS
  TypeOK
  EnrolledStands
  StaleWithinTTL
PROPERTIES
  DeclaredWins
  TrustMovesByGrade
\* The clock of the model stops.
CHECK_DEADLOCK FALSE
