\* A ceiling of four rules for one principle, so that conditions reach it.
CONSTANTS
  Nesting = 4
  Matching <- Patterns
  IdKey <- Numbers
  Documents <- Written
  Operations <- Governed
  MatchedRefs <- Tried
  Split <- Urls
  Groups <- Addresses
  Destroys = {"drop_all"}
  Renames = {"mv"}
  Deletes = {"delete", "DELETE"}
  Flagged <- Detected
  MaxDisjuncts = 4
SPECIFICATION Spec
INVARIANTS
  FloorIsAsWritten
  OrderDoesNotMatter
  EvidenceShowsWhatWasJudged
\* A document that is rejected or refused goes no further.
CHECK_DEADLOCK FALSE
