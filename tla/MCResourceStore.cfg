\* Two sessions race over three contents, so that a lost write shows.
CONSTANTS
  Sessions = {"s1", "s2"}
  Agents = {"a1"}
  Contents = {"x", "y", "z"}
  Documents = {"d1", "d2", "d3"}
  VersionOf <- CanonicalForm
  Names = {"n1", "n2"}
  MaxVersion = 3
SPECIFICATION Spec
INVARIANTS
  VersionNamesContent
  ApplyIsIdempotent
  FetchFindsBoth
