\* One evaluation over every effect, floor, exception and failure.
CONSTANTS
  c1 = c1
  agent = agent
  Calls <- OneCall
  Agents = {agent}
  AgentOf <- ByOneAgent
  Refs = {"p", "q"}
  Effects = {"allow", "warn", "governance_review", "sandbox", "require_consensus", "require_approval", "deny"}
  SideEffectsOf <- Escalations
  Hinted = {"p"}
  NoMatchFloors = {"allow", "governance_review", "require_approval", "deny"}
  MaxExpiry = 2
  MaxVersion = 2
  One = 2
  SandboxAt = 1
  DenyAt = 2
  TrustHardenAt = 0
SPECIFICATION FairSpec
INVARIANTS
  FloorHolds
  VerdictHolds
  ClosedFailsClosed
  EvidenceIsTheDecision
  EscalationsRide
  MatchedPinsEvaluated
  ClosedExceptionTimeBoxed
PROPERTIES
  EvaluationsEnd
