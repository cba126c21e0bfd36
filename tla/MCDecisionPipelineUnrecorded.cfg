\* A fail-open class with the audit backend down.
CONSTANTS
  c1 = c1
  agent = agent
  Calls <- OneCall
  Agents = {agent}
  AgentOf <- ByOneAgent
  Refs = {"p"}
  Effects = {"warn", "deny"}
  SideEffectsOf <- Escalations
  Hinted = {"p"}
  NoMatchFloors = {"allow"}
  MaxExpiry = 1
  MaxVersion = 2
  One = 2
  SandboxAt = 1
  DenyAt = 2
  TrustHardenAt = 0
SPECIFICATION Spec
INVARIANTS
  NoRecordNoExecution
