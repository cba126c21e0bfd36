\* One writer, one checkpoint service and one verifier over storage that fails.
CONSTANTS
  b1 = b1
  b2 = b2
  k1 = k1
  k2 = k2
  Writers = {"w1"}
  Bodies <- Contents
  Unclassified = {}
  Leaky = {}
  MaxRows = 2
  Keys <- Signers
  Anchor = "local_ed25519_v1"
  MaxCheckpoints = 2
  MaxFaults = 1
SYMMETRY Symmetric
SPECIFICATION VerifySpec
INVARIANTS
  AcceptedHistoryIsAnchored
  FalseAlarmsAreKnown
  SoleWriterNeverCollides
