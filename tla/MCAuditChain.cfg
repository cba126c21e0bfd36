\* Two writers (the pipeline's process and an out-of-process resolver).
CONSTANTS
  w1 = w1
  w2 = w2
  Writers <- TwoWriters
  Bodies = {"decision", "event", "unclassified", "secret"}
  Unclassified = {"unclassified"}
  Leaky = {"secret"}
  MaxRows = 3
SPECIFICATION Spec
INVARIANTS
  TypeOK
  ChainLinked
PROPERTIES
  StaleWriterWritesNothing
  ImplementsLog
