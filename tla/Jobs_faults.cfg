SPECIFICATION Spec
CONSTANTS
  Users = {"ann", "bob"}
  Analyses = {"a1", "a2"}
  Fingerprints = {"f1", "f2"}
  Workers = {w1, w2}
  Owner <- MCOwner
  Content <- MCQuiet
  Count <- MCTies
  MaxGroups = 2
  MaxRetries = 1
  AIEnabled = TRUE
  Indexing = FALSE
  Faults = {"enqueue", "connect", "setup", "db", "crash", "child", "stall", "file", "llm"}
  MaxFaults = 2
  NoGroup = NoGroup
  NoMessage = NoMessage
SYMMETRY WorkerSymmetry
INVARIANTS
  TypeOK
  RunsAreAtomic
  CompletedHasResults
  WorkerFindsRow
PROPERTIES
  ImplementsBoard
