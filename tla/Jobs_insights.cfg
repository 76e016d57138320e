SPECIFICATION Spec
CONSTANTS
  Users = {"ann", "bob"}
  Analyses = {"a1", "a2", "a3"}
  Fingerprints = {"f1"}
  Workers = {w1, w2}
  Owner <- MCOwner
  Content <- MCOne
  Count <- MCCount
  MaxGroups = 2
  MaxRetries = 2
  AIEnabled = TRUE
  Indexing = TRUE
  Faults = {"crash", "db", "stall", "llm", "vector"}
  MaxFaults = 1
  NoGroup = NoGroup
  NoMessage = NoMessage
SYMMETRY WorkerSymmetry
INVARIANTS
  CacheIsGrounded
  InsightsAreOwned
