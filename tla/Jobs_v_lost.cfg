SPECIFICATION Spec
CONSTANTS
  Users = {"ann", "bob"}
  Analyses = {"a1"}
  Fingerprints = {"f1", "f2"}
  Workers = {w1, w2}
  Owner <- MCOwner
  Content <- MCContent
  Count <- MCCount
  MaxGroups = 2
  MaxRetries = 2
  AIEnabled = FALSE
  Indexing = FALSE
  Faults = {"db"}
  MaxFaults = 1
  NoGroup = NoGroup
  NoMessage = NoMessage
SYMMETRY WorkerSymmetry
INVARIANTS
  NeverLost
