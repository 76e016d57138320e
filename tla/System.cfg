SPECIFICATION SystemSpec
CONSTANTS
  Users = {"ann", "bob"}
  Analyses = {"a1"}
  Fingerprints = {"f1", "f2"}
  Workers = {w1, w2}
  Owner <- MCOwner
  Content <- MCContent
  Count <- MCTies
  MaxGroups = 2
  MaxRetries = 2
  AIEnabled = TRUE
  Indexing = FALSE
  Faults = {"stall", "llm"}
  MaxFaults = 1
  NoGroup = NoGroup
  NoMessage = NoMessage
  Clicks = {"k1"}
  Plans <- MCPlans
  PageLimit = 3
  Absent = Absent
SYMMETRY WorkerSymmetry
INVARIANTS
  PagesKeepPromises
