SPECIFICATION FairSpec
CONSTANTS
  Users = {"ann", "bob"}
  Analyses = {"a1", "a2"}
  Fingerprints = {"f1", "f2"}
  Workers = {w1, w2}
  Owner <- MCOwner
  Content <- MCContent
  Count <- MCCount
  MaxGroups = 2
  MaxRetries = 2
  AIEnabled = TRUE
  Indexing = TRUE
  Faults = {"connect", "stall", "llm", "vector", "file"}
  MaxFaults = 1
  NoGroup = NoGroup
  NoMessage = NoMessage
PROPERTIES
  SettlesOnce
  DeliveriesEnd
