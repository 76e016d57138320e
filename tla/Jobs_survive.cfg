SPECIFICATION FairSpec
CONSTANTS
  Users = {"ann", "bob"}
  Analyses = {"a1", "a2"}
  Fingerprints = {"f1", "f2"}
  Workers = {w1, w2}
  Owner <- MCOwner
  Content <- MCContent
  Count <- MCCount
  MaxGroups = 2
  MaxRetries = 2
  AIEnabled = FALSE
  Indexing = TRUE
  Faults = {"enqueue", "crash", "connect", "file"}
  MaxFaults = 2
  NoGroup = NoGroup
  NoMessage = NoMessage
INVARIANTS
  NoLostJob
  CommittedIsIndexed
PROPERTIES
  Settles
