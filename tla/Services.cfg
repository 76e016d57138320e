SPECIFICATION ServicesSpec
CONSTANTS
  Parts = {"accounts", "limiter", "chunks", "incident", "uploads", "similar"}
  AccountReqs = {"r1", "r2", "r3"}
  Emails = {"ann"}
  MaxDbFaults = 1
  Keys = {"login", "ask"}
  times <- MCTimes
  seconds <- MCSeconds
  MaxClock = 4
  WINDOW_LINES = 4
  OVERLAP_LINES = 1
  MAX_CHUNKS = 2
  Texts <- MCTexts
  MaxLines = 3
  Logs <- MCLogs
  SAMPLE_SIZE = 2
  MAX_SAMPLES_PER_GROUP = 2
  AISeverities = {"low"}
  MaxEvents = 4
  CHUNK = 2
  max_upload_bytes = 5
  max_paste_bytes = 3
  Sizes = {0, 1, 3, 4, 5, 6, 7}
  EXTRA = 1
  SIMILARITY_THRESHOLD = 2
  Searches <- MCSearches
INVARIANTS
  ServicesTypeOK
  AllOrNone
  OneRegistrationWins
  RegisteredCanLogin
  NeverMoreThanTimes
  RefusedForReason
  EventsStayWhole
  GroupsMatchLines
  FirstFailureIsEarliest
  UploadsAreWholeOrGone
  PastIsFound
PROPERTIES
  RequestsAreAnswered
