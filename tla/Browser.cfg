SPECIFICATION BrowserSpec
CONSTANTS
  Parts = {"chat", "auth", "page"}
  ChatTabs = {"t1", "t2"}
  Usages <- MCUsages
  MaxCuts = 1
  AuthUsers = {"ann", "bob"}
  Calls = {"c1", "c2"}
  Scenes <- MCScenes
  NoUser = NoUser
  Analyses = {"a1", "a2"}
  Owner <- MCOwner
  Content <- MCContent
  Count <- MCCount
  PageLimit = 3
  Clicks = {"k1", "k2"}
  Plans <- MCPlans
  Absent = Absent
INVARIANTS
  BrowserTypeOK
  DoneMeansSaved
  ViewMatchesTranscript
  NoSilentFailure
  TokensMatchAccount
  SettledShowsItself
  ListsWholeRuns
  PollsAreFresh
  ReportsAreFresh
PROPERTIES
  ImplementsTranscript
  InputReturnsOnline
  AnswersMatchAccount
  ExpiryIsInvisible
  RestoreEnds
  PageSettles
