SPECIFICATION BrowserSpec
CONSTANTS
  Parts = {"chat"}
  ChatTabs = {"t1", "t2"}
  Usages <- MCLossy
  MaxCuts = 1
  AuthUsers = {"ann", "bob"}
  Calls = {"c1", "c2"}
  Scenes <- MCScenes
  NoUser = NoUser
  Analyses = {"a1", "a2"}
  Owner <- MCOwner
  Content <- MCContent
  Count <- MCCount
  PageLimit = 3
  Clicks = {"k1", "k2"}
  Plans <- MCPlans
  Absent = Absent
PROPERTIES
  InputReturns
