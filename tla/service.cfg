SPECIFICATION ServiceSpec
CONSTANTS
  FileWorker = {v1, v2}
  Nobody = Nobody
  NameCount = 2
  Watched = TRUE
  FileOps = {"copy", "hardlink", "move", "write"}
  Book = {b1, b2}
  DeliveryRuns = 2
  Reader = {r1}
  Admins = Admins
  Fetched = {d1}
  Wish = {q1}
  NoReader = NoReader
  NoWish = NoWish
  PolicySource = {"direct", "indexer"}
  ReleaseSource = {"direct"}
  ContentType = {"ebook"}
  Title = {k1, k2}
  PendingLimit = 1
  GlobalRuleCount = 2
  UserRuleCount = 1
  RequestCount = 2
  AnyKey = AnyKey
  Environments <- MCEnvironments
  Installations <- MCInstallations
  Changed = {"selected", "enabled", "direct"}
  StopLimit = 1
  TearLimit = 1
  Page = {p1, p2}
  PageUser = {u1}
  NoRoom = NoRoom
  Sender = {s1, s2, s3}
  QueueChanges = 1
  AuthToggles = 1
  Dispatcher = {n1, n2, n3}
  Testing = {n3}
  Tables <- MCTables
  Events = {"download_failed"}
  SaveLimit = 2
  NotifyLimit = 2
  TestLimit = 1
INVARIANTS
  ServiceTypeOK
  AllOrNothing
  RetriesAddUp
  ModesFollowRules
  StaleOnlyInCooldown 
  PagesUpToDate
  DispatchIsOwn
PROPERTIES
  FollowsFolder
  ViewsFollowRows
  BatchWithinLimits
CHECK_DEADLOCK FALSE
