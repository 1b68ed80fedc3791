SPECIFICATION TransfersSpec
CONSTANTS
  NoPage = NoPage
  MirrorCount = 2
  ProviderCount = 2
  RetryLimit = 2
  PageModes = {TRUE, FALSE}
  PageWays = {"strict", "soft", "hard"}
  DirectConfigs <- MCConfigs
  NoSource = NoSource
  LinkCounts = {0, 3}
  FailureLimit = 2
  TransferLimit = 2
  ResumeLimit = 2
  CountdownLimit = 1
  BookPieces = 2
  Client = {x1, x2}
  LoginName = {"n1", "n2"}
  Mistyped = {"n1"}
  Email = {"e1"}
  NoEmail = NoEmail
  NoName = NoName
  NoSubject = NoSubject
  Identity <- MCIdentities
  CwaLists <- MCCwaLists
  AuthSettings <- MCAuthSettings
  AttemptLimit = 2
  AccountLimit = 3
  WriteLimit = 3
INVARIANTS
  TransfersTypeOK
  DnsInForce
  OwnBook
  LinkingSettles ForcedLogoutHolds
PROPERTIES
  TransfersEnd
CHECK_DEADLOCK FALSE
