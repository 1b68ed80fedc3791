SPECIFICATION FetchingSpec
CONSTANTS
  ClientSetups <- MCSetups
  ClientRun = {r1, r2}
  RemoteId = {q1, q2}
  NoRemote = NoRemote
  NotFoundLimit = 2
  PathAttempts = 2
  SendAttempts = 2
  IrcRun = {u1, u2}
  IrcConn = {c1, c2}
  NoConn = NoConn
  NoOffer = NoOffer
  BookStatus = {s1, s2}
  UserList = {l1}
  NoTarget = NoTarget
  TargetRun = {g1, g2}
  CacheLimit = 1
  PutLimit = 2
  GetLimit = 1
  CoverId = {i1, i2}
  CoverExt = {"jpg", "png"}
  CoverFetch = {h1, h2}
  CoverLimit = 1
  FetchLimit = 2
  QbtSetups <- MCQbtSetups
  LoadTries = 2
INVARIANTS
  FetchingTypeOK
  NoStrayDownload FailedOnlyWhenFound
  RegistrySound
  StaleOnlyByRace
  AnswersAreTrue
PROPERTIES
  DataKept
  DisconnectedByPeers
  IndexMatchesFiles
  RunsEnd
CHECK_DEADLOCK FALSE
