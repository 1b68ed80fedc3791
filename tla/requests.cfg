SPECIFICATION ComposedSpec
CONSTANTS
  Request = {r1}
  NoRequest = NoRequest
  Release = {s1}
  NoRelease = NoRelease
  Caller = {c1}
  Viewer = {v1}
  MaxPending = 1
  NativeThreads = FALSE
  LateReports = TRUE
  MaxRestarts = 1
  ThreadCaller = {u1, u2}
SYMMETRY Symmetry
INVARIANTS
  TypeOK
  PendingHasNoDelivery
PROPERTIES
  FollowsRequestSpec
  DecidedOnce
  ThreadsDecideOnce
