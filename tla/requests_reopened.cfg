SPECIFICATION Spec
CONSTANTS
  Request = {r1}
  NoRequest = NoRequest
  Release = {s1, s2}
  NoRelease = NoRelease
  Caller = {c1}
  Viewer = {c1}
  MaxPending = 1
  NativeThreads = FALSE
  LateReports = FALSE
  MaxRestarts = 0
SYMMETRY Symmetry
PROPERTIES
  ReopenedAfterFailure
