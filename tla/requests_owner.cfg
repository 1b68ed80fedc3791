SPECIFICATION Spec
CONSTANTS
  Request = {r1, r2}
  NoRequest = NoRequest
  Release = {s1}
  NoRelease = NoRelease
  Caller = {c1}
  Viewer = {c1}
  MaxPending = 2
  NativeThreads = FALSE
  LateReports = FALSE
  MaxRestarts = 0
SYMMETRY Symmetry
PROPERTIES
  OwnDelivery
