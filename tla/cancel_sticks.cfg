SPECIFICATION Spec
CONSTANTS
  Task = {t1}
  NoTask = NoTask
  Flag = {f1, f2, f3}
  NoFlag = NoFlag
  Priority = {1}
  RetryPriority = 0
  MaxEnqueues = 1
  Client = {c1}
  Worker = {w1}
  Reported = {"downloading"}
  NativeThreads = FALSE
  MaxRestarts = 0
SYMMETRY Symmetry
PROPERTIES
  CancelSticks
