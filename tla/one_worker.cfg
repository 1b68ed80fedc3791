SPECIFICATION Spec
CONSTANTS
  Task = {t1}
  NoTask = NoTask
  Flag = {f1, f2, f3, f4}
  NoFlag = NoFlag
  Priority = {1}
  RetryPriority = 0
  MaxEnqueues = 2
  Client = {c1}
  Worker = {w1, w2}
  Reported = {"downloading"}
  NativeThreads = FALSE
  MaxRestarts = 0
SYMMETRY Symmetry
INVARIANTS
  OneWorkerPerTask
