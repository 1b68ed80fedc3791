SPECIFICATION Spec
CONSTANTS
  Task = {t1, t2}
  NoTask = NoTask
  Flag = {f1, f2}
  NoFlag = NoFlag
  Priority = {1}
  RetryPriority = 0
  MaxEnqueues = 2
  Client = {c1}
  Worker = {w1}
  Reported = {"downloading"}
  NativeThreads = TRUE
  MaxRestarts = 0
SYMMETRY Symmetry
PROPERTIES
  OnlyDrainLoses
