------------------------------ MODULE BookQueue ------------------------------
(***************************************************************************)
(* The in-memory download queue, src/shelfmark/core/queue.py: the state of *)
(* one BookQueue and one operator per method.  Every method body is one    *)
(* critical section of BookQueue._lock, so each operator is one atomic     *)
(* step; a method that takes the lock twice (cancel_download) or works     *)
(* outside it (get_next pops the heap first) is several operators.  The    *)
(* operators say what happens to the queue; DownloadSystem composes them   *)
(* with the threads that call them.                                        *)
(***************************************************************************)
EXTENDS Integers, FiniteSets

CONSTANTS
  Task,           \* task ids (DownloadTask.task_id, the release's source_id)
  NoTask,         \* stands for the absence of a task
  Flag,           \* threading.Event objects available as cancellation flags
  NoFlag,         \* stands for the absence of a flag
  Priority,       \* priorities a caller can ask for (lower runs first)
  RetryPriority,  \* the priority retry_download uses (-10 in the code)
  MaxEnqueues     \* bound of the model: how many times anything is enqueued

ASSUME QueueAssumption ==
  /\ NoTask \notin Task
  /\ NoFlag \notin Flag
  /\ Priority \subseteq Int
  /\ RetryPriority \in Int
  /\ MaxEnqueues \in Nat

(***************************************************************************)
(* QueueStatus (models.py).  "unknown" is a task id the queue has no       *)
(* status for.                                                             *)
(***************************************************************************)
InProgress == {"resolving", "locating", "downloading"}
Terminal   == {"complete", "error", "cancelled"}
Status     == {"unknown", "queued"} \cup InProgress \cup Terminal

(***************************************************************************)
(* A QueueItem.  added is the value of time.time() at enqueue: a logical   *)
(* clock, so no two items are equal and __lt__ is a total order.           *)
(***************************************************************************)
Item == [task : Task, priority : Int, added : Nat]

VARIABLES
  queue,            \* _queue: the items in the PriorityQueue
  status,           \* _status
  taskData,         \* _task_data: the task ids that have a DownloadTask
  cancelFlags,      \* _cancel_flags
  activeDownloads,  \* _active_downloads: the task ids marked active
  setFlags,         \* the Event objects that have been set
  clock             \* time.time(), ticking once per enqueue

queueVars ==
  <<queue, status, taskData, cancelFlags, activeDownloads, setFlags, clock>>

QueueTypeOK ==
  /\ queue \subseteq Item
  /\ status \in [Task -> Status]
  /\ taskData \subseteq Task
  /\ cancelFlags \in [Task -> Flag \cup {NoFlag}]
  /\ activeDownloads \subseteq Task
  /\ setFlags \subseteq Flag
  /\ clock \in Nat

QueueInit ==
  /\ queue = {}
  /\ status = [t \in Task |-> "unknown"]
  /\ taskData = {}
  /\ cancelFlags = [t \in Task |-> NoFlag]
  /\ activeDownloads = {}
  /\ setFlags = {}
  /\ clock = 0

-----------------------------------------------------------------------------

Before(i, j) ==
  \/ i.priority < j.priority
  \/ i.priority = j.priority /\ i.added < j.added

ItemsOf(t) == {i \in queue : i.task = t}

Enqueue(t, p, others) ==
  /\ clock < MaxEnqueues
  /\ clock' = clock + 1
  /\ queue' = others \cup {[task |-> t, priority |-> p, added |-> clock + 1]}

(***************************************************************************)
(* add: refused when the task has a status other than error or cancelled.  *)
(* Nothing is removed from the heap, so an item left by a cancelled        *)
(* enqueue of the same task stays beside the new one.                      *)
(***************************************************************************)
Addable(t) == status[t] \in {"unknown", "error", "cancelled"}

Add(t, p) ==
  /\ Addable(t)
  /\ Enqueue(t, p, queue)
  /\ taskData' = taskData \cup {t}
  /\ status' = [status EXCEPT ![t] = "queued"]
  /\ UNCHANGED <<cancelFlags, activeDownloads, setFlags>>

\* A retry that puts the new entry in the heap before it removes the old ones.
EnqueueExistingDedupeLast(t) ==
  /\ t \in taskData
  /\ clock < MaxEnqueues /\ clock' = clock + 1
  /\ queue' = queue \ ItemsOf(t)
  /\ status' = [status EXCEPT ![t] = "queued"]
  /\ cancelFlags' = [cancelFlags EXCEPT ![t] = NoFlag]
  /\ activeDownloads' = activeDownloads \ {t}
  /\ UNCHANGED <<taskData, setFlags>>

(***************************************************************************)
(* enqueue_existing, as retry_download calls it: whatever the status, the  *)
(* task's other heap entries, its flag and its active mark go.             *)
(***************************************************************************)
EnqueueExisting(t) ==
  /\ t \in taskData
  /\ Enqueue(t, RetryPriority, queue \ ItemsOf(t))
  /\ status' = [status EXCEPT ![t] = "queued"]
  /\ cancelFlags' = [cancelFlags EXCEPT ![t] = NoFlag]
  /\ activeDownloads' = activeDownloads \ {t}
  /\ UNCHANGED <<taskData, setFlags>>

(***************************************************************************)
(* get_next takes the first item off the heap without the lock ...         *)
(***************************************************************************)
Pop(i) ==
  /\ i \in queue
  /\ \A j \in queue \ {i} : Before(i, j)
  /\ queue' = queue \ {i}
  /\ UNCHANGED <<status, taskData, cancelFlags, activeDownloads, setFlags, clock>>

(***************************************************************************)
(* ... and then, holding it, registers a new flag f for the task, unless   *)
(* the task was cancelled meanwhile.  The status stays what it is.         *)
(***************************************************************************)
Claim(t, f) ==
  /\ status[t] # "cancelled"
  /\ cancelFlags' = [cancelFlags EXCEPT ![t] = f]
  /\ activeDownloads' = activeDownloads \cup {t}
  /\ setFlags' = setFlags \ {f}
  /\ UNCHANGED <<queue, status, taskData, clock>>

SkipClaim(t) ==
  /\ status[t] = "cancelled"
  /\ UNCHANGED queueVars

(***************************************************************************)
(* update_status overwrites any status; a terminal one drops the flag and  *)
(* the active mark.  HookDue says whether the caller then runs the         *)
(* terminal-status hook.                                                   *)
(***************************************************************************)
\* A hook that forgets that a queued task can become terminal too.
HookDueInProgress(t, s) == s \in Terminal /\ status[t] \in InProgress /\ t \in taskData

HookDue(t, s) == s \in Terminal /\ status[t] # s /\ t \in taskData

UpdateStatus(t, s) ==
  /\ status' = [status EXCEPT ![t] = s]
  /\ IF s \in Terminal
     THEN /\ cancelFlags' = [cancelFlags EXCEPT ![t] = NoFlag]
          /\ activeDownloads' = activeDownloads \ {t}
     ELSE UNCHANGED <<cancelFlags, activeDownloads>>
  /\ UNCHANGED <<queue, taskData, setFlags, clock>>

(***************************************************************************)
(* cancel_download's first critical section: an active download's flag is  *)
(* set if it is registered; a queued one is only noted.  The second one is *)
(* UpdateStatus(t, "cancelled").                                           *)
(***************************************************************************)
Cancellable(t) == status[t] \in InProgress \cup {"queued"}

SignalCancel(t) ==
  /\ Cancellable(t)
  /\ setFlags' = IF status[t] \in InProgress
                 THEN setFlags \cup ({cancelFlags[t]} \ {NoFlag})
                 ELSE setFlags
  /\ UNCHANGED <<queue, status, taskData, cancelFlags, activeDownloads, clock>>

(***************************************************************************)
(* reorder_queue: m maps some tasks to new priorities; items keep their    *)
(* added time.  set_priority is the one-task case, for queued tasks only.  *)
(***************************************************************************)
ReorderQueue(m) ==
  /\ queue' = {[i EXCEPT !.priority = IF i.task \in DOMAIN m THEN m[i.task] ELSE @]
                 : i \in queue}
  /\ UNCHANGED <<status, taskData, cancelFlags, activeDownloads, setFlags, clock>>

SetPriority(t, p) ==
  /\ status[t] = "queued"
  /\ ReorderQueue([u \in {t} |-> p])

(***************************************************************************)
(* refresh: forgets terminal tasks older than STATUS_TIMEOUT.  Time is     *)
(* abstract, so any set of terminal tasks may have expired.  Heap items,   *)
(* flags and active marks are left alone, and a status without task data   *)
(* is never removed.                                                       *)
(***************************************************************************)
Refresh(expired) ==
  /\ expired \subseteq {t \in taskData : status[t] \in Terminal}
  /\ status' = [t \in Task |-> IF t \in expired THEN "unknown" ELSE status[t]]
  /\ taskData' = taskData \ expired
  /\ UNCHANGED <<queue, cancelFlags, activeDownloads, setFlags, clock>>

=============================================================================
