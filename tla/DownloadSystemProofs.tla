------------------------ MODULE DownloadSystemProofs ------------------------
(***************************************************************************)
(* Proofs about DownloadSystem, for any tasks, requests, workers and       *)
(* bounds.                                                                 *)
(***************************************************************************)
EXTENDS DownloadSystem, TLAPS

(***************************************************************************)
(* The inductive invariant.  Hold: whoever is busy is busy with a task, and*)
(* has a terminal status in hand before it writes one; without it nothing  *)
(* says that a write keeps the types, nor that the task a worker settles is*)
(* the one it ran.  The rest is what scheduling by greenlets adds.         *)
(***************************************************************************)
ClientsHold == \A c \in Client : client[c].pc # "idle" => client[c].task \in Task

JobsHold == \A w \in Worker :
  /\ job[w].pc # "idle" => job[w].task \in Task
  /\ job[w].pc \in {"write", "hook"} => job[w].outcome \in Terminal

CoordHolds ==
  /\ coord.pc # "idle" => coord.task \in Task
  /\ coord.pc \in {"cancel", "write", "hook"} => coord.outcome \in Terminal

Hold == ClientsHold /\ JobsHold /\ CoordHolds

\* A queued task has data: a job without data gives up and writes nothing.
QueuedHaveData == \A t \in Task : status[t] = "queued" => t \in taskData

\* A greenlet that has queued a task records it before anyone else runs.
Recorded ==
  \A c \in Client : client[c].pc = "queueHook" => status[client[c].task] = "queued"

GreenletInv == QueuedNotLost /\ Recorded /\ FinishedRowNotActive

IInv == TypeOK /\ Hold /\ ProgressHasWorker /\ QueuedHaveData
          /\ (~NativeThreads => GreenletInv)

\* What a step does not do: lose a queued task.  All but the drain race keep this.
NoneLost == \A t \in Task : ~Lost(t) => ~Lost(t)'

-----------------------------------------------------------------------------
(***************************************************************************)
(* What the helpers of DownloadSystem do, field by field.                  *)
(***************************************************************************)
ClientBecomes(c, pc, t) ==
  /\ client' \in [Client -> [pc : ClientPC, task : Task \cup {NoTask}]]
  /\ client'[c].pc = pc /\ client'[c].task = t
  /\ \A d \in Client \ {c} : client'[d] = client[d]

JobBecomes(w, pc, o) ==
  /\ job' \in [Worker -> [pc : JobPC, task : Task \cup {NoTask},
                          flag : Flag \cup {NoFlag}, outcome : Outcome]]
  /\ job'[w].pc = pc /\ job'[w].outcome = o
  /\ job'[w].task = job[w].task /\ job'[w].flag = job[w].flag
  /\ \A v \in Worker \ {w} : job'[v] = job[v]

CoordBecomes(t, pc, o) ==
  /\ coord' \in [phase : Phase, pc : CoordPC, task : Task \cup {NoTask},
                 flag : Flag \cup {NoFlag}, outcome : Outcome]
  /\ coord'.task = t /\ coord'.pc = pc /\ coord'.outcome = o

\* ClientAt moves one request and no other.
LEMMA ClientAtEffect ==
  ASSUME SystemTypeOK, NEW c \in Client, NEW pc \in ClientPC, NEW t \in Task \cup {NoTask},
         ClientAt(c, pc, t)
  PROVE  ClientBecomes(c, pc, t)
BY DEF SystemTypeOK, ClientAt, ClientBecomes

\* ClientDone makes a request idle and leaves the others alone.
LEMMA ClientDoneEffect ==
  ASSUME SystemTypeOK, NEW c \in Client, ClientDone(c)
  PROVE  ClientBecomes(c, "idle", NoTask)
BY DEF SystemTypeOK, ClientDone, IdleClient, ClientPC, ClientBecomes

\* JobAt moves one worker and keeps its task, flag and outcome.
LEMMA JobAtEffect ==
  ASSUME SystemTypeOK, NEW w \in Worker, NEW pc \in JobPC, JobAt(w, pc)
  PROVE  JobBecomes(w, pc, job[w].outcome)
BY DEF SystemTypeOK, JobAt, JobBecomes

\* JobEndsWith moves one worker and gives it an outcome.
LEMMA JobEndsWithEffect ==
  ASSUME SystemTypeOK, NEW w \in Worker, NEW pc \in JobPC, NEW o \in Outcome,
         JobEndsWith(w, pc, o)
  PROVE  JobBecomes(w, pc, o)
BY DEF SystemTypeOK, JobEndsWith, JobBecomes

\* CoordHas puts a task in the hands of the coordinator.
LEMMA CoordHasEffect ==
  ASSUME SystemTypeOK, NEW t \in Task, NEW pc \in CoordPC, NEW o \in Outcome,
         CoordHas(t, pc, o)
  PROVE  CoordBecomes(t, pc, o)
BY DEF SystemTypeOK, CoordHas, CoordBecomes

\* CoordNow moves the coordinator on with the task it has.
LEMMA CoordNowEffect ==
  ASSUME SystemTypeOK, NEW pc \in CoordPC, CoordNow(pc)
  PROVE  CoordBecomes(coord.task, pc, coord.outcome)
BY DEF SystemTypeOK, CoordNow, CoordBecomes

\* CoordAt begins a phase with empty hands.
LEMMA CoordAtEffect ==
  ASSUME SystemTypeOK, NEW phase \in Phase, coord' = CoordAt(phase)
  PROVE  CoordBecomes(NoTask, "idle", "none")
BY DEF SystemTypeOK, CoordAt, CoordBecomes, CoordPC, Outcome

\* CoordReturns goes back to the phase with empty hands.
LEMMA CoordReturnsEffect ==
  ASSUME SystemTypeOK, CoordReturns
  PROVE  CoordBecomes(NoTask, "idle", "none")
BY DEF SystemTypeOK, CoordReturns, CoordAt, CoordBecomes, CoordPC, Outcome

(***************************************************************************)
(* What the operations of the queue and of the history do to the parts of  *)
(* the state the invariant speaks of.                                      *)
(***************************************************************************)
HasItem(t) == \E i \in queue : i.task = t

StatusBecomes(t, s) ==
  status'[t] = s /\ \A u \in Task \ {t} : status'[u] = status[u]

\* The queue keeps its type while nothing changes it.
LEMMA UnchangedQueue ==
  ASSUME QueueTypeOK, UNCHANGED queueVars
  PROVE  QueueTypeOK'
BY DEF QueueTypeOK, queueVars

\* An enqueue puts a well-formed item in the heap.
LEMMA EnqueueType ==
  ASSUME QueueTypeOK, NEW t \in Task, NEW p \in Int, NEW Q \in SUBSET queue, Enqueue(t, p, Q)
  PROVE  queue' \subseteq Item /\ clock' \in Nat
BY DEF QueueTypeOK, Enqueue, Item

\* An enqueued task has an item, and no item that is kept is lost.
LEMMA EnqueuedItem ==
  ASSUME NEW t \in Task, NEW p \in Int, NEW Q, Enqueue(t, p, Q)
  PROVE  HasItem(t)' /\ Q \subseteq queue'
<1> DEFINE item == [task |-> t, priority |-> p, added |-> clock + 1]
<1>1. item.task = t
  OBVIOUS
<1>2. item \in queue' /\ Q \subseteq queue'
  BY DEF Enqueue
<1> HIDE DEF item
<1> QED BY <1>1, <1>2 DEF HasItem

\* BookQueue.add makes a task queued, with data and an item.
LEMMA AddEffect ==
  ASSUME QueueTypeOK, NEW t \in Task, NEW p \in Int, Add(t, p)
  PROVE  /\ QueueTypeOK'
         /\ StatusBecomes(t, "queued")
         /\ taskData' = taskData \cup {t}
         /\ HasItem(t)'
         /\ \A u \in Task : HasItem(u) => HasItem(u)'
<1>1. queue' \subseteq Item /\ clock' \in Nat
  BY EnqueueType DEF Add
<1>2. QueueTypeOK'
  BY <1>1 DEF QueueTypeOK, Add, Status
<1>3. StatusBecomes(t, "queued")
  BY DEF QueueTypeOK, Add, StatusBecomes
<1>4. HasItem(t)' /\ \A u \in Task : HasItem(u) => HasItem(u)'
  BY EnqueuedItem DEF Add, HasItem
<1> QED BY <1>2, <1>3, <1>4 DEF Add

\* enqueue_existing drops the old items of its task only, and adds a new one.
LEMMA EnqueueExistingEffect ==
  ASSUME QueueTypeOK, NEW t \in Task, EnqueueExisting(t)
  PROVE  /\ QueueTypeOK'
         /\ StatusBecomes(t, "queued")
         /\ t \in taskData /\ taskData' = taskData
         /\ HasItem(t)'
         /\ \A u \in Task : HasItem(u) => HasItem(u)'
<1>1. queue' \subseteq Item /\ clock' \in Nat
  <2>1. queue \ ItemsOf(t) \in SUBSET queue
    OBVIOUS
  <2> QED BY <2>1, EnqueueType, QueueAssumption DEF EnqueueExisting
<1>2. QueueTypeOK'
  BY <1>1 DEF QueueTypeOK, EnqueueExisting, Status
<1>3. StatusBecomes(t, "queued")
  BY DEF QueueTypeOK, EnqueueExisting, StatusBecomes
<1>4. HasItem(t)'
  BY EnqueuedItem, QueueAssumption DEF EnqueueExisting
<1>5. ASSUME NEW u \in Task, HasItem(u) PROVE HasItem(u)'
  <2>1. CASE u = t
    BY <1>4, <2>1
  <2>2. CASE u # t
    BY <1>5, <2>2 DEF EnqueueExisting, Enqueue, ItemsOf, HasItem
  <2> QED BY <2>1, <2>2
<1> QED BY <1>2, <1>3, <1>4, <1>5 DEF EnqueueExisting

\* update_status changes the status of one task, and no item or data.
LEMMA UpdateStatusEffect ==
  ASSUME QueueTypeOK, NEW t \in Task, NEW s \in Status, UpdateStatus(t, s)
  PROVE  /\ QueueTypeOK'
         /\ StatusBecomes(t, s)
         /\ UNCHANGED <<queue, taskData>>
<1>1. QueueTypeOK'
  BY DEF QueueTypeOK, UpdateStatus
<1> QED BY <1>1 DEF QueueTypeOK, UpdateStatus, StatusBecomes

\* The first half of cancel_download changes nothing but the set flags.
LEMMA SignalCancelEffect ==
  ASSUME QueueTypeOK, NEW t \in Task, SignalCancel(t)
  PROVE  QueueTypeOK' /\ UNCHANGED <<queue, status, taskData>>
BY DEF QueueTypeOK, SignalCancel

\* finalize_download makes a row final that exists, and touches active rows only.
LEMMA FinalizeEffect ==
  ASSUME HistoryTypeOK, NEW t \in Task, NEW s \in Terminal, FinalizeDownload(t, s)
  PROVE  /\ HistoryTypeOK'
         /\ history'[t] # "active"
         /\ \A u \in Task : history'[u] = history[u]
                            \/ (history[u] = "active" /\ history'[u] \in Terminal)
BY DEF HistoryTypeOK, FinalizeDownload, RowStatus, Terminal

-----------------------------------------------------------------------------
(***************************************************************************)
(* The invariant is kept by every step: one lemma per thread of control,   *)
(* one step per action.  Each names first what the action changes, then    *)
(* takes the conjuncts of the invariant one by one.                        *)
(***************************************************************************)
\* A request begins.
LEMMA ClientStartsStep ==
  ASSUME IInv, NEW c \in Client, ClientRuns(c), ClientStarts(c)
  PROVE  IInv' /\ NoneLost
<1> USE DEF IInv, TypeOK, Terminal, InProgress, ClientRuns, BusyClients, ClientBusy
<1>1. ASSUME NEW t \in Task, NEW p \in Priority, QueueRelease(c, t, p)
     PROVE  IInv' /\ NoneLost
  <2>1. QueueTypeOK' /\ StatusBecomes(t, "queued") /\ taskData' = taskData \cup {t}
       /\ HasItem(t)' /\ \A u \in Task : HasItem(u) => HasItem(u)'
    BY <1>1, AddEffect, QueueAssumption DEF QueueRelease
  <2>2. client[c].pc = "idle" /\ ClientBecomes(c, "queueHook", t)
    BY <1>1, ClientAtEffect DEF QueueRelease, ClientPC
  <2>3. UNCHANGED <<history, job, coord, lastActivity, stalledTasks, restarts>>
    BY <1>1 DEF QueueRelease, OnlyClient
  <2>4. TypeOK'
    BY <2>1, <2>2, <2>3 DEF TypeOK, QueueTypeOK, HistoryTypeOK, SystemTypeOK, ClientBecomes
  <2>5. Hold'
    BY <2>1, <2>2, <2>3 DEF Hold, ClientsHold, JobsHold, CoordHolds, ClientBecomes
  <2>6. ProgressHasWorker'
    BY <2>1, <2>2, <2>3 DEF QueueTypeOK, ProgressHasWorker, Runs, Settling, StatusBecomes,
       ClientBecomes
  <2>7. QueuedHaveData' /\ NoneLost
    BY <2>1, <2>2, <2>3 DEF QueuedHaveData, NoneLost, Lost, Kept, HasItem, Runs, Settling,
       Dispatching, StatusBecomes
  <2>8. ASSUME ~NativeThreads PROVE GreenletInv'
    <3>1. QueuedNotLost'
      BY <2>8, <2>7 DEF GreenletInv, QueuedNotLost, NoneLost, Lost
    <3>2. Recorded'
      BY <2>8, <2>1, <2>2, <2>3 DEF GreenletInv, Recorded, QueueTypeOK, Hold, ClientsHold,
         StatusBecomes, ClientBecomes
    <3>3. FinishedRowNotActive'
      BY <2>8, <2>1, <2>2, <2>3 DEF GreenletInv, Recorded, QueueTypeOK,
         FinishedRowNotActive, HookPending, StatusBecomes, ClientBecomes
    <3> QED BY <3>1, <3>2, <3>3 DEF GreenletInv
  <2> QED BY <2>4, <2>5, <2>6, <2>7, <2>8 DEF IInv
<1>2. ASSUME NEW t \in Task, RestoreRequest(c, t)
     PROVE  IInv' /\ NoneLost
  <2>1. client[c].pc = "idle" /\ ClientBecomes(c, "restore", t)
    BY <1>2, ClientAtEffect DEF RestoreRequest, ClientPC
  <2>2. UNCHANGED <<queueVars, history, job, coord, lastActivity, stalledTasks, restarts>>
    BY <1>2 DEF RestoreRequest, OnlyClient
  <2>3. TypeOK'
    BY <2>1, <2>2 DEF TypeOK, QueueTypeOK, HistoryTypeOK, SystemTypeOK, ClientBecomes,
       queueVars
  <2>4. Hold'
    BY <2>1, <2>2 DEF Hold, ClientsHold, JobsHold, CoordHolds, ClientBecomes
  <2>5. ProgressHasWorker'
    BY <2>1, <2>2 DEF QueueTypeOK, ProgressHasWorker, Runs, Settling, ClientBecomes,
       queueVars
  <2>6. QueuedHaveData' /\ NoneLost
    BY <2>1, <2>2 DEF QueuedHaveData, NoneLost, Lost, Kept, Runs, Settling, Dispatching,
       queueVars
  <2>7. ASSUME ~NativeThreads PROVE GreenletInv'
    <3>1. QueuedNotLost'
      BY <2>7, <2>6 DEF GreenletInv, QueuedNotLost, NoneLost, Lost
    <3>2. Recorded'
      BY <2>7, <2>1, <2>2 DEF GreenletInv, Recorded, QueueTypeOK, Hold, ClientsHold,
         ClientBecomes, queueVars
    <3>3. FinishedRowNotActive'
      BY <2>7, <2>1, <2>2 DEF GreenletInv, Recorded, QueueTypeOK, FinishedRowNotActive,
         HookPending, ClientBecomes, queueVars
    <3> QED BY <3>1, <3>2, <3>3 DEF GreenletInv
  <2> QED BY <2>3, <2>4, <2>5, <2>6, <2>7 DEF IInv
<1>3. ASSUME NEW t \in Task, CancelRequest(c, t)
     PROVE  IInv' /\ NoneLost
  <2>1. QueueTypeOK' /\ UNCHANGED <<queue, status, taskData>>
    BY <1>3, SignalCancelEffect DEF CancelRequest
  <2>2. client[c].pc = "idle" /\ ClientBecomes(c, "cancel", t)
    BY <1>3, ClientAtEffect DEF CancelRequest, ClientPC
  <2>3. UNCHANGED <<history, job, coord, lastActivity, stalledTasks, restarts>>
    BY <1>3 DEF CancelRequest, OnlyClient
  <2>4. TypeOK'
    BY <2>1, <2>2, <2>3 DEF TypeOK, QueueTypeOK, HistoryTypeOK, SystemTypeOK, ClientBecomes
  <2>5. Hold'
    BY <2>1, <2>2, <2>3 DEF Hold, ClientsHold, JobsHold, CoordHolds, ClientBecomes
  <2>6. ProgressHasWorker'
    BY <2>1, <2>2, <2>3 DEF QueueTypeOK, ProgressHasWorker, Runs, Settling, ClientBecomes
  <2>7. QueuedHaveData' /\ NoneLost
    BY <2>1, <2>2, <2>3 DEF QueuedHaveData, NoneLost, Lost, Kept, Runs, Settling, Dispatching
  <2>8. ASSUME ~NativeThreads PROVE GreenletInv'
    <3>1. QueuedNotLost'
      BY <2>8, <2>7 DEF GreenletInv, QueuedNotLost, NoneLost, Lost
    <3>2. Recorded'
      BY <2>8, <2>1, <2>2, <2>3 DEF GreenletInv, Recorded, QueueTypeOK, Hold, ClientsHold,
         ClientBecomes
    <3>3. FinishedRowNotActive'
      BY <2>8, <2>1, <2>2, <2>3 DEF GreenletInv, Recorded, QueueTypeOK,
         FinishedRowNotActive, HookPending, ClientBecomes
    <3> QED BY <3>1, <3>2, <3>3 DEF GreenletInv
  <2> QED BY <2>4, <2>5, <2>6, <2>7, <2>8 DEF IInv
<1>4. ASSUME NEW t \in Task, RetryRequest(c, t)
     PROVE  IInv' /\ NoneLost
  <2>1. client[c].pc = "idle" /\ ClientBecomes(c, "retry", t)
    BY <1>4, ClientAtEffect DEF RetryRequest, ClientPC
  <2>2. UNCHANGED <<queueVars, history, job, coord, lastActivity, stalledTasks, restarts>>
    BY <1>4 DEF RetryRequest, OnlyClient
  <2>3. TypeOK'
    BY <2>1, <2>2 DEF TypeOK, QueueTypeOK, HistoryTypeOK, SystemTypeOK, ClientBecomes,
       queueVars
  <2>4. Hold'
    BY <2>1, <2>2 DEF Hold, ClientsHold, JobsHold, CoordHolds, ClientBecomes
  <2>5. ProgressHasWorker'
    BY <2>1, <2>2 DEF QueueTypeOK, ProgressHasWorker, Runs, Settling, ClientBecomes,
       queueVars
  <2>6. QueuedHaveData' /\ NoneLost
    BY <2>1, <2>2 DEF QueuedHaveData, NoneLost, Lost, Kept, Runs, Settling, Dispatching,
       queueVars
  <2>7. ASSUME ~NativeThreads PROVE GreenletInv'
    <3>1. QueuedNotLost'
      BY <2>7, <2>6 DEF GreenletInv, QueuedNotLost, NoneLost, Lost
    <3>2. Recorded'
      BY <2>7, <2>1, <2>2 DEF GreenletInv, Recorded, QueueTypeOK, Hold, ClientsHold,
         ClientBecomes, queueVars
    <3>3. FinishedRowNotActive'
      BY <2>7, <2>1, <2>2 DEF GreenletInv, Recorded, QueueTypeOK, FinishedRowNotActive,
         HookPending, ClientBecomes, queueVars
    <3> QED BY <3>1, <3>2, <3>3 DEF GreenletInv
  <2> QED BY <2>3, <2>4, <2>5, <2>6, <2>7 DEF IInv
<1> QED BY <1>1, <1>2, <1>3, <1>4 DEF ClientStarts

\* A request goes on.
LEMMA ClientFinishesStep ==
  ASSUME IInv, NEW c \in Client, ClientRuns(c), ClientFinishes(c)
  PROVE  IInv' /\ NoneLost
<1> USE DEF IInv, TypeOK, Terminal, InProgress, ClientRuns, BusyClients, ClientBusy
<1>1. ASSUME RunQueueHook(c)
     PROVE  IInv' /\ NoneLost
  <2>1. PICK t \in Task : client[c].pc = "queueHook" /\ client[c].task = t
    BY <1>1 DEF RunQueueHook, Hold, ClientsHold
  <2>2. ClientBecomes(c, "idle", NoTask)
    BY <1>1, ClientDoneEffect DEF RunQueueHook
  <2>3. HistoryTypeOK' /\ history'[t] = "active"
       /\ \A u \in Task \ {t} : history'[u] = history[u]
    BY <1>1, <2>1 DEF RunQueueHook, RecordDownload, HistoryTypeOK, RowStatus
  <2>4. UNCHANGED <<queueVars, job, coord, lastActivity, stalledTasks, restarts>>
    BY <1>1 DEF RunQueueHook, OnlyClient
  <2>5. TypeOK'
    BY <2>1, <2>2, <2>3, <2>4 DEF TypeOK, QueueTypeOK, HistoryTypeOK, SystemTypeOK,
       ClientBecomes, queueVars
  <2>6. Hold'
    BY <2>1, <2>2, <2>3, <2>4 DEF Hold, ClientsHold, JobsHold, CoordHolds, ClientBecomes
  <2>7. ProgressHasWorker'
    BY <2>1, <2>2, <2>3, <2>4 DEF QueueTypeOK, ProgressHasWorker, Runs, Settling,
       ClientBecomes, queueVars
  <2>8. QueuedHaveData' /\ NoneLost
    BY <2>1, <2>2, <2>3, <2>4 DEF QueuedHaveData, NoneLost, Lost, Kept, Runs, Settling,
       Dispatching, queueVars
  <2>9. ASSUME ~NativeThreads PROVE GreenletInv'
    <3>1. QueuedNotLost'
      BY <2>9, <2>8 DEF GreenletInv, QueuedNotLost, NoneLost, Lost
    <3>2. Recorded'
      BY <2>9, <2>1, <2>2, <2>3, <2>4 DEF GreenletInv, Recorded, QueueTypeOK, Hold,
         ClientsHold, ClientBecomes, queueVars
    <3>3. FinishedRowNotActive'
      BY <2>9, <2>1, <2>2, <2>3, <2>4 DEF GreenletInv, Recorded, QueueTypeOK,
         FinishedRowNotActive, HookPending, ClientBecomes, queueVars
    <3> QED BY <3>1, <3>2, <3>3 DEF GreenletInv
  <2> QED BY <2>5, <2>6, <2>7, <2>8, <2>9 DEF IInv
<1>2. ASSUME CancelUpdate(c)
     PROVE  IInv' /\ NoneLost
  <2>1. PICK t \in Task : client[c].pc = "cancel" /\ client[c].task = t
    BY <1>2 DEF CancelUpdate, Hold, ClientsHold
  <2>2. QueueTypeOK' /\ StatusBecomes(t, "cancelled") /\ UNCHANGED <<queue, taskData>>
    BY <1>2, <2>1, UpdateStatusEffect DEF CancelUpdate, Status
  <2>3. \/ ClientBecomes(c, "terminalHook", t)
        \/ ClientBecomes(c, "idle", NoTask) /\ ~HookDue(t, "cancelled")
    BY <1>2, <2>1, ClientAtEffect, ClientDoneEffect DEF CancelUpdate, ClientPC, HookDue
  <2>4. UNCHANGED <<history, job, coord, lastActivity, stalledTasks, restarts>>
    BY <1>2 DEF CancelUpdate, OnlyClient
  <2>5. TypeOK'
    BY <2>1, <2>2, <2>3, <2>4 DEF TypeOK, QueueTypeOK, HistoryTypeOK, SystemTypeOK,
       ClientBecomes
  <2>6. Hold'
    BY <2>1, <2>2, <2>3, <2>4 DEF Hold, ClientsHold, JobsHold, CoordHolds, ClientBecomes
  <2>7. ProgressHasWorker'
    BY <2>1, <2>2, <2>3, <2>4 DEF QueueTypeOK, ProgressHasWorker, Runs, Settling,
       StatusBecomes, ClientBecomes
  <2>8. QueuedHaveData' /\ NoneLost
    BY <2>1, <2>2, <2>3, <2>4 DEF QueuedHaveData, NoneLost, Lost, Kept, Runs, Settling,
       Dispatching, StatusBecomes
  <2>9. ASSUME ~NativeThreads PROVE GreenletInv'
    <3>1. QueuedNotLost'
      BY <2>9, <2>8 DEF GreenletInv, QueuedNotLost, NoneLost, Lost
    <3>2. Recorded'
      BY <2>9, <2>1, <2>2, <2>3, <2>4 DEF GreenletInv, Recorded, QueueTypeOK, Hold,
         ClientsHold, StatusBecomes, ClientBecomes
    <3>3. FinishedRowNotActive'
      BY <2>9, <2>1, <2>2, <2>3, <2>4 DEF GreenletInv, Recorded, QueueTypeOK,
         FinishedRowNotActive, HookPending, HookDue, StatusBecomes, ClientBecomes
    <3> QED BY <3>1, <3>2, <3>3 DEF GreenletInv
  <2> QED BY <2>5, <2>6, <2>7, <2>8, <2>9 DEF IInv
<1>3. ASSUME RunTerminalHook(c)
     PROVE  IInv' /\ NoneLost
  <2>1. PICK t \in Task : client[c].pc = "terminalHook" /\ client[c].task = t
    BY <1>3 DEF RunTerminalHook, Hold, ClientsHold
  <2>2. ClientBecomes(c, "idle", NoTask)
    BY <1>3, ClientDoneEffect DEF RunTerminalHook
  <2>3. HistoryTypeOK' /\ history'[t] # "active"
       /\ \A u \in Task : history'[u] = history[u]
                          \/ (history[u] = "active" /\ history'[u] \in Terminal)
    BY <1>3, <2>1, FinalizeEffect DEF RunTerminalHook
  <2>4. UNCHANGED <<queueVars, job, coord, lastActivity, stalledTasks, restarts>>
    BY <1>3 DEF RunTerminalHook, OnlyClient
  <2>5. TypeOK'
    BY <2>1, <2>2, <2>3, <2>4 DEF TypeOK, QueueTypeOK, HistoryTypeOK, SystemTypeOK,
       ClientBecomes, queueVars
  <2>6. Hold'
    BY <2>1, <2>2, <2>3, <2>4 DEF Hold, ClientsHold, JobsHold, CoordHolds, ClientBecomes
  <2>7. ProgressHasWorker'
    BY <2>1, <2>2, <2>3, <2>4 DEF QueueTypeOK, ProgressHasWorker, Runs, Settling,
       ClientBecomes, queueVars
  <2>8. QueuedHaveData' /\ NoneLost
    BY <2>1, <2>2, <2>3, <2>4 DEF QueuedHaveData, NoneLost, Lost, Kept, Runs, Settling,
       Dispatching, queueVars
  <2>9. ASSUME ~NativeThreads PROVE GreenletInv'
    <3>1. QueuedNotLost'
      BY <2>9, <2>8 DEF GreenletInv, QueuedNotLost, NoneLost, Lost
    <3>2. Recorded'
      BY <2>9, <2>1, <2>2, <2>3, <2>4 DEF GreenletInv, Recorded, QueueTypeOK, Hold,
         ClientsHold, ClientBecomes, queueVars
    <3>3. FinishedRowNotActive'
      BY <2>9, <2>1, <2>2, <2>3, <2>4 DEF GreenletInv, Recorded, QueueTypeOK,
         FinishedRowNotActive, HookPending, ClientBecomes, queueVars
    <3> QED BY <3>1, <3>2, <3>3 DEF GreenletInv
  <2> QED BY <2>5, <2>6, <2>7, <2>8, <2>9 DEF IInv
<1>4. ASSUME RetryEnqueue(c), client[c].task \in taskData
     PROVE  IInv' /\ NoneLost
  <2>1. PICK t \in Task : client[c].pc = "retry" /\ client[c].task = t
    BY <1>4 DEF RetryEnqueue, Hold, ClientsHold
  <2>2. QueueTypeOK' /\ StatusBecomes(t, "queued") /\ t \in taskData /\ taskData' = taskData
       /\ HasItem(t)' /\ \A u \in Task : HasItem(u) => HasItem(u)'
    BY <1>4, <2>1, EnqueueExistingEffect DEF RetryEnqueue
  <2>3. ClientBecomes(c, "queueHook", t)
    BY <1>4, <2>1, ClientAtEffect DEF RetryEnqueue, ClientPC
  <2>4. UNCHANGED <<history, job, coord, lastActivity, stalledTasks, restarts>>
    BY <1>4 DEF RetryEnqueue, OnlyClient
  <2>5. TypeOK'
    BY <2>1, <2>2, <2>3, <2>4 DEF TypeOK, QueueTypeOK, HistoryTypeOK, SystemTypeOK,
       ClientBecomes
  <2>6. Hold'
    BY <2>1, <2>2, <2>3, <2>4 DEF Hold, ClientsHold, JobsHold, CoordHolds, ClientBecomes
  <2>7. ProgressHasWorker'
    BY <2>1, <2>2, <2>3, <2>4 DEF QueueTypeOK, ProgressHasWorker, Runs, Settling,
       StatusBecomes, ClientBecomes
  <2>8. QueuedHaveData' /\ NoneLost
    BY <2>1, <2>2, <2>3, <2>4 DEF QueuedHaveData, NoneLost, Lost, Kept, HasItem, Runs,
       Settling, Dispatching, StatusBecomes
  <2>9. ASSUME ~NativeThreads PROVE GreenletInv'
    <3>1. QueuedNotLost'
      BY <2>9, <2>8 DEF GreenletInv, QueuedNotLost, NoneLost, Lost
    <3>2. Recorded'
      BY <2>9, <2>1, <2>2, <2>3, <2>4 DEF GreenletInv, Recorded, QueueTypeOK, Hold,
         ClientsHold, StatusBecomes, ClientBecomes
    <3>3. FinishedRowNotActive'
      BY <2>9, <2>1, <2>2, <2>3, <2>4 DEF GreenletInv, Recorded, QueueTypeOK,
         FinishedRowNotActive, HookPending, StatusBecomes, ClientBecomes
    <3> QED BY <3>1, <3>2, <3>3 DEF GreenletInv
  <2> QED BY <2>5, <2>6, <2>7, <2>8, <2>9 DEF IInv
<1>5. ASSUME RetryEnqueue(c), client[c].task \notin taskData
     PROVE  IInv' /\ NoneLost
  <2>1. client[c].pc = "retry"
    BY <1>5 DEF RetryEnqueue
  <2>2. ClientBecomes(c, "idle", NoTask)
    BY <1>5, ClientDoneEffect DEF RetryEnqueue, EnqueueExisting
  <2>3. UNCHANGED <<queueVars, history, job, coord, lastActivity, stalledTasks, restarts>>
    BY <1>5 DEF RetryEnqueue, EnqueueExisting, OnlyClient
  <2>4. TypeOK'
    BY <2>1, <2>2, <2>3 DEF TypeOK, QueueTypeOK, HistoryTypeOK, SystemTypeOK, ClientBecomes,
       queueVars
  <2>5. Hold'
    BY <2>1, <2>2, <2>3 DEF Hold, ClientsHold, JobsHold, CoordHolds, ClientBecomes
  <2>6. ProgressHasWorker'
    BY <2>1, <2>2, <2>3 DEF QueueTypeOK, ProgressHasWorker, Runs, Settling, ClientBecomes,
       queueVars
  <2>7. QueuedHaveData' /\ NoneLost
    BY <2>1, <2>2, <2>3 DEF QueuedHaveData, NoneLost, Lost, Kept, Runs, Settling,
       Dispatching, queueVars
  <2>8. ASSUME ~NativeThreads PROVE GreenletInv'
    <3>1. QueuedNotLost'
      BY <2>8, <2>7 DEF GreenletInv, QueuedNotLost, NoneLost, Lost
    <3>2. Recorded'
      BY <2>8, <2>1, <2>2, <2>3 DEF GreenletInv, Recorded, QueueTypeOK, Hold, ClientsHold,
         ClientBecomes, queueVars
    <3>3. FinishedRowNotActive'
      BY <2>8, <2>1, <2>2, <2>3 DEF GreenletInv, Recorded, QueueTypeOK,
         FinishedRowNotActive, HookPending, ClientBecomes, queueVars
    <3> QED BY <3>1, <3>2, <3>3 DEF GreenletInv
  <2> QED BY <2>4, <2>5, <2>6, <2>7, <2>8 DEF IInv
<1>6. ASSUME RestoreAdd(c), Addable(client[c].task)
     PROVE  IInv' /\ NoneLost
  <2>1. PICK t \in Task : client[c].pc = "restore" /\ client[c].task = t
    BY <1>6 DEF RestoreAdd, Hold, ClientsHold
  <2>2. QueueTypeOK' /\ StatusBecomes(t, "queued") /\ taskData' = taskData \cup {t}
       /\ HasItem(t)' /\ \A u \in Task : HasItem(u) => HasItem(u)'
    BY <1>6, <2>1, AddEffect, QueueAssumption DEF RestoreAdd
  <2>3. ClientBecomes(c, "queueHook", t)
    BY <1>6, <2>1, ClientAtEffect DEF RestoreAdd, ClientPC
  <2>4. UNCHANGED <<history, job, coord, lastActivity, stalledTasks, restarts>>
    BY <1>6 DEF RestoreAdd, OnlyClient
  <2>5. TypeOK'
    BY <2>1, <2>2, <2>3, <2>4 DEF TypeOK, QueueTypeOK, HistoryTypeOK, SystemTypeOK,
       ClientBecomes
  <2>6. Hold'
    BY <2>1, <2>2, <2>3, <2>4 DEF Hold, ClientsHold, JobsHold, CoordHolds, ClientBecomes
  <2>7. ProgressHasWorker'
    BY <2>1, <2>2, <2>3, <2>4 DEF QueueTypeOK, ProgressHasWorker, Runs, Settling,
       StatusBecomes, ClientBecomes
  <2>8. QueuedHaveData' /\ NoneLost
    BY <2>1, <2>2, <2>3, <2>4 DEF QueuedHaveData, NoneLost, Lost, Kept, HasItem, Runs,
       Settling, Dispatching, StatusBecomes
  <2>9. ASSUME ~NativeThreads PROVE GreenletInv'
    <3>1. QueuedNotLost'
      BY <2>9, <2>8 DEF GreenletInv, QueuedNotLost, NoneLost, Lost
    <3>2. Recorded'
      BY <2>9, <2>1, <2>2, <2>3, <2>4 DEF GreenletInv, Recorded, QueueTypeOK, Hold,
         ClientsHold, StatusBecomes, ClientBecomes
    <3>3. FinishedRowNotActive'
      BY <2>9, <2>1, <2>2, <2>3, <2>4 DEF GreenletInv, Recorded, QueueTypeOK,
         FinishedRowNotActive, HookPending, StatusBecomes, ClientBecomes
    <3> QED BY <3>1, <3>2, <3>3 DEF GreenletInv
  <2> QED BY <2>5, <2>6, <2>7, <2>8, <2>9 DEF IInv
<1>7. ASSUME RestoreAdd(c), ~Addable(client[c].task)
     PROVE  IInv' /\ NoneLost
  <2>1. client[c].pc = "restore"
    BY <1>7 DEF RestoreAdd
  <2>2. ClientBecomes(c, "idle", NoTask)
    BY <1>7, ClientDoneEffect DEF RestoreAdd, Add
  <2>3. UNCHANGED <<queueVars, history, job, coord, lastActivity, stalledTasks, restarts>>
    BY <1>7 DEF RestoreAdd, Add, OnlyClient
  <2>4. TypeOK'
    BY <2>1, <2>2, <2>3 DEF TypeOK, QueueTypeOK, HistoryTypeOK, SystemTypeOK, ClientBecomes,
       queueVars
  <2>5. Hold'
    BY <2>1, <2>2, <2>3 DEF Hold, ClientsHold, JobsHold, CoordHolds, ClientBecomes
  <2>6. ProgressHasWorker'
    BY <2>1, <2>2, <2>3 DEF QueueTypeOK, ProgressHasWorker, Runs, Settling, ClientBecomes,
       queueVars
  <2>7. QueuedHaveData' /\ NoneLost
    BY <2>1, <2>2, <2>3 DEF QueuedHaveData, NoneLost, Lost, Kept, Runs, Settling,
       Dispatching, queueVars
  <2>8. ASSUME ~NativeThreads PROVE GreenletInv'
    <3>1. QueuedNotLost'
      BY <2>8, <2>7 DEF GreenletInv, QueuedNotLost, NoneLost, Lost
    <3>2. Recorded'
      BY <2>8, <2>1, <2>2, <2>3 DEF GreenletInv, Recorded, QueueTypeOK, Hold, ClientsHold,
         ClientBecomes, queueVars
    <3>3. FinishedRowNotActive'
      BY <2>8, <2>1, <2>2, <2>3 DEF GreenletInv, Recorded, QueueTypeOK,
         FinishedRowNotActive, HookPending, ClientBecomes, queueVars
    <3> QED BY <3>1, <3>2, <3>3 DEF GreenletInv
  <2> QED BY <2>4, <2>5, <2>6, <2>7, <2>8 DEF IInv
<1> QED BY <1>1, <1>2, <1>3, <1>4, <1>5, <1>6, <1>7 DEF ClientFinishes

\* A worker goes from one part of _process_single_download to the next.
JobMoves(w, pc, o) ==
  /\ JobBecomes(w, pc, o)
  /\ job[w].pc \in {"submitted", "download", "quiet", "post", "finish", "fail"}
  /\ pc \in {"download", "quiet", "post", "finish", "fail", "write", "raised", "done"}
  /\ pc = "write" => o \in Terminal
  /\ pc = "done" => job[w].task \notin taskData
  /\ lastActivity' \subseteq Task
  /\ UNCHANGED <<queueVars, history, client, coord, stalledTasks, restarts>>

\* A worker that moves on keeps the invariant.
LEMMA JobMovesStep ==
  ASSUME IInv, NEW w \in Worker, NEW pc, NEW o, JobMoves(w, pc, o)
  PROVE  IInv' /\ NoneLost
<1> USE DEF IInv, TypeOK, Terminal, InProgress, JobMoves, JobBecomes, queueVars
<1>1. TypeOK'
  BY DEF TypeOK, QueueTypeOK, HistoryTypeOK, SystemTypeOK
<1>2. Hold'
  BY DEF Hold, ClientsHold, JobsHold, CoordHolds
<1>3. ProgressHasWorker'
  BY DEF QueueTypeOK, ProgressHasWorker, Runs, Settling
<1>4. QueuedHaveData' /\ NoneLost
  BY DEF QueuedHaveData, NoneLost, Lost, Kept, Runs, Settling, Dispatching
<1>5. ASSUME ~NativeThreads PROVE GreenletInv'
  <2>1. QueuedNotLost'
    BY <1>5, <1>4 DEF GreenletInv, QueuedNotLost, NoneLost, Lost
  <2>2. Recorded'
    BY <1>5 DEF GreenletInv, Recorded
  <2>3. FinishedRowNotActive'
    BY <1>5 DEF GreenletInv, FinishedRowNotActive, HookPending
  <2> QED BY <2>1, <2>2, <2>3 DEF GreenletInv
<1> QED BY <1>1, <1>2, <1>3, <1>4, <1>5 DEF IInv


\* A worker goes on, or calls back.
LEMMA JobStep ==
  ASSUME IInv, NEW w \in Worker, JobRuns(w), JobAdvances(w) \/ HandlerMoves(w)
  PROVE  IInv' /\ NoneLost
<1> USE DEF IInv, TypeOK, Terminal, InProgress, JobRuns, BusyClients, ClientBusy
<1>1. ASSUME WriteOutcome(w)
     PROVE  IInv' /\ NoneLost
  <2>1. PICK t \in Task : job[w].pc = "write" /\ job[w].task = t /\ job[w].outcome \in Terminal
    BY <1>1 DEF WriteOutcome, Hold, JobsHold
  <2>2. PICK s \in Terminal : job[w].outcome = s
    BY <1>1, <2>1
  <2>3. QueueTypeOK' /\ StatusBecomes(t, s) /\ UNCHANGED <<queue, taskData>>
    BY <1>1, <2>1, <2>2, UpdateStatusEffect DEF WriteOutcome, Status
  <2>4. \/ JobBecomes(w, "hook", s)
        \/ JobBecomes(w, "done", s) /\ ~HookDue(t, s)
    BY <1>1, <2>1, <2>2, JobAtEffect DEF WriteOutcome, JobPC, HookDue
  <2>5. UNCHANGED <<history, lastActivity, client, coord, stalledTasks, restarts>>
    BY <1>1 DEF WriteOutcome, OnlyJob
  <2>6. TypeOK'
    BY <2>1, <2>2, <2>3, <2>4, <2>5 DEF TypeOK, QueueTypeOK, HistoryTypeOK, SystemTypeOK,
       JobBecomes
  <2>7. Hold'
    BY <2>1, <2>2, <2>3, <2>4, <2>5 DEF Hold, ClientsHold, JobsHold, CoordHolds, JobBecomes
  <2>8. ProgressHasWorker'
    BY <2>1, <2>2, <2>3, <2>4, <2>5 DEF QueueTypeOK, ProgressHasWorker, Runs, Settling,
       StatusBecomes, JobBecomes
  <2>9. QueuedHaveData' /\ NoneLost
    BY <2>1, <2>2, <2>3, <2>4, <2>5 DEF QueuedHaveData, NoneLost, Lost, Kept, Runs,
       Settling, Dispatching, StatusBecomes, JobBecomes
  <2>10. ASSUME ~NativeThreads PROVE GreenletInv'
    <3>1. QueuedNotLost'
      BY <2>10, <2>9 DEF GreenletInv, QueuedNotLost, NoneLost, Lost
    <3>2. Recorded'
      BY <2>10, <2>1, <2>2, <2>3, <2>4, <2>5 DEF GreenletInv, Recorded, QueueTypeOK, Hold,
         ClientsHold, StatusBecomes
    <3>3. FinishedRowNotActive'
      BY <2>10, <2>1, <2>2, <2>3, <2>4, <2>5 DEF GreenletInv, Recorded, QueueTypeOK,
         FinishedRowNotActive, HookPending, HookDue, StatusBecomes, JobBecomes
    <3> QED BY <3>1, <3>2, <3>3 DEF GreenletInv
  <2> QED BY <2>6, <2>7, <2>8, <2>9, <2>10 DEF IInv
<1>2. ASSUME RunJobHook(w)
     PROVE  IInv' /\ NoneLost
  <2>1. PICK t \in Task : job[w].pc = "hook" /\ job[w].task = t /\ job[w].outcome \in Terminal
    BY <1>2 DEF RunJobHook, Hold, JobsHold
  <2>2. HistoryTypeOK' /\ history'[t] # "active"
       /\ \A u \in Task : history'[u] = history[u]
                          \/ (history[u] = "active" /\ history'[u] \in Terminal)
    BY <1>2, <2>1, FinalizeEffect DEF RunJobHook
  <2>3. JobBecomes(w, "done", job[w].outcome)
    BY <1>2, JobAtEffect DEF RunJobHook, JobPC
  <2>4. UNCHANGED <<queueVars, lastActivity, client, coord, stalledTasks, restarts>>
    BY <1>2 DEF RunJobHook, OnlyJob
  <2>5. TypeOK'
    BY <2>1, <2>2, <2>3, <2>4 DEF TypeOK, QueueTypeOK, HistoryTypeOK, SystemTypeOK,
       JobBecomes, queueVars
  <2>6. Hold'
    BY <2>1, <2>2, <2>3, <2>4 DEF Hold, ClientsHold, JobsHold, CoordHolds, JobBecomes
  <2>7. ProgressHasWorker'
    BY <2>1, <2>2, <2>3, <2>4 DEF QueueTypeOK, ProgressHasWorker, Runs, Settling,
       JobBecomes, queueVars
  <2>8. QueuedHaveData' /\ NoneLost
    BY <2>1, <2>2, <2>3, <2>4 DEF QueuedHaveData, NoneLost, Lost, Kept, Runs, Settling,
       Dispatching, JobBecomes, queueVars
  <2>9. ASSUME ~NativeThreads PROVE GreenletInv'
    <3>1. QueuedNotLost'
      BY <2>9, <2>8 DEF GreenletInv, QueuedNotLost, NoneLost, Lost
    <3>2. Recorded'
      BY <2>9, <2>1, <2>2, <2>3, <2>4 DEF GreenletInv, Recorded, QueueTypeOK, Hold,
         ClientsHold, queueVars
    <3>3. FinishedRowNotActive'
      BY <2>9, <2>1, <2>2, <2>3, <2>4 DEF GreenletInv, Recorded, QueueTypeOK,
         FinishedRowNotActive, HookPending, JobBecomes, queueVars
    <3> QED BY <3>1, <3>2, <3>3 DEF GreenletInv
  <2> QED BY <2>5, <2>6, <2>7, <2>8, <2>9 DEF IInv
<1>3. ASSUME Progress(w)
     PROVE  IInv' /\ NoneLost
  <2>1. job[w].pc = "download" /\ job[w].task \in Task
    BY <1>3 DEF Progress, Hold, JobsHold
  <2>2. lastActivity' = lastActivity \cup {job[w].task}
    BY <1>3 DEF Progress
  <2>3. UNCHANGED <<queueVars, history, job, client, coord, stalledTasks, restarts>>
    BY <1>3 DEF Progress, OnlyJob
  <2>4. TypeOK'
    BY <2>1, <2>2, <2>3 DEF TypeOK, QueueTypeOK, HistoryTypeOK, SystemTypeOK, queueVars
  <2>5. Hold'
    BY <2>1, <2>2, <2>3 DEF Hold, ClientsHold, JobsHold, CoordHolds
  <2>6. ProgressHasWorker'
    BY <2>1, <2>2, <2>3 DEF QueueTypeOK, ProgressHasWorker, Runs, Settling, queueVars
  <2>7. QueuedHaveData' /\ NoneLost
    BY <2>1, <2>2, <2>3 DEF QueuedHaveData, NoneLost, Lost, Kept, Runs, Settling,
       Dispatching, queueVars
  <2>8. ASSUME ~NativeThreads PROVE GreenletInv'
    <3>1. QueuedNotLost'
      BY <2>8, <2>7 DEF GreenletInv, QueuedNotLost, NoneLost, Lost
    <3>2. Recorded'
      BY <2>8, <2>1, <2>2, <2>3 DEF GreenletInv, Recorded, QueueTypeOK, Hold, ClientsHold,
         queueVars
    <3>3. FinishedRowNotActive'
      BY <2>8, <2>1, <2>2, <2>3 DEF GreenletInv, Recorded, QueueTypeOK,
         FinishedRowNotActive, HookPending, queueVars
    <3> QED BY <3>1, <3>2, <3>3 DEF GreenletInv
  <2> QED BY <2>4, <2>5, <2>6, <2>7, <2>8 DEF IInv
<1>4. ASSUME NEW s \in Reported, Report(w, s)
     PROVE  IInv' /\ NoneLost
  <2>1. PICK t \in Task : job[w].pc \in {"download", "post"} /\ job[w].task = t
    BY <1>4 DEF Report, Hold, JobsHold
  <2>2. s \in InProgress /\ QueueTypeOK' /\ StatusBecomes(t, s) /\ UNCHANGED <<queue,
  taskData>>
    BY <1>4, <2>1, UpdateStatusEffect, SystemAssumption DEF Report, Status
  <2>3. lastActivity' = lastActivity \cup {job[w].task}
    BY <1>4 DEF Report
  <2>4. UNCHANGED <<history, job, client, coord, stalledTasks, restarts>>
    BY <1>4 DEF Report, OnlyJob
  <2>5. TypeOK'
    BY <2>1, <2>2, <2>3, <2>4 DEF TypeOK, QueueTypeOK, HistoryTypeOK, SystemTypeOK
  <2>6. Hold'
    BY <2>1, <2>2, <2>3, <2>4 DEF Hold, ClientsHold, JobsHold, CoordHolds
  <2>7. ProgressHasWorker'
    BY <2>1, <2>2, <2>3, <2>4 DEF QueueTypeOK, ProgressHasWorker, Runs, Settling,
       StatusBecomes
  <2>8. QueuedHaveData' /\ NoneLost
    BY <2>1, <2>2, <2>3, <2>4 DEF QueuedHaveData, NoneLost, Lost, Kept, Runs, Settling,
       Dispatching, StatusBecomes
  <2>9. ASSUME ~NativeThreads PROVE GreenletInv'
    <3>1. QueuedNotLost'
      BY <2>9, <2>8 DEF GreenletInv, QueuedNotLost, NoneLost, Lost
    <3>2. Recorded'
      BY <2>9, <2>1, <2>2, <2>3, <2>4 DEF GreenletInv, Recorded, QueueTypeOK, Hold,
         ClientsHold, StatusBecomes
    <3>3. FinishedRowNotActive'
      BY <2>9, <2>1, <2>2, <2>3, <2>4 DEF GreenletInv, Recorded, QueueTypeOK,
         FinishedRowNotActive, HookPending, StatusBecomes
    <3> QED BY <3>1, <3>2, <3>3 DEF GreenletInv
  <2> QED BY <2>5, <2>6, <2>7, <2>8, <2>9 DEF IInv
<1>5. ASSUME StartJob(w)
     PROVE  IInv' /\ NoneLost
  <2>1. \E pc \in JobPC, o \in Outcome : JobMoves(w, pc, o)
    BY <1>5, JobAtEffect, JobEndsWithEffect DEF StartJob, OnlyJob, JobMoves, JobPC, Outcome,
       SystemTypeOK
  <2> QED BY <2>1, JobMovesStep
<1>6. ASSUME HandlerReturns(w)
     PROVE  IInv' /\ NoneLost
  <2>1. \E pc \in JobPC, o \in Outcome : JobMoves(w, pc, o)
    BY <1>6, JobAtEffect, JobEndsWithEffect DEF HandlerReturns, OnlyJob, JobMoves, JobPC,
       Outcome, SystemTypeOK
  <2> QED BY <2>1, JobMovesStep
<1>7. ASSUME PostProcessReturns(w)
     PROVE  IInv' /\ NoneLost
  <2>1. \E pc \in JobPC, o \in Outcome : JobMoves(w, pc, o)
    BY <1>7, JobAtEffect, JobEndsWithEffect DEF PostProcessReturns, OnlyJob, JobMoves,
       JobPC, Outcome, SystemTypeOK
  <2> QED BY <2>1, JobMovesStep
<1>8. ASSUME FinishJob(w)
     PROVE  IInv' /\ NoneLost
  <2>1. \E pc \in JobPC, o \in Outcome : JobMoves(w, pc, o)
    BY <1>8, JobAtEffect, JobEndsWithEffect DEF FinishJob, OnlyJob, JobMoves, JobPC,
       Outcome, SystemTypeOK
  <2> QED BY <2>1, JobMovesStep
<1>9. ASSUME FailJob(w)
     PROVE  IInv' /\ NoneLost
  <2>1. \E pc \in JobPC, o \in Outcome : JobMoves(w, pc, o)
    BY <1>9, JobAtEffect, JobEndsWithEffect DEF FailJob, OnlyJob, JobMoves, JobPC, Outcome,
       SystemTypeOK
  <2> QED BY <2>1, JobMovesStep
<1>10. ASSUME HandlerGoesQuiet(w)
     PROVE  IInv' /\ NoneLost
  <2>1. \E pc \in JobPC, o \in Outcome : JobMoves(w, pc, o)
    BY <1>10, JobAtEffect DEF HandlerGoesQuiet, OnlyJob, JobMoves, JobPC, Outcome,
       SystemTypeOK
  <2> QED BY <2>1, JobMovesStep
<1> QED BY <1>1, <1>2, <1>3, <1>4, <1>5, <1>6, <1>7, <1>8, <1>9, <1>10 DEF JobAdvances,
           HandlerMoves

\* Harvesting empties the slot of a finished job.
JobBecomesIdle(w) ==
  /\ job' \in [Worker -> [pc : JobPC, task : Task \cup {NoTask},
                          flag : Flag \cup {NoFlag}, outcome : Outcome]]
  /\ job'[w].pc = "idle"
  /\ \A v \in Worker \ {w} : job'[v] = job[v]

\* Harvesting a future changes nothing of the queue but the set flags.
LEMMA HarvestEffect ==
  ASSUME QueueTypeOK, SystemTypeOK, NEW w \in Worker, Harvest(w)
  PROVE  /\ JobBecomesIdle(w) /\ QueueTypeOK' /\ stalledTasks' \subseteq Task
         /\ coord.pc = "idle"
         /\ UNCHANGED <<status, queue, taskData, history, client, restarts>>
<1>1. JobBecomesIdle(w)
  BY DEF SystemTypeOK, Harvest, IdleJob, JobBecomesIdle, JobPC, Outcome
<1>2. QueueTypeOK'
  BY DEF QueueTypeOK, Harvest
<1> QED BY <1>1, <1>2 DEF SystemTypeOK, Harvest, CoordIn

JobStarts(w, t) ==
  /\ job' \in [Worker -> [pc : JobPC, task : Task \cup {NoTask},
                          flag : Flag \cup {NoFlag}, outcome : Outcome]]
  /\ job'[w].pc = "submitted" /\ job'[w].task = t
  /\ \A v \in Worker \ {w} : job'[v] = job[v]

\* The flag get_next registers is one of the flags there are.
LEMMA ClaimedFlag == DispatchClaim /\ Claim(coord.task, NewFlag) => NewFlag \in Flag
<1> SUFFICES ASSUME DispatchClaim, Claim(coord.task, NewFlag) PROVE NewFlag \in Flag
  OBVIOUS
<1>1. status[coord.task] # "cancelled"
  BY DEF Claim
<1>2. Flag \ FlagsInUse # {}
  BY <1>1 DEF DispatchClaim, SkipClaim
<1>3. \E f \in Flag : f \notin FlagsInUse
  BY <1>2
<1> QED BY <1>3 DEF NewFlag

\* The coordinator goes on.
LEMMA CoordStep ==
  ASSUME IInv, CoordRuns, CoordAdvances
  PROVE  IInv' /\ NoneLost
<1> USE DEF IInv, TypeOK, Terminal, InProgress, CoordRuns, BusyClients, ClientBusy
<1>1. ASSUME NEW w \in Worker, HarvestDone(w)
     PROVE  IInv' /\ NoneLost
  <2>1. /\ job[w].pc = "done" /\ JobBecomesIdle(w) /\ QueueTypeOK'
        /\ stalledTasks' \subseteq Task /\ coord.pc = "idle"
    BY <1>1, HarvestEffect DEF HarvestDone
  <2>2. UNCHANGED <<status, queue, taskData, history, client, restarts, coord, lastActivity>>
    BY <1>1 DEF HarvestDone, Harvest
  <2>3. TypeOK'
    BY <2>1, <2>2 DEF TypeOK, QueueTypeOK, HistoryTypeOK, SystemTypeOK, JobBecomesIdle
  <2>4. Hold'
    BY <2>1, <2>2 DEF Hold, ClientsHold, JobsHold, CoordHolds, JobBecomesIdle
  <2>5. ProgressHasWorker'
    BY <2>1, <2>2 DEF QueueTypeOK, ProgressHasWorker, Runs, Settling, JobBecomesIdle
  <2>6. QueuedHaveData' /\ NoneLost
    BY <2>1, <2>2 DEF QueuedHaveData, NoneLost, Lost, Kept, Runs, Settling, Dispatching,
       JobBecomesIdle
  <2>7. ASSUME ~NativeThreads PROVE GreenletInv'
    <3>1. QueuedNotLost'
      BY <2>7, <2>6 DEF GreenletInv, QueuedNotLost, NoneLost, Lost
    <3>2. Recorded'
      BY <2>7, <2>1, <2>2 DEF GreenletInv, Recorded, QueueTypeOK, Hold, ClientsHold
    <3>3. FinishedRowNotActive'
      BY <2>7, <2>1, <2>2 DEF GreenletInv, FinishedRowNotActive, HookPending, JobBecomesIdle
    <3> QED BY <3>1, <3>2, <3>3 DEF GreenletInv
  <2> QED BY <2>3, <2>4, <2>5, <2>6, <2>7 DEF IInv
<1>2. ASSUME NEW w \in Worker, HarvestRaised(w)
     PROVE  IInv' /\ NoneLost
  <2>1. PICK t \in Task : job[w].pc = "raised" /\ job[w].task = t
    BY <1>2 DEF HarvestRaised, Hold, JobsHold
  <2>2. JobBecomesIdle(w) /\ QueueTypeOK' /\ stalledTasks' \subseteq Task /\ coord.pc = "idle"
    BY <1>2, HarvestEffect DEF HarvestRaised
  <2>3. lastActivity' = lastActivity \ {t}
    BY <1>2, <2>1 DEF HarvestRaised
  <2>4. CoordBecomes(t, "write", "cancelled") \/ CoordBecomes(t, "fail", "none")
    BY <1>2, <2>1, CoordHasEffect DEF HarvestRaised, CoordPC, Outcome
  <2>5. UNCHANGED <<status, queue, taskData, history, client, restarts>>
    BY <1>2 DEF HarvestRaised, Harvest
  <2>6. TypeOK'
    BY <2>1, <2>2, <2>3, <2>4, <2>5 DEF TypeOK, QueueTypeOK, HistoryTypeOK, SystemTypeOK,
       JobBecomesIdle, CoordBecomes
  <2>7. Hold'
    BY <2>1, <2>2, <2>3, <2>4, <2>5 DEF Hold, ClientsHold, JobsHold, CoordHolds,
       JobBecomesIdle, CoordBecomes
  <2>8. ProgressHasWorker'
    BY <2>1, <2>2, <2>3, <2>4, <2>5 DEF QueueTypeOK, ProgressHasWorker, Runs, Settling,
       JobBecomesIdle, CoordBecomes
  <2>9. QueuedHaveData' /\ NoneLost
    BY <2>1, <2>2, <2>3, <2>4, <2>5 DEF QueuedHaveData, NoneLost, Lost, Kept, Runs,
       Settling, Dispatching, JobBecomesIdle, CoordBecomes
  <2>10. ASSUME ~NativeThreads PROVE GreenletInv'
    <3>1. QueuedNotLost'
      BY <2>10, <2>9 DEF GreenletInv, QueuedNotLost, NoneLost, Lost
    <3>2. Recorded'
      BY <2>10, <2>1, <2>2, <2>3, <2>4, <2>5 DEF GreenletInv, Recorded, QueueTypeOK, Hold,
         ClientsHold
    <3>3. FinishedRowNotActive'
      BY <2>10, <2>1, <2>2, <2>3, <2>4, <2>5 DEF GreenletInv, Recorded, QueueTypeOK,
         FinishedRowNotActive, HookPending, JobBecomesIdle, CoordBecomes
    <3> QED BY <3>1, <3>2, <3>3 DEF GreenletInv
  <2> QED BY <2>6, <2>7, <2>8, <2>9, <2>10 DEF IInv
<1>3. ASSUME NEW w \in Worker, SignalCancel(job[w].task), CancelStalled(w)
     PROVE  IInv' /\ NoneLost
  <2>1. PICK t \in Task : job[w].task = t /\ coord.pc = "idle"
    BY <1>3 DEF CancelStalled, CoordIn, Hold, JobsHold
  <2>2. QueueTypeOK' /\ UNCHANGED <<queue, status, taskData>>
    BY <1>3, <2>1, SignalCancelEffect
  <2>3. stalledTasks' \subseteq Task
    BY <1>3, <2>1 DEF CancelStalled, SystemTypeOK
  <2>4. CoordBecomes(t, "cancel", "cancelled")
    BY <1>3, <2>1, CoordHasEffect DEF CancelStalled, SignalCancel, CoordPC, Outcome
  <2>5. UNCHANGED <<history, client, job, lastActivity, restarts>>
    BY <1>3 DEF CancelStalled
  <2>6. TypeOK'
    BY <2>1, <2>2, <2>3, <2>4, <2>5 DEF TypeOK, QueueTypeOK, HistoryTypeOK, SystemTypeOK,
       CoordBecomes
  <2>7. Hold'
    BY <2>1, <2>2, <2>3, <2>4, <2>5 DEF Hold, ClientsHold, JobsHold, CoordHolds,
       CoordBecomes
  <2>8. ProgressHasWorker'
    BY <2>1, <2>2, <2>3, <2>4, <2>5 DEF QueueTypeOK, ProgressHasWorker, Runs, Settling,
       CoordBecomes
  <2>9. QueuedHaveData' /\ NoneLost
    BY <2>1, <2>2, <2>3, <2>4, <2>5 DEF QueuedHaveData, NoneLost, Lost, Kept, Runs,
       Settling, Dispatching, CoordBecomes
  <2>10. ASSUME ~NativeThreads PROVE GreenletInv'
    <3>1. QueuedNotLost'
      BY <2>10, <2>9 DEF GreenletInv, QueuedNotLost, NoneLost, Lost
    <3>2. Recorded'
      BY <2>10, <2>1, <2>2, <2>3, <2>4, <2>5 DEF GreenletInv, Recorded, QueueTypeOK, Hold,
         ClientsHold
    <3>3. FinishedRowNotActive'
      BY <2>10, <2>1, <2>2, <2>3, <2>4, <2>5 DEF GreenletInv, Recorded, QueueTypeOK,
         FinishedRowNotActive, HookPending, CoordBecomes
    <3> QED BY <3>1, <3>2, <3>3 DEF GreenletInv
  <2> QED BY <2>6, <2>7, <2>8, <2>9, <2>10 DEF IInv
<1>4. ASSUME NEW w \in Worker, ~SignalCancel(job[w].task), CancelStalled(w)
     PROVE  IInv' /\ NoneLost
  <2>1. job[w].task \in Task /\ stalledTasks' = stalledTasks \cup {job[w].task}
    BY <1>4 DEF CancelStalled, Hold, JobsHold
  <2>2. UNCHANGED <<queueVars, coord, history, client, job, lastActivity, restarts>>
    BY <1>4 DEF CancelStalled
  <2>3. TypeOK'
    BY <2>1, <2>2 DEF TypeOK, QueueTypeOK, HistoryTypeOK, SystemTypeOK, queueVars
  <2>4. Hold'
    BY <2>1, <2>2 DEF Hold, ClientsHold, JobsHold, CoordHolds
  <2>5. ProgressHasWorker'
    BY <2>1, <2>2 DEF QueueTypeOK, ProgressHasWorker, Runs, Settling, queueVars
  <2>6. QueuedHaveData' /\ NoneLost
    BY <2>1, <2>2 DEF QueuedHaveData, NoneLost, Lost, Kept, Runs, Settling, Dispatching,
       queueVars
  <2>7. ASSUME ~NativeThreads PROVE GreenletInv'
    <3>1. QueuedNotLost'
      BY <2>7, <2>6 DEF GreenletInv, QueuedNotLost, NoneLost, Lost
    <3>2. Recorded'
      BY <2>7, <2>1, <2>2 DEF GreenletInv, Recorded, QueueTypeOK, Hold, ClientsHold,
         queueVars
    <3>3. FinishedRowNotActive'
      BY <2>7, <2>1, <2>2 DEF GreenletInv, Recorded, QueueTypeOK, FinishedRowNotActive,
         HookPending, queueVars
    <3> QED BY <3>1, <3>2, <3>3 DEF GreenletInv
  <2> QED BY <2>3, <2>4, <2>5, <2>6, <2>7 DEF IInv
<1>5. ASSUME NEW w \in Worker, DispatchSubmit(w)
     PROVE  IInv' /\ NoneLost
  <2>1. PICK t \in Task : coord.pc = "claimed" /\ coord.task = t /\ job[w].pc = "idle"
    BY <1>5 DEF DispatchSubmit, FreeSlots, Hold, CoordHolds
  <2>2. JobStarts(w, t)
    BY <1>5, <2>1 DEF DispatchSubmit, JobStarts, SystemTypeOK, JobPC, Outcome
  <2>3. CoordBecomes(NoTask, "idle", "none")
    BY <1>5, CoordReturnsEffect DEF DispatchSubmit
  <2>4. UNCHANGED <<queueVars, history, client, lastActivity, stalledTasks, restarts>>
    BY <1>5 DEF DispatchSubmit
  <2>5. TypeOK'
    BY <2>1, <2>2, <2>3, <2>4 DEF TypeOK, QueueTypeOK, HistoryTypeOK, SystemTypeOK,
       JobStarts, CoordBecomes, queueVars
  <2>6. Hold'
    BY <2>1, <2>2, <2>3, <2>4 DEF Hold, ClientsHold, JobsHold, CoordHolds, JobStarts,
       CoordBecomes
  <2>7. ProgressHasWorker'
    BY <2>1, <2>2, <2>3, <2>4 DEF QueueTypeOK, ProgressHasWorker, Runs, Settling, JobStarts,
       CoordBecomes, queueVars
  <2>8. QueuedHaveData' /\ NoneLost
    BY <2>1, <2>2, <2>3, <2>4 DEF QueuedHaveData, NoneLost, Lost, Kept, Runs, Settling,
       Dispatching, JobStarts, CoordBecomes, queueVars
  <2>9. ASSUME ~NativeThreads PROVE GreenletInv'
    <3>1. QueuedNotLost'
      BY <2>9, <2>8 DEF GreenletInv, QueuedNotLost, NoneLost, Lost
    <3>2. Recorded'
      BY <2>9, <2>1, <2>2, <2>3, <2>4 DEF GreenletInv, Recorded, QueueTypeOK, Hold,
         ClientsHold, queueVars
    <3>3. FinishedRowNotActive'
      BY <2>9, <2>1, <2>2, <2>3, <2>4 DEF GreenletInv, Recorded, QueueTypeOK,
         FinishedRowNotActive, HookPending, JobStarts, CoordBecomes, queueVars
    <3> QED BY <3>1, <3>2, <3>3 DEF GreenletInv
  <2> QED BY <2>5, <2>6, <2>7, <2>8, <2>9 DEF IInv
<1>6. ASSUME NEW i \in queue, DispatchPop(i)
     PROVE  IInv' /\ NoneLost
  <2>1. coord.pc = "idle" /\ i.task \in Task
    BY <1>6 DEF DispatchPop, CoordIn, QueueTypeOK, Item
  <2>2. QueueTypeOK' /\ queue' = queue \ {i} /\ UNCHANGED <<status, taskData>>
    BY <1>6 DEF DispatchPop, Pop, QueueTypeOK
  <2>3. CoordBecomes(i.task, "popped", "none")
    BY <1>6, <2>1, CoordHasEffect DEF DispatchPop, CoordPC, Outcome
  <2>4. UNCHANGED <<history, client, job, lastActivity, stalledTasks, restarts>>
    BY <1>6 DEF DispatchPop
  <2>5. TypeOK'
    BY <2>1, <2>2, <2>3, <2>4 DEF TypeOK, QueueTypeOK, HistoryTypeOK, SystemTypeOK,
       CoordBecomes
  <2>6. Hold'
    BY <2>1, <2>2, <2>3, <2>4 DEF Hold, ClientsHold, JobsHold, CoordHolds, CoordBecomes
  <2>7. ProgressHasWorker'
    BY <2>1, <2>2, <2>3, <2>4 DEF QueueTypeOK, ProgressHasWorker, Runs, Settling,
       CoordBecomes
  <2>8. QueuedHaveData' /\ NoneLost
    BY <2>1, <2>2, <2>3, <2>4 DEF QueuedHaveData, NoneLost, Lost, Kept, Runs, Settling,
       Dispatching, CoordBecomes
  <2>9. ASSUME ~NativeThreads PROVE GreenletInv'
    <3>1. QueuedNotLost'
      BY <2>9, <2>8 DEF GreenletInv, QueuedNotLost, NoneLost, Lost
    <3>2. Recorded'
      BY <2>9, <2>1, <2>2, <2>3, <2>4 DEF GreenletInv, Recorded, QueueTypeOK, Hold,
         ClientsHold
    <3>3. FinishedRowNotActive'
      BY <2>9, <2>1, <2>2, <2>3, <2>4 DEF GreenletInv, Recorded, QueueTypeOK,
         FinishedRowNotActive, HookPending, CoordBecomes
    <3> QED BY <3>1, <3>2, <3>3 DEF GreenletInv
  <2> QED BY <2>5, <2>6, <2>7, <2>8, <2>9 DEF IInv
<1>7. ASSUME Claim(coord.task, NewFlag), DispatchClaim
     PROVE  IInv' /\ NoneLost
  <2>1. coord.pc = "popped" /\ coord.task \in Task /\ NewFlag \in Flag
    BY <1>7, ClaimedFlag DEF DispatchClaim, Hold, CoordHolds
  <2>2. QueueTypeOK' /\ UNCHANGED <<queue, status, taskData>>
    BY <1>7, <2>1 DEF Claim, QueueTypeOK
  <2>3. CoordBecomes(coord.task, "claimed", coord.outcome)
    BY <1>7, <2>1 DEF DispatchClaim, CoordBecomes, CoordPC, SystemTypeOK, CoordReturns,
       CoordAt, SkipClaim, Claim
  <2>4. UNCHANGED <<history, client, job, lastActivity, stalledTasks, restarts>>
    BY <1>7 DEF DispatchClaim
  <2>5. TypeOK'
    BY <2>1, <2>2, <2>3, <2>4 DEF TypeOK, QueueTypeOK, HistoryTypeOK, SystemTypeOK,
       CoordBecomes
  <2>6. Hold'
    BY <2>1, <2>2, <2>3, <2>4 DEF Hold, ClientsHold, JobsHold, CoordHolds, CoordBecomes
  <2>7. ProgressHasWorker'
    BY <2>1, <2>2, <2>3, <2>4 DEF QueueTypeOK, ProgressHasWorker, Runs, Settling,
       CoordBecomes
  <2>8. QueuedHaveData' /\ NoneLost
    BY <2>1, <2>2, <2>3, <2>4 DEF QueuedHaveData, NoneLost, Lost, Kept, Runs, Settling,
       Dispatching, CoordBecomes
  <2>9. ASSUME ~NativeThreads PROVE GreenletInv'
    <3>1. QueuedNotLost'
      BY <2>9, <2>8 DEF GreenletInv, QueuedNotLost, NoneLost, Lost
    <3>2. Recorded'
      BY <2>9, <2>1, <2>2, <2>3, <2>4 DEF GreenletInv, Recorded, QueueTypeOK, Hold,
         ClientsHold
    <3>3. FinishedRowNotActive'
      BY <2>9, <2>1, <2>2, <2>3, <2>4 DEF GreenletInv, Recorded, QueueTypeOK,
         FinishedRowNotActive, HookPending, CoordBecomes
    <3> QED BY <3>1, <3>2, <3>3 DEF GreenletInv
  <2> QED BY <2>5, <2>6, <2>7, <2>8, <2>9 DEF IInv
<1>8. ASSUME ~Claim(coord.task, NewFlag), DispatchClaim
     PROVE  IInv' /\ NoneLost
  <2>1. coord.pc = "popped" /\ status[coord.task] = "cancelled"
    BY <1>8 DEF DispatchClaim, SkipClaim
  <2>2. CoordBecomes(NoTask, "idle", "none")
    BY <1>8, CoordReturnsEffect DEF DispatchClaim
  <2>3. UNCHANGED <<queueVars, history, client, job, lastActivity, stalledTasks, restarts>>
    BY <1>8 DEF DispatchClaim, SkipClaim
  <2>4. TypeOK'
    BY <2>1, <2>2, <2>3 DEF TypeOK, QueueTypeOK, HistoryTypeOK, SystemTypeOK, CoordBecomes,
       queueVars
  <2>5. Hold'
    BY <2>1, <2>2, <2>3 DEF Hold, ClientsHold, JobsHold, CoordHolds, CoordBecomes
  <2>6. ProgressHasWorker'
    BY <2>1, <2>2, <2>3 DEF QueueTypeOK, ProgressHasWorker, Runs, Settling, CoordBecomes,
       queueVars
  <2>7. QueuedHaveData' /\ NoneLost
    BY <2>1, <2>2, <2>3 DEF QueuedHaveData, NoneLost, Lost, Kept, Runs, Settling,
       Dispatching, CoordBecomes, queueVars
  <2>8. ASSUME ~NativeThreads PROVE GreenletInv'
    <3>1. QueuedNotLost'
      BY <2>8, <2>7 DEF GreenletInv, QueuedNotLost, NoneLost, Lost
    <3>2. Recorded'
      BY <2>8, <2>1, <2>2, <2>3 DEF GreenletInv, Recorded, QueueTypeOK, Hold, ClientsHold,
         queueVars
    <3>3. FinishedRowNotActive'
      BY <2>8, <2>1, <2>2, <2>3 DEF GreenletInv, Recorded, QueueTypeOK,
         FinishedRowNotActive, HookPending, CoordBecomes, queueVars
    <3> QED BY <3>1, <3>2, <3>3 DEF GreenletInv
  <2> QED BY <2>4, <2>5, <2>6, <2>7, <2>8 DEF IInv
<1>9. ASSUME CoordFail
     PROVE  IInv' /\ NoneLost
  <2>1. PICK t \in Task : coord.pc = "fail" /\ coord.task = t
    BY <1>9 DEF CoordFail, Hold, CoordHolds
  <2>2. \/ CoordBecomes(t, "write", "error")
        \/ CoordBecomes(NoTask, "idle", "none") /\ t \notin taskData
    BY <1>9, <2>1, CoordHasEffect, CoordReturnsEffect DEF CoordFail, CoordPC, Outcome
  <2>3. UNCHANGED <<queueVars, history, client, job, lastActivity, stalledTasks, restarts>>
    BY <1>9 DEF CoordFail, OnlyCoord
  <2>4. TypeOK'
    BY <2>1, <2>2, <2>3 DEF TypeOK, QueueTypeOK, HistoryTypeOK, SystemTypeOK, CoordBecomes,
       queueVars
  <2>5. Hold'
    BY <2>1, <2>2, <2>3 DEF Hold, ClientsHold, JobsHold, CoordHolds, CoordBecomes
  <2>6. ProgressHasWorker'
    BY <2>1, <2>2, <2>3 DEF QueueTypeOK, ProgressHasWorker, Runs, Settling, CoordBecomes,
       queueVars
  <2>7. QueuedHaveData' /\ NoneLost
    BY <2>1, <2>2, <2>3 DEF QueuedHaveData, NoneLost, Lost, Kept, Runs, Settling,
       Dispatching, CoordBecomes, queueVars
  <2>8. ASSUME ~NativeThreads PROVE GreenletInv'
    <3>1. QueuedNotLost'
      BY <2>8, <2>7 DEF GreenletInv, QueuedNotLost, NoneLost, Lost
    <3>2. Recorded'
      BY <2>8, <2>1, <2>2, <2>3 DEF GreenletInv, Recorded, QueueTypeOK, Hold, ClientsHold,
         queueVars
    <3>3. FinishedRowNotActive'
      BY <2>8, <2>1, <2>2, <2>3 DEF GreenletInv, Recorded, QueueTypeOK,
         FinishedRowNotActive, HookPending, CoordBecomes, queueVars
    <3> QED BY <3>1, <3>2, <3>3 DEF GreenletInv
  <2> QED BY <2>4, <2>5, <2>6, <2>7, <2>8 DEF IInv
<1>10. ASSUME CoordWrite
     PROVE  IInv' /\ NoneLost
  <2>1. PICK t \in Task : /\ coord.pc \in {"write", "cancel"}
                         /\ coord.task = t /\ coord.outcome \in Terminal
    BY <1>10 DEF CoordWrite, Hold, CoordHolds
  <2>2. PICK s \in Terminal : coord.outcome = s
    BY <1>10, <2>1
  <2>3. QueueTypeOK' /\ StatusBecomes(t, s) /\ UNCHANGED <<queue, taskData>>
    BY <1>10, <2>1, <2>2, UpdateStatusEffect DEF CoordWrite, Status
  <2>4. \/ CoordBecomes(t, "hook", s)
        \/ CoordBecomes(NoTask, "idle", "none") /\ ~HookDue(t, s)
    BY <1>10, <2>1, <2>2, CoordNowEffect, CoordReturnsEffect DEF CoordWrite, CoordPC,
       HookDue
  <2>5. UNCHANGED <<history, client, job, lastActivity, stalledTasks, restarts>>
    BY <1>10 DEF CoordWrite, OnlyCoord
  <2>6. TypeOK'
    BY <2>1, <2>2, <2>3, <2>4, <2>5 DEF TypeOK, QueueTypeOK, HistoryTypeOK, SystemTypeOK,
       CoordBecomes
  <2>7. Hold'
    BY <2>1, <2>2, <2>3, <2>4, <2>5 DEF Hold, ClientsHold, JobsHold, CoordHolds,
       CoordBecomes
  <2>8. ProgressHasWorker'
    BY <2>1, <2>2, <2>3, <2>4, <2>5 DEF QueueTypeOK, ProgressHasWorker, Runs, Settling,
       StatusBecomes, CoordBecomes
  <2>9. QueuedHaveData' /\ NoneLost
    BY <2>1, <2>2, <2>3, <2>4, <2>5 DEF QueuedHaveData, NoneLost, Lost, Kept, Runs,
       Settling, Dispatching, StatusBecomes, CoordBecomes
  <2>10. ASSUME ~NativeThreads PROVE GreenletInv'
    <3>1. QueuedNotLost'
      BY <2>10, <2>9 DEF GreenletInv, QueuedNotLost, NoneLost, Lost
    <3>2. Recorded'
      BY <2>10, <2>1, <2>2, <2>3, <2>4, <2>5 DEF GreenletInv, Recorded, QueueTypeOK, Hold,
         ClientsHold, StatusBecomes
    <3>3. FinishedRowNotActive'
      BY <2>10, <2>1, <2>2, <2>3, <2>4, <2>5 DEF GreenletInv, Recorded, QueueTypeOK,
         FinishedRowNotActive, HookPending, HookDue, StatusBecomes, CoordBecomes
    <3> QED BY <3>1, <3>2, <3>3 DEF GreenletInv
  <2> QED BY <2>6, <2>7, <2>8, <2>9, <2>10 DEF IInv
<1>11. ASSUME CoordHook
     PROVE  IInv' /\ NoneLost
  <2>1. PICK t \in Task : coord.pc = "hook" /\ coord.task = t /\ coord.outcome \in Terminal
    BY <1>11 DEF CoordHook, Hold, CoordHolds
  <2>2. HistoryTypeOK' /\ history'[t] # "active"
       /\ \A u \in Task : history'[u] = history[u]
                          \/ (history[u] = "active" /\ history'[u] \in Terminal)
    BY <1>11, <2>1, FinalizeEffect DEF CoordHook
  <2>3. CoordBecomes(NoTask, "idle", "none")
    BY <1>11, CoordReturnsEffect DEF CoordHook
  <2>4. UNCHANGED <<queueVars, client, job, lastActivity, stalledTasks, restarts>>
    BY <1>11 DEF CoordHook, OnlyCoord
  <2>5. TypeOK'
    BY <2>1, <2>2, <2>3, <2>4 DEF TypeOK, QueueTypeOK, HistoryTypeOK, SystemTypeOK,
       CoordBecomes, queueVars
  <2>6. Hold'
    BY <2>1, <2>2, <2>3, <2>4 DEF Hold, ClientsHold, JobsHold, CoordHolds, CoordBecomes
  <2>7. ProgressHasWorker'
    BY <2>1, <2>2, <2>3, <2>4 DEF QueueTypeOK, ProgressHasWorker, Runs, Settling,
       CoordBecomes, queueVars
  <2>8. QueuedHaveData' /\ NoneLost
    BY <2>1, <2>2, <2>3, <2>4 DEF QueuedHaveData, NoneLost, Lost, Kept, Runs, Settling,
       Dispatching, CoordBecomes, queueVars
  <2>9. ASSUME ~NativeThreads PROVE GreenletInv'
    <3>1. QueuedNotLost'
      BY <2>9, <2>8 DEF GreenletInv, QueuedNotLost, NoneLost, Lost
    <3>2. Recorded'
      BY <2>9, <2>1, <2>2, <2>3, <2>4 DEF GreenletInv, Recorded, QueueTypeOK, Hold,
         ClientsHold, queueVars
    <3>3. FinishedRowNotActive'
      BY <2>9, <2>1, <2>2, <2>3, <2>4 DEF GreenletInv, Recorded, QueueTypeOK,
         FinishedRowNotActive, HookPending, CoordBecomes, queueVars
    <3> QED BY <3>1, <3>2, <3>3 DEF GreenletInv
  <2> QED BY <2>5, <2>6, <2>7, <2>8, <2>9 DEF IInv
<1>12. ASSUME EndHarvest
     PROVE  IInv' /\ NoneLost
  <2>1. coord.pc = "idle" /\ CoordBecomes(NoTask, "idle", "none")
    BY <1>12, CoordAtEffect DEF EndHarvest, CoordIn, Phase
  <2>2. UNCHANGED <<queueVars, history, client, job, lastActivity, stalledTasks, restarts>>
    BY <1>12 DEF EndHarvest, OnlyPhase
  <2>3. TypeOK'
    BY <2>1, <2>2 DEF TypeOK, QueueTypeOK, HistoryTypeOK, SystemTypeOK, CoordBecomes,
       queueVars
  <2>4. Hold'
    BY <2>1, <2>2 DEF Hold, ClientsHold, JobsHold, CoordHolds, CoordBecomes
  <2>5. ProgressHasWorker'
    BY <2>1, <2>2 DEF QueueTypeOK, ProgressHasWorker, Runs, Settling, CoordBecomes,
       queueVars
  <2>6. QueuedHaveData' /\ NoneLost
    BY <2>1, <2>2 DEF QueuedHaveData, NoneLost, Lost, Kept, Runs, Settling, Dispatching,
       CoordBecomes, queueVars
  <2>7. ASSUME ~NativeThreads PROVE GreenletInv'
    <3>1. QueuedNotLost'
      BY <2>7, <2>6 DEF GreenletInv, QueuedNotLost, NoneLost, Lost
    <3>2. Recorded'
      BY <2>7, <2>1, <2>2 DEF GreenletInv, Recorded, QueueTypeOK, Hold, ClientsHold,
         queueVars
    <3>3. FinishedRowNotActive'
      BY <2>7, <2>1, <2>2 DEF GreenletInv, Recorded, QueueTypeOK, FinishedRowNotActive,
         HookPending, CoordBecomes, queueVars
    <3> QED BY <3>1, <3>2, <3>3 DEF GreenletInv
  <2> QED BY <2>3, <2>4, <2>5, <2>6, <2>7 DEF IInv
<1>13. ASSUME EndStall
     PROVE  IInv' /\ NoneLost
  <2>1. coord.pc = "idle" /\ CoordBecomes(NoTask, "idle", "none")
    BY <1>13, CoordAtEffect DEF EndStall, CoordIn, Phase
  <2>2. UNCHANGED <<queueVars, history, client, job, lastActivity, stalledTasks, restarts>>
    BY <1>13 DEF EndStall, OnlyPhase
  <2>3. TypeOK'
    BY <2>1, <2>2 DEF TypeOK, QueueTypeOK, HistoryTypeOK, SystemTypeOK, CoordBecomes,
       queueVars
  <2>4. Hold'
    BY <2>1, <2>2 DEF Hold, ClientsHold, JobsHold, CoordHolds, CoordBecomes
  <2>5. ProgressHasWorker'
    BY <2>1, <2>2 DEF QueueTypeOK, ProgressHasWorker, Runs, Settling, CoordBecomes,
       queueVars
  <2>6. QueuedHaveData' /\ NoneLost
    BY <2>1, <2>2 DEF QueuedHaveData, NoneLost, Lost, Kept, Runs, Settling, Dispatching,
       CoordBecomes, queueVars
  <2>7. ASSUME ~NativeThreads PROVE GreenletInv'
    <3>1. QueuedNotLost'
      BY <2>7, <2>6 DEF GreenletInv, QueuedNotLost, NoneLost, Lost
    <3>2. Recorded'
      BY <2>7, <2>1, <2>2 DEF GreenletInv, Recorded, QueueTypeOK, Hold, ClientsHold,
         queueVars
    <3>3. FinishedRowNotActive'
      BY <2>7, <2>1, <2>2 DEF GreenletInv, Recorded, QueueTypeOK, FinishedRowNotActive,
         HookPending, CoordBecomes, queueVars
    <3> QED BY <3>1, <3>2, <3>3 DEF GreenletInv
  <2> QED BY <2>3, <2>4, <2>5, <2>6, <2>7 DEF IInv
<1>14. ASSUME EndDispatch
     PROVE  IInv' /\ NoneLost
  <2>1. coord.pc = "idle" /\ CoordBecomes(NoTask, "idle", "none")
    BY <1>14, CoordAtEffect DEF EndDispatch, CoordIn, Phase
  <2>2. UNCHANGED <<queueVars, history, client, job, lastActivity, stalledTasks, restarts>>
    BY <1>14 DEF EndDispatch, OnlyPhase
  <2>3. TypeOK'
    BY <2>1, <2>2 DEF TypeOK, QueueTypeOK, HistoryTypeOK, SystemTypeOK, CoordBecomes,
       queueVars
  <2>4. Hold'
    BY <2>1, <2>2 DEF Hold, ClientsHold, JobsHold, CoordHolds, CoordBecomes
  <2>5. ProgressHasWorker'
    BY <2>1, <2>2 DEF QueueTypeOK, ProgressHasWorker, Runs, Settling, CoordBecomes,
       queueVars
  <2>6. QueuedHaveData' /\ NoneLost
    BY <2>1, <2>2 DEF QueuedHaveData, NoneLost, Lost, Kept, Runs, Settling, Dispatching,
       CoordBecomes, queueVars
  <2>7. ASSUME ~NativeThreads PROVE GreenletInv'
    <3>1. QueuedNotLost'
      BY <2>7, <2>6 DEF GreenletInv, QueuedNotLost, NoneLost, Lost
    <3>2. Recorded'
      BY <2>7, <2>1, <2>2 DEF GreenletInv, Recorded, QueueTypeOK, Hold, ClientsHold,
         queueVars
    <3>3. FinishedRowNotActive'
      BY <2>7, <2>1, <2>2 DEF GreenletInv, Recorded, QueueTypeOK, FinishedRowNotActive,
         HookPending, CoordBecomes, queueVars
    <3> QED BY <3>1, <3>2, <3>3 DEF GreenletInv
  <2> QED BY <2>3, <2>4, <2>5, <2>6, <2>7 DEF IInv
<1> QED BY <1>1, <1>2, <1>3, <1>4, <1>5, <1>6, <1>7, <1>8, <1>9, <1>10, <1>11, <1>12, <1>13,
           <1>14 DEF CoordAdvances

\* Changing priorities keeps an item for every task that had one.
LEMMA ReorderEffect ==
  ASSUME QueueTypeOK, NEW m, ReorderQueue(m), \A x \in DOMAIN m : m[x] \in Priority
  PROVE  queue' \subseteq Item /\ \A u \in Task : HasItem(u) => HasItem(u)'
<1> DEFINE Moved(i) == [i EXCEPT !.priority = IF i.task \in DOMAIN m THEN m[i.task] ELSE @]
<1>1. queue' = {Moved(i) : i \in queue}
  BY DEF ReorderQueue
<1>2. ASSUME NEW i \in queue PROVE Moved(i) \in Item /\ Moved(i).task = i.task
  BY QueueAssumption DEF QueueTypeOK, Item
<1> HIDE DEF Moved
<1> QED BY <1>1, <1>2 DEF HasItem

\* A call of one critical section.
LEMMA CallStep ==
  ASSUME IInv, CallNext
  PROVE  IInv' /\ NoneLost
<1> USE DEF IInv, TypeOK, Terminal, InProgress, CallRuns, NobodyBusy, BusyClients, ClientBusy
<1>1. ASSUME CallRuns /\ Prioritise
     PROVE  IInv' /\ NoneLost
  <2>1. PICK m : ReorderQueue(m) /\ \A x \in DOMAIN m : m[x] \in Priority
    <3>1. ASSUME NEW t \in Task, NEW p \in Priority, SetPriority(t, p)
          PROVE  \E m : ReorderQueue(m) /\ \A x \in DOMAIN m : m[x] \in Priority
      <4> DEFINE m == [u \in {t} |-> p]
      <4>1. ReorderQueue(m)
        BY <3>1 DEF SetPriority
      <4>2. \A x \in DOMAIN m : m[x] \in Priority
        OBVIOUS
      <4> HIDE DEF m
      <4> QED BY <4>1, <4>2
    <3>2. ASSUME NEW S \in SUBSET Task, NEW m \in [S -> Priority], ReorderQueue(m)
          PROVE  \E n : ReorderQueue(n) /\ \A x \in DOMAIN n : n[x] \in Priority
      BY <3>2
    <3> QED BY <1>1, <3>1, <3>2 DEF Prioritise
  <2>2. queue' \subseteq Item /\ \A u \in Task : HasItem(u) => HasItem(u)'
    BY <1>1, <2>1, ReorderEffect
  <2>3. UNCHANGED <<status, taskData, cancelFlags, activeDownloads, setFlags, clock>>
    BY <1>1, <2>1 DEF ReorderQueue
  <2>4. UNCHANGED <<history, client, job, coord, lastActivity, stalledTasks, restarts>>
    BY <1>1 DEF Prioritise, systemVars
  <2>5. TypeOK'
    BY <2>1, <2>2, <2>3, <2>4 DEF TypeOK, QueueTypeOK, HistoryTypeOK, SystemTypeOK
  <2>6. Hold'
    BY <2>1, <2>2, <2>3, <2>4 DEF Hold, ClientsHold, JobsHold, CoordHolds
  <2>7. ProgressHasWorker'
    BY <2>1, <2>2, <2>3, <2>4 DEF QueueTypeOK, ProgressHasWorker, Runs, Settling
  <2>8. QueuedHaveData' /\ NoneLost
    BY <2>1, <2>2, <2>3, <2>4 DEF QueuedHaveData, NoneLost, Lost, Kept, HasItem, Runs,
       Settling, Dispatching
  <2>9. ASSUME ~NativeThreads PROVE GreenletInv'
    <3>1. QueuedNotLost'
      BY <2>9, <2>8 DEF GreenletInv, QueuedNotLost, NoneLost, Lost
    <3>2. Recorded'
      BY <2>9, <2>1, <2>2, <2>3, <2>4 DEF GreenletInv, Recorded, QueueTypeOK, Hold,
         ClientsHold
    <3>3. FinishedRowNotActive'
      BY <2>9, <2>1, <2>2, <2>3, <2>4 DEF GreenletInv, Recorded, QueueTypeOK,
         FinishedRowNotActive, HookPending
    <3> QED BY <3>1, <3>2, <3>3 DEF GreenletInv
  <2> QED BY <2>5, <2>6, <2>7, <2>8, <2>9 DEF IInv
<1>2. ASSUME CallRuns /\ GetStatus
     PROVE  IInv' /\ NoneLost
  <2>1. PICK X : Refresh(X)
    BY <1>2 DEF GetStatus
  <2>2. QueueTypeOK' /\ taskData' = taskData \ X /\ X \subseteq taskData /\ queue' = queue
    BY <1>2, <2>1 DEF Refresh, QueueTypeOK, Status
  <2>3. /\ \A t \in X : status[t] \in Terminal /\ status'[t] = "unknown"
        /\ \A t \in Task \ X : status'[t] = status[t]
    BY <1>2, <2>1 DEF Refresh, QueueTypeOK
  <2>4. UNCHANGED <<history, client, job, coord, lastActivity, stalledTasks, restarts>>
    BY <1>2 DEF GetStatus, systemVars
  <2>5. TypeOK'
    BY <2>1, <2>2, <2>3, <2>4 DEF TypeOK, QueueTypeOK, HistoryTypeOK, SystemTypeOK
  <2>6. Hold'
    BY <2>1, <2>2, <2>3, <2>4 DEF Hold, ClientsHold, JobsHold, CoordHolds
  <2>7. ProgressHasWorker'
    BY <2>1, <2>2, <2>3, <2>4 DEF QueueTypeOK, ProgressHasWorker, Runs, Settling
  <2>8. QueuedHaveData' /\ NoneLost
    BY <2>1, <2>2, <2>3, <2>4 DEF QueuedHaveData, NoneLost, Lost, Kept, Runs, Settling,
       Dispatching
  <2>9. ASSUME ~NativeThreads PROVE GreenletInv'
    <3>1. QueuedNotLost'
      BY <2>9, <2>8 DEF GreenletInv, QueuedNotLost, NoneLost, Lost
    <3>2. Recorded'
      BY <2>9, <2>1, <2>2, <2>3, <2>4 DEF GreenletInv, Recorded, QueueTypeOK, Hold,
         ClientsHold
    <3>3. FinishedRowNotActive'
      BY <2>9, <2>1, <2>2, <2>3, <2>4 DEF GreenletInv, Recorded, QueueTypeOK,
         FinishedRowNotActive, HookPending
    <3> QED BY <3>1, <3>2, <3>3 DEF GreenletInv
  <2> QED BY <2>5, <2>6, <2>7, <2>8, <2>9 DEF IInv
<1>3. ASSUME CallRuns /\ LibraryDelete
     PROVE  IInv' /\ NoneLost
  <2>1. HistoryTypeOK' /\ \A t \in Task : history'[t] # history[t] => history'[t] = "none"
    BY <1>3 DEF LibraryDelete, DeleteRow, HistoryTypeOK, RowStatus
  <2>2. UNCHANGED <<queueVars, client, job, coord, lastActivity, stalledTasks, restarts>>
    BY <1>3 DEF LibraryDelete, systemVars
  <2>3. TypeOK'
    BY <2>1, <2>2 DEF TypeOK, QueueTypeOK, HistoryTypeOK, SystemTypeOK, queueVars
  <2>4. Hold'
    BY <2>1, <2>2 DEF Hold, ClientsHold, JobsHold, CoordHolds
  <2>5. ProgressHasWorker'
    BY <2>1, <2>2 DEF QueueTypeOK, ProgressHasWorker, Runs, Settling, queueVars
  <2>6. QueuedHaveData' /\ NoneLost
    BY <2>1, <2>2 DEF QueuedHaveData, NoneLost, Lost, Kept, Runs, Settling, Dispatching,
       queueVars
  <2>7. ASSUME ~NativeThreads PROVE GreenletInv'
    <3>1. QueuedNotLost'
      BY <2>7, <2>6 DEF GreenletInv, QueuedNotLost, NoneLost, Lost
    <3>2. Recorded'
      BY <2>7, <2>1, <2>2 DEF GreenletInv, Recorded, QueueTypeOK, Hold, ClientsHold,
         queueVars
    <3>3. FinishedRowNotActive'
      BY <2>7, <2>1, <2>2 DEF GreenletInv, Recorded, QueueTypeOK, FinishedRowNotActive,
         HookPending, queueVars
    <3> QED BY <3>1, <3>2, <3>3 DEF GreenletInv
  <2> QED BY <2>3, <2>4, <2>5, <2>6, <2>7 DEF IInv
<1> QED BY <1>1, <1>2, <1>3 DEF CallNext

\* Native threads only: the heap loses its items, nothing else changes; the task of the
\* item that was taken is in the coordinator's hands.
LEMMA DrainRaceStep ==
  ASSUME IInv, NEW i \in queue, DrainRace(i)
  PROVE  IInv' /\ ~Lost(i.task)'
<1> USE DEF IInv, TypeOK
<1>1. coord.pc = "idle" /\ i.task \in Task /\ NativeThreads
  BY DEF DrainRace, CoordIn, QueueTypeOK, Item
<1>2. QueueTypeOK' /\ UNCHANGED <<status, taskData>>
  BY DEF DrainRace, QueueTypeOK
<1>3. CoordBecomes(i.task, "popped", "none")
  BY <1>1, CoordHasEffect DEF DrainRace, CoordPC, Outcome
<1>4. UNCHANGED <<history, client, job, lastActivity, stalledTasks, restarts>>
  BY DEF DrainRace
<1>5. TypeOK'
  BY <1>2, <1>3, <1>4 DEF TypeOK, HistoryTypeOK, SystemTypeOK, CoordBecomes
<1>6. Hold'
  BY <1>1, <1>3, <1>4 DEF Hold, ClientsHold, JobsHold, CoordHolds, CoordBecomes
<1>7. ProgressHasWorker'
  BY <1>1, <1>2, <1>3, <1>4 DEF ProgressHasWorker, Runs, Settling, CoordBecomes
<1>8. QueuedHaveData'
  BY <1>2 DEF QueuedHaveData
<1>9. ~Lost(i.task)'
  BY <1>3 DEF Lost, Kept, Dispatching, CoordBecomes
<1> QED BY <1>1, <1>5, <1>6, <1>7, <1>8, <1>9 DEF IInv

\* A restart forgets every task, so only the types are left to show.
LEMMA RestartStep ==
  ASSUME IInv, Restart
  PROVE  IInv' /\ NoneLost
<1> USE DEF IInv, TypeOK, Restart, IdleClient, IdleJob, CoordAt
<1>1. TypeOK'
  BY DEF TypeOK, QueueTypeOK, HistoryTypeOK, SystemTypeOK, Status, ClientPC, JobPC, CoordPC,
     Phase, Outcome
<1>2. Hold'
  BY DEF Hold, ClientsHold, JobsHold, CoordHolds
<1>3. ProgressHasWorker'
  BY DEF ProgressHasWorker
<1>4. GreenletInv' /\ QueuedHaveData' /\ NoneLost
  BY DEF GreenletInv, QueuedHaveData, QueuedNotLost, NoneLost, Lost, Recorded,
     FinishedRowNotActive
<1> QED BY <1>1, <1>2, <1>3, <1>4 DEF IInv

\* A stuttering step keeps the invariant.
LEMMA StutterStep ==
  ASSUME IInv, UNCHANGED vars
  PROVE  IInv' /\ NoneLost
<1> USE DEF IInv, vars, queueVars, systemVars
<1>1. TypeOK'
  BY DEF TypeOK, QueueTypeOK, HistoryTypeOK, SystemTypeOK
<1>2. Hold'
  BY DEF Hold, ClientsHold, JobsHold, CoordHolds
<1>3. ProgressHasWorker'
  BY DEF ProgressHasWorker, Runs, Settling
<1>4. QueuedHaveData' /\ NoneLost
  BY DEF QueuedHaveData, NoneLost, Lost, Kept, Runs, Settling, Dispatching
<1>5. ASSUME ~NativeThreads PROVE GreenletInv'
  BY <1>4, <1>5 DEF GreenletInv, QueuedNotLost, NoneLost, Lost, Recorded,
              FinishedRowNotActive, HookPending
<1> QED BY <1>1, <1>2, <1>3, <1>4, <1>5 DEF IInv

-----------------------------------------------------------------------------

\* The initial states satisfy the invariant.
THEOREM InitIInv == Init => IInv
<1> SUFFICES ASSUME Init PROVE IInv
  OBVIOUS
<1> USE DEF Init, QueueInit, HistoryInit, SystemInit, IdleClient, IdleJob, CoordAt
<1>1. TypeOK
  BY DEF TypeOK, QueueTypeOK, HistoryTypeOK, SystemTypeOK, Status, RowStatus, ClientPC,
     JobPC,
         CoordPC, Phase, Outcome
<1>2. Hold
  BY DEF Hold, ClientsHold, JobsHold, CoordHolds
<1>3. ProgressHasWorker
  BY DEF ProgressHasWorker
<1>4. GreenletInv /\ QueuedHaveData
  BY DEF GreenletInv, QueuedNotLost, QueuedHaveData, Recorded, FinishedRowNotActive
<1> QED BY <1>1, <1>2, <1>3, <1>4 DEF IInv

\* Every step of the system, of whichever thread, keeps the invariant, and every step but
\* the drain race loses nobody.
LEMMA NextStep ==
  ASSUME IInv, [Next]_vars
  PROVE  IInv' /\ (NoneLost \/ \E i \in queue : DrainRace(i) /\ ~Lost(i.task)')
<1>1. CASE ClientNext
  BY <1>1, ClientStartsStep, ClientFinishesStep DEF ClientNext
<1>2. CASE JobNext
  BY <1>2, JobStep DEF JobNext
<1>3. CASE CoordNext
  BY <1>3, CoordStep DEF CoordNext
<1>4. CASE CallNext
  BY <1>4, CallStep
<1>5. CASE \E i \in queue : DrainRace(i)
  BY <1>5, DrainRaceStep
<1>6. CASE Restart
  BY <1>6, RestartStep
<1>7. CASE UNCHANGED vars
  BY <1>7, StutterStep
<1> QED BY <1>1, <1>2, <1>3, <1>4, <1>5, <1>6, <1>7 DEF Next

\* The invariant is inductive.
THEOREM NextIInv == IInv /\ [Next]_vars => IInv'
BY NextStep

\* The invariant holds in every reachable state of the system.
THEOREM SpecIInv == Spec => []IInv
BY InitIInv, NextIInv, PTL DEF Spec

(***************************************************************************)
(* Every variable keeps its type, with greenlets and with native threads.  *)
(***************************************************************************)
THEOREM TypesHold == Spec => []TypeOK
<1>1. IInv => TypeOK
  BY DEF IInv
<1> QED BY <1>1, SpecIInv, PTL

(***************************************************************************)
(* No download hangs without anyone to settle it, whatever the scheduling: *)
(* update_download_status, _process_single_download and the harvest of     *)
(* concurrent_download_loop.                                               *)
(***************************************************************************)
THEOREM NoneHangs == Spec => []ProgressHasWorker
<1>1. IInv => ProgressHasWorker
  BY DEF IInv
<1> QED BY <1>1, SpecIInv, PTL

(***************************************************************************)
(* With greenlets no accepted download is forgotten (BookQueue.add,        *)
(* get_next, enqueue_existing, concurrent_download_loop); native threads   *)
(* can lose the heap, see DrainRace.                                       *)
(***************************************************************************)
THEOREM NoneForgotten == ASSUME ~NativeThreads PROVE Spec => []QueuedNotLost
<1>1. IInv => QueuedNotLost
  BY DEF IInv, GreenletInv
<1> QED BY <1>1, SpecIInv, PTL

(***************************************************************************)
(* Whatever the scheduling, and over restarts, a queued download is lost by*)
(* nothing but the drain race, which never loses the task that get_next    *)
(* takes (get_next, set_priority, reorder_queue, enqueue_existing).        *)
(***************************************************************************)
THEOREM OnlyDrainsLose == Spec => OnlyDrainLoses
<1>1. IInv /\ [Next]_vars
        => [\A t \in Task : ~Lost(t) /\ Lost(t)' =>
              \E i \in queue : DrainRace(i) /\ i.task # t]_vars
  BY NextStep DEF NoneLost
<1> QED BY <1>1, SpecIInv, PTL DEF Spec, OnlyDrainLoses

(***************************************************************************)
(* With greenlets no finished download keeps an active history row, save   *)
(* while a hook is about to finalize it (the queue hook, the terminal hook *)
(* and finalize_download).                                                 *)
(***************************************************************************)
THEOREM FinishedIsRecorded == ASSUME ~NativeThreads PROVE Spec => []FinishedRowNotActive
<1>1. IInv => FinishedRowNotActive
  BY DEF IInv, GreenletInv
<1> QED BY <1>1, SpecIInv, PTL

(***************************************************************************)
(* The first outcome a run persists stays, whatever the scheduling         *)
(* (finalize_download, record_download and delete_by_task_id).             *)
(***************************************************************************)
LEMMA RowStep ==
  ASSUME IInv, [Next]_vars, NEW t \in Task, history[t] \in Terminal
  PROVE  history'[t] \in {history[t], "active", "none"}
<1> USE DEF IInv, TypeOK
<1>1. UNCHANGED history \/ (\E u \in Task : RecordDownload(u))
        \/ (\E u \in Task, s \in Terminal : FinalizeDownload(u, s))
        \/ (\E u \in Task : DeleteRow(u))
  <2>1. CASE ClientNext
    BY <2>1 DEF ClientNext, ClientStarts, ClientFinishes, QueueRelease, RestoreRequest,
       CancelRequest, RetryRequest, RunQueueHook, CancelUpdate, RunTerminalHook, RetryEnqueue,
       RestoreAdd, Hold, ClientsHold, Terminal
  <2>2. CASE JobNext
    BY <2>2 DEF JobNext, JobAdvances, HandlerMoves, StartJob, HandlerReturns,
       HandlerGoesQuiet,
       PostProcessReturns,
       FinishJob, FailJob, WriteOutcome, RunJobHook, Progress, Report, Hold, JobsHold
  <2>3. CASE CoordNext
    BY <2>3 DEF CoordNext, CoordAdvances, HarvestDone, HarvestRaised, Harvest,
       CancelStalled,
       DispatchSubmit, DispatchPop, DispatchClaim, CoordFail, CoordWrite, CoordHook,
       EndHarvest,
       EndStall, EndDispatch, OnlyPhase, Hold, CoordHolds
  <2>4. CASE CallNext \/ Restart \/ (\E i \in queue : DrainRace(i)) \/ UNCHANGED vars
    BY <2>4 DEF CallNext, Prioritise, GetStatus, LibraryDelete, Restart, DrainRace, vars
  <2> QED BY <2>1, <2>2, <2>3, <2>4 DEF Next
<1>2. ASSUME NEW u \in Task, RecordDownload(u) PROVE history'[t] \in {history[t], "active",
"none"}
  BY <1>2 DEF RecordDownload, HistoryTypeOK
<1>3. ASSUME NEW u \in Task, NEW s \in Terminal, FinalizeDownload(u, s)
      PROVE  history'[t] = history[t]
  BY <1>3 DEF FinalizeDownload, HistoryTypeOK, Terminal
<1>4. ASSUME NEW u \in Task, DeleteRow(u) PROVE history'[t] \in {history[t], "none"}
  BY <1>4 DEF DeleteRow, HistoryTypeOK
<1> QED BY <1>1, <1>2, <1>3, <1>4

(***************************************************************************)
(* The first outcome a run persists stays, whatever the scheduling         *)
(* (finalize_download and record_download).                                *)
(***************************************************************************)
THEOREM FirstOutcomeKept == Spec => FirstOutcomeStays
<1>1. IInv /\ [Next]_vars
        => [\A t \in Task : history[t] \in Terminal => history'[t] \in {history[t],
        "active", "none"}]_vars
  BY RowStep
<1> QED BY <1>1, SpecIInv, PTL DEF Spec, FirstOutcomeStays
=============================================================================
