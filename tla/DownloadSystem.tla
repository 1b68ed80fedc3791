--------------------------- MODULE DownloadSystem ---------------------------
(***************************************************************************)
(* The download subsystem: the BookQueue, the coordinator thread and its   *)
(* pool of download workers (src/shelfmark/download/orchestrator.py), the  *)
(* API calls of users (src/shelfmark/core/download_routes.py) and the two  *)
(* queue hooks that keep the persisted download history.                   *)
(*                                                                         *)
(* A step is one critical section of BookQueue._lock, one hook call, or a  *)
(* piece of code between them that decides what comes next.                *)
(***************************************************************************)
EXTENDS BookQueue

CONSTANTS
  Client,         \* concurrent API requests
  Worker,         \* the MAX_CONCURRENT_DOWNLOADS slots of the pool
  Reported,       \* the in-progress statuses that handlers report
  NativeThreads,  \* TRUE: preemptive threads; FALSE: gevent greenlets
  MaxRestarts     \* bound of the model: how many times the process restarts

ASSUME SystemAssumption ==
  /\ Reported \subseteq InProgress
  /\ NativeThreads \in BOOLEAN
  /\ MaxRestarts \in Nat

VARIABLES
  history,       \* the download_history table, see DownloadHistory
  client,        \* per API request: what it still has to do, and for which task
  job,           \* per pool slot: the future in it (task, flag, progress)
  coord,         \* the coordinator loop: phase of the pass, and the task at hand
  lastActivity,  \* _last_activity: tasks with a stall-detection entry
  stalledTasks,  \* stalled_tasks: tasks already cancelled because of a stall
  restarts       \* process restarts so far

INSTANCE DownloadHistory

systemVars == <<client, job, coord, lastActivity, stalledTasks, restarts>>
vars == <<queueVars, history, systemVars>>

(***************************************************************************)
(* Control states.  A thread of control that is in one of the states in    *)
(* Busy runs code that never blocks.  Under gevent (one gunicorn worker of *)
(* class GeventWebSocketWorker, entrypoint.sh) nobody else then runs; with *)
(* native threads everybody may.  A terminal hook submits notifications    *)
(* before it writes the row, which can start a thread and so switch; a     *)
(* retry asks the file system for a staged file, which switches.           *)
(***************************************************************************)
ClientPC == {"idle", "queueHook", "cancel", "terminalHook", "retry", "restore"}
JobPC    == {"idle", "submitted", "download", "quiet", "post", "finish", "fail",
             "write", "hook", "done", "raised"}
CoordPC  == {"idle", "popped", "claimed", "cancel", "fail", "write", "hook"}
Phase    == {"harvest", "stall", "dispatch"}
Outcome  == {"none", "path"} \cup Terminal
ClientBusy == {"queueHook", "cancel"}
JobBusy    == {"finish", "fail", "write"}
CoordBusy  == {"popped", "cancel", "fail", "write"}

SystemTypeOK ==
  /\ client \in [Client -> [pc : ClientPC, task : Task \cup {NoTask}]]
  /\ job \in [Worker -> [pc : JobPC, task : Task \cup {NoTask},
                         flag : Flag \cup {NoFlag}, outcome : Outcome]]
  /\ coord \in [phase : Phase, pc : CoordPC, task : Task \cup {NoTask},
                flag : Flag \cup {NoFlag}, outcome : Outcome]
  /\ lastActivity \subseteq Task
  /\ stalledTasks \subseteq Task
  /\ restarts \in Nat

TypeOK == QueueTypeOK /\ HistoryTypeOK /\ SystemTypeOK

IdleClient == [pc |-> "idle", task |-> NoTask]
IdleJob    == [pc |-> "idle", task |-> NoTask, flag |-> NoFlag, outcome |-> "none"]
CoordAt(phase) ==
  [phase |-> phase, pc |-> "idle", task |-> NoTask, flag |-> NoFlag, outcome |-> "none"]

SystemInit ==
  /\ client = [c \in Client |-> IdleClient]
  /\ job = [w \in Worker |-> IdleJob]
  /\ coord = CoordAt("harvest")
  /\ lastActivity = {}
  /\ stalledTasks = {}

Init == QueueInit /\ HistoryInit /\ SystemInit /\ restarts = 0

(***************************************************************************)
(* Scheduling: with greenlets a thread of control runs only when no other  *)
(* one is in the middle of a section that does not block.                  *)
(***************************************************************************)
BusyClients == {c \in Client : client[c].pc \in ClientBusy}
BusyJobs    == {w \in Worker : job[w].pc \in JobBusy}
FreeSlots   == {w \in Worker : job[w].pc = "idle"}

\* A claimed task is submitted after a delay if other downloads are active.
CoordIsBusy ==
  coord.pc \in CoordBusy \/ (coord.pc = "claimed" /\ FreeSlots = Worker)

NobodyBusy == BusyClients = {} /\ BusyJobs = {} /\ ~CoordIsBusy

ClientRuns(c) ==
  NativeThreads \/ (BusyClients \subseteq {c} /\ BusyJobs = {} /\ ~CoordIsBusy)
JobRuns(w) ==
  NativeThreads \/ (BusyClients = {} /\ BusyJobs \subseteq {w} /\ ~CoordIsBusy)
CoordRuns ==
  NativeThreads \/ (BusyClients = {} /\ BusyJobs = {})
CallRuns == NativeThreads \/ NobodyBusy

-----------------------------------------------------------------------------
(***************************************************************************)
(* API requests.  A request that changes the queue in several critical     *)
(* sections, or runs a hook after one, goes through the states of ClientPC.*)
(***************************************************************************)
ClientAt(c, pc, t) == client' = [client EXCEPT ![c] = [pc |-> pc, task |-> t]]
ClientDone(c)      == client' = [client EXCEPT ![c] = IdleClient]
OnlyClient == UNCHANGED <<job, coord, lastActivity, stalledTasks, restarts>>

\* queue_release: POST /api/releases/download and the fulfilment of a request.
QueueRelease(c, t, p) ==
  /\ client[c].pc = "idle"
  /\ Add(t, p)
  /\ ClientAt(c, "queueHook", t)
  /\ UNCHANGED history /\ OnlyClient

\* api_retry_download of a task that is not in memory, and the checks of
\* retry_persisted_download: its row says it is not complete ...
RestoreRequest(c, t) ==
  /\ client[c].pc = "idle"
  /\ t \notin taskData
  /\ history[t] \in {"active", "error", "cancelled"}
  /\ ClientAt(c, "restore", t)
  /\ UNCHANGED <<queueVars, history>> /\ OnlyClient

\* ... and its add, which refuses a task that has come back meanwhile.
RestoreAdd(c) ==
  LET t == client[c].task IN
  /\ client[c].pc = "restore"
  /\ \/ Add(t, RetryPriority) /\ ClientAt(c, "queueHook", t)
     \/ ~Addable(t) /\ ClientDone(c) /\ UNCHANGED queueVars
  /\ UNCHANGED history /\ OnlyClient

\* The queue hook, _record_download_queued, run by the caller after the lock.
RunQueueHook(c) ==
  /\ client[c].pc = "queueHook"
  /\ RecordDownload(client[c].task)
  /\ ClientDone(c)
  /\ UNCHANGED queueVars /\ OnlyClient

\* api_cancel_download and the first critical section of cancel_download.
CancelRequest(c, t) ==
  /\ client[c].pc = "idle"
  /\ t \in taskData
  /\ SignalCancel(t)
  /\ ClientAt(c, "cancel", t)
  /\ UNCHANGED history /\ OnlyClient

\* Its second critical section, whatever the status has become.
CancelUpdate(c) ==
  LET t == client[c].task IN
  /\ client[c].pc = "cancel"
  /\ UpdateStatus(t, "cancelled")
  /\ IF HookDue(t, "cancelled") THEN ClientAt(c, "terminalHook", t) ELSE ClientDone(c)
  /\ UNCHANGED history /\ OnlyClient

\* The terminal hook, _record_download_terminal_snapshot.
RunTerminalHook(c) ==
  /\ client[c].pc = "terminalHook"
  /\ FinalizeDownload(client[c].task, "cancelled")
  /\ ClientDone(c)
  /\ UNCHANGED queueVars /\ OnlyClient

\* retry_download: the checks, which may block on the file system ...
RetryRequest(c, t) ==
  /\ client[c].pc = "idle"
  /\ t \in taskData /\ status[t] \in {"error", "cancelled"}
  /\ ClientAt(c, "retry", t)
  /\ UNCHANGED <<queueVars, history>> /\ OnlyClient

\* ... and enqueue_existing, which refuses only a task that has no data left.
RetryEnqueue(c) ==
  LET t == client[c].task IN
  /\ client[c].pc = "retry"
  /\ \/ EnqueueExisting(t) /\ ClientAt(c, "queueHook", t)
     \/ t \notin taskData /\ ClientDone(c) /\ UNCHANGED queueVars
  /\ UNCHANGED history /\ OnlyClient

ClientFinishes(c) ==
  \/ RunQueueHook(c) \/ CancelUpdate(c) \/ RunTerminalHook(c)
  \/ RetryEnqueue(c) \/ RestoreAdd(c)

ClientStarts(c) ==
  \E t \in Task :
    \/ \E p \in Priority : QueueRelease(c, t, p)
    \/ RestoreRequest(c, t)
    \/ CancelRequest(c, t)
    \/ RetryRequest(c, t)

(***************************************************************************)
(* Calls of one critical section: changing priorities, and the refresh     *)
(* that every get_status begins with.  The status broadcasts that end most *)
(* requests and jobs call get_status too: GetStatus stands for theirs,     *)
(* since the refresh takes the lock on its own and may find nothing.       *)
(***************************************************************************)
Prioritise ==
  /\ \/ \E t \in Task, p \in Priority : SetPriority(t, p)
     \/ \E S \in SUBSET Task : \E m \in [S -> Priority] : ReorderQueue(m)
  /\ UNCHANGED <<history, systemVars>>

GetStatus ==
  /\ \E expired \in SUBSET Task : expired # {} /\ Refresh(expired)
  /\ UNCHANGED <<history, systemVars>>

\* DELETE /api/library/<task_id> takes any row, that of a running download too.
LibraryDelete ==
  /\ \E t \in Task : DeleteRow(t)
  /\ UNCHANGED <<queueVars, systemVars>>

-----------------------------------------------------------------------------
(***************************************************************************)
(* A download worker: _process_single_download and _download_task.         *)
(***************************************************************************)
JobAt(w, pc) == job' = [job EXCEPT ![w].pc = pc]
JobEndsWith(w, pc, o) == job' = [job EXCEPT ![w].pc = pc, ![w].outcome = o]
Cancelled(w) == job[w].flag \in setFlags
OnlyJob == UNCHANGED <<client, coord, stalledTasks, restarts>>

\* Nothing is downloaded for a cancelled flag or a task without data.
StartJob(w) ==
  /\ job[w].pc = "submitted"
  /\ JobAt(w, IF Cancelled(w) \/ job[w].task \notin taskData
              THEN "finish" ELSE "download")
  /\ UNCHANGED <<queueVars, history, lastActivity>> /\ OnlyJob

\* A status callback of the handler or the output: update_download_status.
Report(w, s) ==
  /\ job[w].pc \in {"download", "post"}
  /\ UpdateStatus(job[w].task, s)
  /\ lastActivity' = lastActivity \cup {job[w].task}
  /\ UNCHANGED <<job, history>> /\ OnlyJob

\* A progress callback: update_download_progress.
Progress(w) ==
  /\ job[w].pc = "download"
  /\ lastActivity' = lastActivity \cup {job[w].task}
  /\ UNCHANGED <<queueVars, job, history>> /\ OnlyJob

\* The handler goes on without another report that counts as activity: it polls a client
\* that says the same each time, or fetches from one address after another.
HandlerGoesQuiet(w) ==
  /\ job[w].pc = "download"
  /\ JobAt(w, "quiet")
  /\ UNCHANGED <<queueVars, history, lastActivity>> /\ OnlyJob

\* The handler returns: a file, if the flag is not set by then; or no file; or it raises.
HandlerReturns(w) ==
  /\ job[w].pc \in {"download", "quiet"}
  /\ \/ ~Cancelled(w) /\ JobAt(w, "post")
     \/ JobAt(w, "finish")
     \/ JobAt(w, "raised")
  /\ UNCHANGED <<queueVars, history, lastActivity>> /\ OnlyJob

PostProcessReturns(w) ==
  /\ job[w].pc = "post"
  /\ \/ JobEndsWith(w, "finish", "path")
     \/ JobEndsWith(w, "finish", "none")
     \/ JobAt(w, "raised")
  /\ UNCHANGED <<queueVars, history, lastActivity>> /\ OnlyJob

\* A worker that leaves the cancelled status to whoever set the flag.
FinishJobTrustsCancel(w) ==
  /\ job[w].pc = "finish"
  /\ IF Cancelled(w) THEN JobAt(w, "done")
     ELSE IF job[w].outcome = "path" THEN JobEndsWith(w, "write", "complete")
     ELSE JobAt(w, "fail")
  /\ lastActivity' = lastActivity \ {job[w].task}
  /\ UNCHANGED <<queueVars, history>> /\ OnlyJob

\* The flag is asked once more: cancelled, complete or failed.
FinishJob(w) ==
  /\ job[w].pc = "finish"
  /\ IF Cancelled(w) THEN JobEndsWith(w, "write", "cancelled")
     ELSE IF job[w].outcome = "path" THEN JobEndsWith(w, "write", "complete")
     ELSE JobAt(w, "fail")
  /\ lastActivity' = lastActivity \ {job[w].task}
  /\ UNCHANGED <<queueVars, history>> /\ OnlyJob

\* A failure that is not written over a download that has reported nothing.
FailJobIfReported(w) ==
  /\ job[w].pc = "fail"
  /\ IF job[w].task \in taskData /\ status[job[w].task] \in InProgress
     THEN JobEndsWith(w, "write", "error")
     ELSE JobAt(w, "done")
  /\ UNCHANGED <<queueVars, history, lastActivity>> /\ OnlyJob

\* _finalize_download_failure gives up when the task has no data.
FailJob(w) ==
  /\ job[w].pc = "fail"
  /\ IF job[w].task \in taskData THEN JobEndsWith(w, "write", "error")
                                 ELSE JobAt(w, "done")
  /\ UNCHANGED <<queueVars, history, lastActivity>> /\ OnlyJob

WriteOutcome(w) ==
  /\ job[w].pc = "write"
  /\ UpdateStatus(job[w].task, job[w].outcome)
  /\ JobAt(w, IF HookDue(job[w].task, job[w].outcome) THEN "hook" ELSE "done")
  /\ UNCHANGED <<history, lastActivity>> /\ OnlyJob

RunJobHook(w) ==
  /\ job[w].pc = "hook"
  /\ FinalizeDownload(job[w].task, job[w].outcome)
  /\ JobAt(w, "done")
  /\ UNCHANGED <<queueVars, lastActivity>> /\ OnlyJob

JobAdvances(w) ==
  \/ StartJob(w) \/ PostProcessReturns(w)
  \/ FinishJob(w) \/ FailJob(w) \/ WriteOutcome(w) \/ RunJobHook(w)

HandlerMoves(w) ==
  \/ Progress(w) \/ \E s \in Reported : Report(w, s)
  \/ HandlerGoesQuiet(w) \/ HandlerReturns(w)

-----------------------------------------------------------------------------
(***************************************************************************)
(* The coordinator: concurrent_download_loop.  Every pass harvests the     *)
(* finished futures, cancels stalled downloads and dispatches new ones.    *)
(***************************************************************************)
CoordIn(phase) == coord.phase = phase /\ coord.pc = "idle"
CoordNow(pc) == coord' = [coord EXCEPT !.pc = pc]
CoordHas(t, pc, o) == coord' = [coord EXCEPT !.task = t, !.pc = pc, !.outcome = o]
CoordReturns == coord' = CoordAt(coord.phase)
\* The future leaves active_futures, and its Event is garbage.
Harvest(w) ==
  /\ CoordIn("harvest")
  /\ job' = [job EXCEPT ![w] = IdleJob]
  /\ stalledTasks' = stalledTasks \ {job[w].task}
  /\ setFlags' = setFlags \ {job[w].flag}
  /\ UNCHANGED <<queue, status, taskData, cancelFlags, activeDownloads, clock>>
  /\ UNCHANGED <<history, client, restarts>>

HarvestDone(w) ==
  /\ job[w].pc = "done"
  /\ Harvest(w)
  /\ UNCHANGED <<coord, lastActivity>>

\* A coordinator that only logs the exception of a future.
HarvestRaisedUnsettled(w) ==
  /\ job[w].pc = "raised"
  /\ Harvest(w)
  /\ lastActivity' = lastActivity \ {job[w].task}
  /\ UNCHANGED coord

\* A future with an exception is settled here instead of by its worker.
HarvestRaised(w) ==
  LET t == job[w].task IN
  /\ job[w].pc = "raised"
  /\ Harvest(w)
  /\ lastActivity' = lastActivity \ {t}
  /\ IF Cancelled(w) THEN CoordHas(t, "write", "cancelled") ELSE CoordHas(t, "fail", "none")

\* Stall detection calls cancel_download once per task until its future ends.
CancelStalled(w) ==
  LET t == job[w].task IN
  /\ CoordIn("stall")
  /\ job[w].pc # "idle"
  /\ t \in lastActivity \ stalledTasks
  /\ stalledTasks' = stalledTasks \cup {t}
  /\ \/ SignalCancel(t) /\ CoordHas(t, "cancel", "cancelled")
     \/ ~Cancellable(t) /\ UNCHANGED <<queueVars, coord>>
  /\ UNCHANGED <<history, client, job, lastActivity, restarts>>

\* get_next, called while a slot is free.
DispatchPop(i) ==
  /\ CoordIn("dispatch")
  /\ FreeSlots # {}
  /\ Pop(i)
  /\ CoordHas(i.task, "popped", "none")
  /\ UNCHANGED <<history, client, job, lastActivity, stalledTasks, restarts>>

FlagsInUse == {cancelFlags[t] : t \in Task} \cup {job[w].flag : w \in Worker}
NewFlag == CHOOSE f \in Flag : f \notin FlagsInUse

DispatchClaim ==
  /\ coord.pc = "popped"
  /\ \/ /\ Flag \ FlagsInUse # {}
        /\ Claim(coord.task, NewFlag)
        /\ coord' = [coord EXCEPT !.pc = "claimed", !.flag = NewFlag]
     \/ SkipClaim(coord.task) /\ CoordReturns
  /\ UNCHANGED <<history, client, job, lastActivity, stalledTasks, restarts>>

\* After the stagger delay the job goes to the pool.
DispatchSubmit(w) ==
  /\ coord.pc = "claimed"
  /\ w \in FreeSlots
  /\ job' = [job EXCEPT ![w] = [pc |-> "submitted", task |-> coord.task,
                                flag |-> coord.flag, outcome |-> "none"]]
  /\ CoordReturns
  /\ UNCHANGED <<queueVars, history, client, lastActivity, stalledTasks, restarts>>

OnlyPhase == UNCHANGED <<queueVars, history, client, job, lastActivity, stalledTasks, restarts>>

\* The finished futures are listed once a pass: one that ends later waits for the next.
EndHarvest  == CoordIn("harvest") /\ coord' = CoordAt("stall") /\ OnlyPhase
EndStall    == CoordIn("stall") /\ coord' = CoordAt("dispatch") /\ OnlyPhase
EndDispatch == /\ CoordIn("dispatch") /\ (queue = {} \/ FreeSlots = {})
               /\ coord' = CoordAt("harvest") /\ OnlyPhase

OnlyCoord == UNCHANGED <<client, job, lastActivity, stalledTasks, restarts>>

CoordFail ==
  /\ coord.pc = "fail"
  /\ IF coord.task \in taskData THEN CoordHas(coord.task, "write", "error") ELSE CoordReturns
  /\ UNCHANGED <<queueVars, history>> /\ OnlyCoord

\* The status write of a settled exception, or the second half of cancel_download.
CoordWrite ==
  /\ coord.pc \in {"write", "cancel"}
  /\ UpdateStatus(coord.task, coord.outcome)
  /\ IF HookDue(coord.task, coord.outcome) THEN CoordNow("hook") ELSE CoordReturns
  /\ UNCHANGED history /\ OnlyCoord

CoordHook ==
  /\ coord.pc = "hook"
  /\ FinalizeDownload(coord.task, coord.outcome)
  /\ CoordReturns
  /\ UNCHANGED queueVars /\ OnlyCoord

CoordAdvances ==
  \/ \E w \in Worker : HarvestDone(w) \/ HarvestRaised(w) \/ CancelStalled(w) \/ DispatchSubmit(w)
  \/ \E i \in queue : DispatchPop(i)
  \/ DispatchClaim \/ CoordFail \/ CoordWrite \/ CoordHook
  \/ EndHarvest \/ EndStall \/ EndDispatch

-----------------------------------------------------------------------------
(***************************************************************************)
(* set_priority, reorder_queue, enqueue_existing and get_queue_order empty *)
(* the heap into a list with "while not empty(): get_nowait()".  get_next  *)
(* pops without the lock, so with native threads it can take the last item *)
(* between the two calls: get_nowait raises queue.Empty and the list, with *)
(* every other item, is dropped.                                           *)
(***************************************************************************)
DrainRace(i) ==
  /\ NativeThreads
  /\ CoordIn("dispatch")
  /\ FreeSlots # {}
  /\ \A j \in queue \ {i} : Before(j, i)
  /\ queue' = {}
  /\ CoordHas(i.task, "popped", "none")
  /\ UNCHANGED <<status, taskData, cancelFlags, activeDownloads, setFlags, clock>>
  /\ UNCHANGED <<history, client, job, lastActivity, stalledTasks, restarts>>

\* The process ends and starts again: everything but the database is lost.
Restart ==
  /\ restarts < MaxRestarts
  /\ restarts' = restarts + 1
  /\ queue' = {} /\ status' = [t \in Task |-> "unknown"] /\ taskData' = {}
  /\ cancelFlags' = [t \in Task |-> NoFlag] /\ activeDownloads' = {} /\ setFlags' = {}
  /\ client' = [c \in Client |-> IdleClient]
  /\ job' = [w \in Worker |-> IdleJob]
  /\ coord' = CoordAt("harvest")
  /\ lastActivity' = {} /\ stalledTasks' = {}
  /\ UNCHANGED <<clock, history>>

ClientNext == \E c \in Client : ClientRuns(c) /\ (ClientStarts(c) \/ ClientFinishes(c))
JobNext    == \E w \in Worker : JobRuns(w) /\ (JobAdvances(w) \/ HandlerMoves(w))
CoordNext  == CoordRuns /\ CoordAdvances
CallNext   == CallRuns /\ (Prioritise \/ GetStatus \/ LibraryDelete)

Next ==
  \/ ClientNext
  \/ JobNext
  \/ CoordNext
  \/ CallNext
  \/ \E i \in queue : DrainRace(i)
  \/ Restart

Spec == Init /\ [][Next]_vars

(***************************************************************************)
(* Fairness.  The coordinator's loop never ends; every pass harvests every *)
(* future it finds finished, and cancels every task whose only handler has *)
(* been quiet for STALL_TIMEOUT.  What a worker does around its handler    *)
(* ends: an output bounds its retries and its waits.  A handler owes       *)
(* nothing: it polls a client for as long as the client says that it goes  *)
(* on, and may report for ever or not at all.  Strong fairness because a   *)
(* greenlet that is ready runs although others run in between: gevent's    *)
(* hub resumes ready greenlets in order.  A request that has begun is      *)
(* answered.  Users owe nothing.                                           *)
(***************************************************************************)
StalledFor(w) ==
  /\ job[w].pc = "quiet"
  /\ \A v \in Worker : job[v].task = job[w].task => job[v].pc \notin {"download", "post"}

Fairness ==
  /\ SF_vars(CoordNext)
  /\ \A w \in Worker : SF_vars(CoordRuns /\ (HarvestDone(w) \/ HarvestRaised(w)))
  /\ \A w \in Worker : SF_vars(CoordRuns /\ StalledFor(w) /\ CancelStalled(w))
  /\ \A w \in Worker : SF_vars(JobRuns(w) /\ JobAdvances(w))
  /\ \A c \in Client : WF_vars(ClientRuns(c) /\ ClientFinishes(c))

FairSpec == Spec /\ Fairness

-----------------------------------------------------------------------------
(***************************************************************************)
(* Properties.                                                             *)
(***************************************************************************)
\* Worker w still has to settle task t.
Runs(w, t) ==
  job[w].task = t /\ job[w].pc \in {"submitted", "download", "quiet", "post", "finish",
                                    "fail", "write", "raised"}

\* The coordinator holds task t: popped or claimed for a worker.
Dispatching(t) == coord.task = t /\ coord.pc \in {"popped", "claimed"}

\* The coordinator is about to settle task t, whose worker raised.
Settling(t) == coord.task = t /\ coord.pc \in {"fail", "write"}

(***************************************************************************)
(* No accepted download is forgotten: a task shown as queued is in the     *)
(* heap, in the coordinator's hands, or with a worker that has not reported*)
(* yet (BookQueue.add, get_next, enqueue_existing, concurrent_download_    *)
(* loop).                                                                  *)
(***************************************************************************)
Kept(t) ==
  \/ \E i \in queue : i.task = t
  \/ Dispatching(t) \/ Settling(t)
  \/ \E w \in Worker : Runs(w, t)
QueuedNotLost == \A t \in Task : status[t] = "queued" => Kept(t)

(***************************************************************************)
(* Whatever the threads do between each other's critical sections, and     *)
(* after a restart, a download that is shown as queued is lost only where  *)
(* get_next, which pops without the lock, takes the last item from under a *)
(* method that is emptying the heap: by that step, and only a download     *)
(* other than the one it takes (set_priority, reorder_queue,               *)
(* enqueue_existing, get_queue_order, get_next).                           *)
(***************************************************************************)
Lost(t) == status[t] = "queued" /\ ~Kept(t)
OnlyDrainLoses ==
  [][\A t \in Task : ~Lost(t) /\ Lost(t)' =>
       \E i \in queue : DrainRace(i) /\ i.task # t]_vars

(***************************************************************************)
(* No download hangs: a task shown as resolving, locating or downloading   *)
(* has a worker, or the coordinator, that will still write its outcome     *)
(* (update_download_status, _process_single_download).                     *)
(***************************************************************************)
ProgressHasWorker ==
  \A t \in taskData : status[t] \in InProgress =>
    Settling(t) \/ \E w \in Worker : Runs(w, t)

\* A terminal hook for task t has still to run.
HookPending(t) ==
  \/ \E c \in Client : client[c].task = t /\ client[c].pc = "terminalHook"
  \/ \E w \in Worker : job[w].task = t /\ job[w].pc = "hook"
  \/ coord.task = t /\ coord.pc = "hook"

(***************************************************************************)
(* The history row of a task that the queue shows as finished is not       *)
(* "active", unless a hook that will finalize it is on its way: such a row *)
(* would later be shown as interrupted and offered for a retry, although   *)
(* the download ended (the queue hook, the terminal hook, update_status    *)
(* and record_download together).                                          *)
(***************************************************************************)
FinishedRowNotActive ==
  \A t \in taskData : status[t] \in Terminal =>
    history[t] # "active" \/ HookPending(t)

(***************************************************************************)
(* The first outcome a run persists stays: a final row becomes active when *)
(* the task is queued again, or is deleted, but never takes another        *)
(* outcome (finalize_download, record_download, delete_by_task_id).        *)
(***************************************************************************)
FirstOutcomeStays ==
  [][\A t \in Task : history[t] \in Terminal =>
       history'[t] \in {history[t], "active", "none"}]_vars

(***************************************************************************)
(* Every download settles: one that is queued or in progress eventually    *)
(* has an outcome, or is with a handler that is at work, or waits while no *)
(* slot is free, and so again whenever its wait or its handler ends.  A    *)
(* handler that goes quiet is no excuse, but for what stall detection does *)
(* not see: one that has reported nothing yet, or goes on beside an older  *)
(* run of its task that was cancelled for the same reason                  *)
(* (concurrent_download_loop and its workers).                             *)
(***************************************************************************)
Unsettled(t) == t \in taskData /\ status[t] \in {"queued"} \cup InProgress
AtWork(t) ==
  \E w \in Worker :
    /\ job[w].task = t
    /\ \/ job[w].pc = "download"
       \/ job[w].pc = "quiet" /\ t \notin lastActivity \ stalledTasks
WaitsForSlot(t) == ItemsOf(t) # {} /\ FreeSlots = {}
EveryDownloadSettles ==
  \A t \in Task :
    Unsettled(t) ~> (~Unsettled(t) \/ (ItemsOf(t) = {} /\ AtWork(t)) \/ WaitsForSlot(t))

(***************************************************************************)
(* Cancelling is final until the task is queued again: cancel_download is  *)
(* documented to "cancel an active or queued download" (queue.py:244).     *)
(***************************************************************************)
CancelSticks ==
  [][\A t \in Task : status[t] = "cancelled" =>
       status'[t] \in {"cancelled", "queued", "unknown"}]_vars

(***************************************************************************)
(* At most one worker downloads a task at a time: add "returns False if    *)
(* already exists" (queue.py:66) and enqueue_existing de-duplicates.       *)
(***************************************************************************)
OneWorkerPerTask ==
  \A t \in Task : \A v, w \in Worker : Runs(v, t) /\ Runs(w, t) => v = w
=============================================================================
