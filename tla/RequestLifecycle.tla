-------------------------- MODULE RequestLifecycle --------------------------
(***************************************************************************)
(* Requests for books, from their creation to their delivery:              *)
(* src/shelfmark/core/requests_service.py and the download_requests table  *)
(* of src/shelfmark/core/user_db.py, called by request_routes.py, by the   *)
(* status and activity routes (delivery-state sync) and by the terminal    *)
(* hook of the download queue (reopening).                                 *)
(*                                                                         *)
(* A step is one SQL transaction, the read that an API call bases it on,   *)
(* or an event of the download queue.  The queue is reduced to what        *)
(* requests see of it: per release a task, listed by the queue, and a row  *)
(* of the history.                                                         *)
(***************************************************************************)
EXTENDS Naturals, FiniteSets

CONSTANTS
  Request,        \* request ids; each is for a book of its own, all of one user
  NoRequest,      \* a download that nobody requested
  Release,        \* releases (release_data.source_id), also the ids of their tasks
  NoRelease,      \* no release chosen yet
  Caller,         \* threads that serve the calls of users and administrators
  Viewer,         \* threads that serve the status and activity routes
  MaxPending,     \* MAX_PENDING_REQUESTS_PER_USER
  NativeThreads,  \* TRUE: preemptive threads; FALSE: gevent greenlets
  LateReports,    \* whether workers report on a download that is over
  MaxRestarts     \* bound of the model: how many times the process restarts

ASSUME RequestAssumption ==
  /\ NoRequest \notin Request
  /\ NoRelease \notin Release
  /\ MaxPending \in Nat
  /\ NativeThreads \in BOOLEAN
  /\ LateReports \in BOOLEAN
  /\ MaxRestarts \in Nat

Call == Caller \cup Viewer

VARIABLES
  row,       \* download_requests: status, delivery_state, release_data of each id
  task,      \* per release: its last download, in the queue and in the history
  hooks,     \* terminal hooks of failed downloads of requests, still to run
  call,      \* per API call: what it has read and what it still has to write
  restarts   \* process restarts so far

vars == <<row, task, hooks, call, restarts>>

(***************************************************************************)
(* Delivery states are the queue's statuses; "queued" stands for the four  *)
(* in which a download is not over.  Their order is that of QueueStatus.   *)
(***************************************************************************)
Delivery  == {"none", "queued", "complete", "error", "cancelled"}
RowStatus == {"absent", "pending", "fulfilled", "rejected", "cancelled"}
Row       == [status : RowStatus, delivery : Delivery, release : Release \cup {NoRelease}]

Later(d, e) ==
  LET order == [none |-> 0, queued |-> 1, complete |-> 2, error |-> 3, cancelled |-> 4]
  IN order[d] >= order[e]

Unfinished == {"none", "queued"}

(***************************************************************************)
(* status is the queue's ("none": not listed) and history the row's final  *)
(* status ("queued" for active, "none" without a row).  request comes with *)
(* the task and its retry payload; owner is the request_id of the row.     *)
(* staged: a file is left from which a failed download can be retried.     *)
(***************************************************************************)
Download == [status : Delivery, history : Delivery, request : Request \cup {NoRequest},
             owner : Request \cup {NoRequest}, staged : BOOLEAN]
Hook == [release : Release, request : Request, staged : BOOLEAN]

(***************************************************************************)
(* What a status route reads of a task (seen), and what sync then means to *)
(* do with a request (plan): nothing ("none"), or a delivery state to write*)
(* after trying to reopen it if its download is lost.                      *)
(***************************************************************************)
Seen == [delivery : Delivery, request : Request \cup {NoRequest}, retry : BOOLEAN]
Plan == [delivery : Delivery, lost : BOOLEAN, same : BOOLEAN]
CallPC == {"idle", "create", "cancel", "reject", "approve", "claim", "queue", "rollback",
           "asking", "seen", "sync", "retry", "restore"}

CallState == [pc : CallPC, request : Request \cup {NoRequest},
              release : Release \cup {NoRelease}, original : Release \cup {NoRelease},
              seen : [Release -> Seen], plan : [Request -> Plan]]

TypeOK ==
  /\ row \in [Request -> Row]
  /\ task \in [Release -> Download]
  /\ hooks \subseteq Hook
  /\ call \in [Call -> CallState]
  /\ restarts \in Nat

Unlisted == [delivery |-> "none", request |-> NoRequest, retry |-> FALSE]
Nothing  == [delivery |-> "none", lost |-> FALSE, same |-> FALSE]
IdleCall == [pc |-> "idle", request |-> NoRequest, release |-> NoRelease,
             original |-> NoRelease, seen |-> [s \in Release |-> Unlisted],
             plan |-> [r \in Request |-> Nothing]]
NoDownload == [status |-> "none", history |-> "none", request |-> NoRequest,
               owner |-> NoRequest, staged |-> FALSE]

Init ==
  /\ row = [r \in Request |-> [status |-> "absent", delivery |-> "none", release |-> NoRelease]]
  /\ task = [s \in Release |-> NoDownload]
  /\ hooks = {}
  /\ call = [c \in Call |-> IdleCall]
  /\ restarts = 0

(***************************************************************************)
(* Under gevent the transactions of one call follow each other without a   *)
(* switch.  Only two calls ask the file system, and so let others run,     *)
(* between what they read and what they write: queue_status about the files*)
(* of its tasks ("asking") and a retry about the staged file.              *)
(***************************************************************************)
MayBlock == {"idle", "asking", "retry", "restore"}
Runs(c) == NativeThreads \/ \A d \in Call \ {c} : call[d].pc \in MayBlock
NobodyBusy == NativeThreads \/ \A c \in Call : call[c].pc \in MayBlock

Becomes(c, new) == call' = [call EXCEPT ![c] = new]
Goes(c, pc) == call' = [call EXCEPT ![c].pc = pc]
Returns(c) == Becomes(c, IdleCall)
Starts(c, pc, r, s, o) ==
  /\ call[c].pc = "idle"
  /\ Becomes(c, [IdleCall EXCEPT !.pc = pc, !.request = r, !.release = s, !.original = o])

SetRow(r, status, delivery, release) ==
  row' = [row EXCEPT ![r] = [status |-> status, delivery |-> delivery, release |-> release]]

-----------------------------------------------------------------------------
(***************************************************************************)
(* Calls of users and administrators.  Each reads and checks the row, and  *)
(* then updates it if it is still pending (update_request with             *)
(* expected_current_status).                                               *)
(***************************************************************************)
Pending == {r \in Request : row[r].status = "pending"}

Create(c, r, s) ==
  /\ row[r].status = "absent"
  /\ \A d \in Call : call[d].pc = "create" => call[d].request # r
  /\ Cardinality(Pending) < MaxPending
  /\ Starts(c, "create", r, s, NoRelease)
  /\ UNCHANGED <<row, task, hooks, restarts>>

Insert(c) ==
  LET me == call[c] IN
  /\ me.pc = "create"
  /\ SetRow(me.request, "pending", "none", me.release)
  /\ Returns(c)
  /\ UNCHANGED <<task, hooks, restarts>>

\* cancel_request by the owner, reject_request by an administrator, and
\* fulfil_request: with a release, or as a manual approval without one.
Decide(c, r) ==
  /\ row[r].status = "pending"
  /\ \/ \E pc \in {"cancel", "reject"} : Starts(c, pc, r, NoRelease, NoRelease)
     \/ row[r].release = NoRelease /\ Starts(c, "approve", r, NoRelease, NoRelease)
     \/ \E s \in Release : Starts(c, "claim", r, s, row[r].release)
  /\ UNCHANGED <<row, task, hooks, restarts>>

\* An update without expected_current_status.
WriteAnyStatus(c, pc, status, delivery, release) ==
  /\ call[c].pc = pc
  /\ SetRow(call[c].request, status, delivery, release)
  /\ UNCHANGED <<task, hooks, restarts>>

Write(c, pc, status, delivery, release) ==
  LET r == call[c].request IN
  /\ call[c].pc = pc
  /\ row[r].status = "pending"
  /\ SetRow(r, status, delivery, release)
  /\ UNCHANGED <<task, hooks, restarts>>

CancelWrites(c) ==
  Write(c, "cancel", "cancelled", row[call[c].request].delivery, row[call[c].request].release)
    /\ Returns(c)
RejectWrites(c) ==
  Write(c, "reject", "rejected", row[call[c].request].delivery, row[call[c].request].release)
    /\ Returns(c)
ApproveWrites(c) == Write(c, "approve", "fulfilled", "complete", NoRelease) /\ Returns(c)
ClaimWrites(c)   == Write(c, "claim", "fulfilled", "queued", call[c].release) /\ Goes(c, "queue")

\* The transition is stale: somebody else has decided meanwhile.
Stale(c) ==
  /\ call[c].pc \in {"cancel", "reject", "approve", "claim"}
  /\ row[call[c].request].status # "pending"
  /\ Returns(c)
  /\ UNCHANGED <<row, task, hooks, restarts>>

\* record_download: a new row, or an old one that becomes active and keeps its request.
Recorded(t, r) ==
  [t EXCEPT !.history = "queued", !.owner = IF t.history = "none" THEN r ELSE @]

\* BookQueue.add and its hook: a listed task is replaced if it failed or was cancelled.
Addable(s) == task[s].status \in {"none", "error", "cancelled"}
AddTask(s, r, staged) ==
  /\ Addable(s)
  /\ task' = [task EXCEPT ![s] =
       Recorded([@ EXCEPT !.status = "queued", !.request = r, !.staged = staged], r)]

\* queue_release: the release is queued, or refused, for this or another reason.
QueueClaimed(c) ==
  /\ call[c].pc = "queue"
  /\ \/ AddTask(call[c].release, call[c].request, FALSE) /\ Returns(c)
     \/ Goes(c, "rollback") /\ UNCHANGED task
  /\ UNCHANGED <<row, hooks, restarts>>

\* A release that cannot be queued rejects the request.
RollBackRejects(c) ==
  LET me == call[c] IN
  /\ me.pc = "rollback"
  /\ SetRow(me.request, "rejected", "none", me.original)
  /\ Returns(c)
  /\ UNCHANGED <<task, hooks, restarts>>

\* rollback_request_fulfilment, whatever the row has become.
RollBack(c) ==
  LET me == call[c] IN
  /\ me.pc = "rollback"
  /\ SetRow(me.request, "pending", "none", me.original)
  /\ Returns(c)
  /\ UNCHANGED <<task, hooks, restarts>>

-----------------------------------------------------------------------------
(***************************************************************************)
(* Reopening (UserDB.reopen_failed_request), by the terminal hook of a     *)
(* failed download or by the sync of delivery states.  Both give a reason, *)
(* so any fulfilled request that is not complete is reopened.              *)
(***************************************************************************)
\* A reopening that does not look at the status.
ReopenableAnyStatus(r) == row[r].delivery # "complete"

Reopenable(r) == row[r].status = "fulfilled" /\ row[r].delivery # "complete"

\* A reopening that clears the delivery state with NULL.
ReopenNull(r) == SetRow(r, "pending", "null", NoRelease)

Reopen(r) == SetRow(r, "pending", "none", NoRelease)

\* finalize_download, and the reopening if no staged file is left (or ever was).
Finalized(t, status) == IF t.history = "queued" THEN [t EXCEPT !.history = status] ELSE t

RunHook(h) ==
  /\ h \in hooks
  /\ hooks' = hooks \ {h}
  /\ task' = [task EXCEPT ![h.release] = Finalized(@, "error")]
  /\ IF ~(h.staged /\ task[h.release].staged) /\ Reopenable(h.request)
     THEN Reopen(h.request) ELSE UNCHANGED row
  /\ UNCHANGED <<call, restarts>>

(***************************************************************************)
(* sync_delivery_states_from_queue_status.  A failed download of a request *)
(* can be retried from a staged file only (can_retry_download_task, is_    *)
(* retry_available); without one it is lost.                               *)
(***************************************************************************)
CanRetry(status, request, staged) ==
  \/ status = "cancelled"
  \/ status = "error" /\ (request = NoRequest \/ staged)

Listed(t) ==
  IF t.status = "none" THEN Unlisted
  ELSE [delivery |-> t.status, request |-> t.request,
        retry |-> CanRetry(t.status, t.request, t.staged)]

\* queue_status: the tasks in the queue.  It asks for the files of finished ones ...
SyncReads(c) ==
  /\ call[c].pc = "idle"
  /\ Becomes(c, [IdleCall EXCEPT
       !.pc = IF \E s \in Release : task[s].status \notin Unfinished THEN "asking" ELSE "seen",
       !.seen = [s \in Release |-> Listed(task[s])]])
  /\ UNCHANGED <<row, task, hooks, restarts>>

\* ... and may find then that a staged file has gone.
Asked(q, t) == [q EXCEPT !.retry = @ /\ CanRetry(q.delivery, q.request, t.staged)]

\* The activity snapshot shows the history instead, with what the queue says (q) of
\* downloads that are not over, and of retries; without it they are interrupted.
WithHistory(q, t) ==
  IF t.history = "none" THEN Unlisted
  ELSE IF t.history # "queued" THEN
    [delivery |-> t.history, request |-> t.owner,
     retry |-> IF q = Unlisted THEN CanRetry(t.history, t.owner, t.staged) ELSE q.retry]
  ELSE IF q = Unlisted THEN [delivery |-> "error", request |-> t.owner, retry |-> TRUE]
  ELSE q

Fulfilled == {r \in Request : row[r].status = "fulfilled"}

\* A task belongs to its request or, without one, to the only one with its release.
Owner(seen, s) ==
  IF seen[s].request # NoRequest THEN {seen[s].request}
  ELSE LET same == {r \in Fulfilled : row[r].release = s}
       IN IF Cardinality(same) = 1 THEN same ELSE {}

Reports(seen, r) == {s \in Release : seen[s].delivery # "none" /\ r \in Owner(seen, s)}

\* Of the tasks of a request the last one in the order of QueueStatus counts.
LastReports(seen, r) ==
  {s \in Reports(seen, r) :
     \A z \in Reports(seen, r) : Later(seen[s].delivery, seen[z].delivery)}

\* What a route shows: the queue as listed, gone naming the tasks found without their
\* file since, or the history with it.
View(c, history, gone) ==
  [s \in Release |->
     LET q == IF s \in gone THEN Asked(call[c].seen[s], task[s]) ELSE call[c].seen[s]
     IN IF history THEN WithHistory(q, task[s]) ELSE q]

Known(seen) == {r \in Fulfilled : Reports(seen, r) # {}}

PlanFor(r, seen) ==
  [delivery |-> seen.delivery, lost |-> seen.delivery = "error" /\ ~seen.retry,
   same |-> seen.delivery = row[r].delivery]

Plans(seen, last) ==
  [r \in Request |-> IF r \in Known(seen) THEN PlanFor(r, seen[last[r]]) ELSE Nothing]

SyncPlans(c) ==
  /\ call[c].pc \in {"asking", "seen"}
  /\ \E history \in BOOLEAN, gone \in SUBSET Release :
       LET seen == View(c, history, gone) IN
       \E last \in [Known(seen) -> Release] :
         /\ \A r \in Known(seen) : last[r] \in LastReports(seen, r)
         /\ Becomes(c, [IdleCall EXCEPT !.pc = "sync", !.plan = Plans(seen, last)])
  /\ UNCHANGED <<row, task, hooks, restarts>>

Planned(c) == {r \in Request : call[c].plan[r].delivery # "none"}

\* A sync that goes on after a reopening and writes the delivery state too.
SyncWritesAll(c, r) ==
  LET plan == call[c].plan[r] IN
  /\ call[c].pc = "sync" /\ r \in Planned(c)
  /\ row' = [row EXCEPT ![r] =
       IF plan.lost /\ Reopenable(r)
       THEN [status |-> "pending", delivery |-> plan.delivery, release |-> NoRelease]
       ELSE [@ EXCEPT !.delivery = plan.delivery]]
  /\ call' = [call EXCEPT ![c].plan[r] = Nothing]
  /\ UNCHANGED <<task, hooks, restarts>>

SyncWrites(c, r) ==
  LET plan == call[c].plan[r] IN
  /\ call[c].pc = "sync" /\ r \in Planned(c)
  /\ IF plan.lost /\ Reopenable(r) THEN Reopen(r)
     ELSE IF plan.same THEN UNCHANGED row
     ELSE row' = [row EXCEPT ![r].delivery = plan.delivery]
  /\ call' = [call EXCEPT ![c].plan[r] = Nothing]
  /\ UNCHANGED <<task, hooks, restarts>>

SyncEnds(c) ==
  /\ call[c].pc = "sync" /\ Planned(c) = {}
  /\ Returns(c)
  /\ UNCHANGED <<row, task, hooks, restarts>>

-----------------------------------------------------------------------------
(***************************************************************************)
(* The download queue, as far as requests go (DownloadSystem has the rest).*)
(***************************************************************************)
\* A direct download: POST /api/releases/download.
DirectRelease(s) ==
  /\ AddTask(s, NoRequest, FALSE)
  /\ UNCHANGED <<row, hooks, call, restarts>>

\* update_status; a late worker is one that outlives a cancel, and a second release of
\* the task (DownloadSystem, OneWorkerPerTask).  The hook of a failed download of a
\* request is yet to run, any other one has run.
TaskReports(s) ==
  \E status \in {"queued", "complete", "error", "cancelled"}, staged \in BOOLEAN :
    /\ task[s].status \notin {"none", status}
    /\ LateReports \/ task[s].status = "queued"
    /\ staged => status = "error"
    /\ LET t == [task[s] EXCEPT !.status = status, !.staged = staged]
           waits == status = "error" /\ t.request # NoRequest
       IN /\ task' = [task EXCEPT ![s] = IF waits \/ status = "queued" THEN t
                                         ELSE Finalized(t, status)]
          /\ hooks' = IF waits
                      THEN hooks \cup {[release |-> s, request |-> t.request, staged |-> staged]}
                      ELSE hooks
    /\ UNCHANGED <<row, call, restarts>>

\* A retry takes the staged file of a failed download, or it disappears.
StagedVanishes(s) ==
  /\ task[s].staged
  /\ task' = [task EXCEPT ![s].staged = FALSE]
  /\ UNCHANGED <<row, hooks, call, restarts>>

Forgotten(t) == IF t.history = "none" THEN NoDownload ELSE [t EXCEPT !.status = "none"]

\* refresh: the queue forgets an old download, the history does not.
TaskExpires(s) ==
  /\ task[s].status \notin Unfinished
  /\ task' = [task EXCEPT ![s] = Forgotten(@)]
  /\ UNCHANGED <<row, hooks, call, restarts>>

\* DELETE /api/library/<task_id> takes any row.
RowDeleted(s) ==
  /\ task[s].history # "none"
  /\ task' = [task EXCEPT ![s] = IF @.status = "none" THEN NoDownload
                                 ELSE [@ EXCEPT !.history = "none", !.owner = NoRequest]]
  /\ UNCHANGED <<row, hooks, call, restarts>>

\* api_retry_download of a task in the queue, or, once that has forgotten it, of its
\* row, which may be that of an interrupted download ...
Retry(c, s) ==
  LET t == task[s] IN
  /\ \/ /\ CanRetry(t.status, t.request, t.staged)
        /\ Starts(c, "retry", t.request, s, NoRelease)
     \/ /\ t.status = "none"
        /\ t.history = "queued" \/ \A r \in {t.owner, t.request} : CanRetry(t.history, r, t.staged)
        /\ Starts(c, "restore", t.request, s, NoRelease)
  /\ UNCHANGED <<row, task, hooks, restarts>>

\* ... queues it again: enqueue_existing whatever its status is by then, unless it has
\* been forgotten, and retry_persisted_download as a new task.
RetryQueues(c) ==
  LET s == call[c].release
      t == task[s]
      again == [task EXCEPT ![s] = Recorded([t EXCEPT !.status = "queued"], t.request)]
  IN
  /\ \/ call[c].pc = "retry" /\ task' = IF t.status # "none" THEN again ELSE task
     \/ call[c].pc = "restore" /\ AddTask(s, call[c].request, t.staged)
     \/ call[c].pc = "restore" /\ ~Addable(s) /\ UNCHANGED task
  /\ Returns(c)
  /\ UNCHANGED <<row, hooks, restarts>>

\* The process restarts; a hook that had not run leaves its row in the history active.
Restart ==
  /\ restarts < MaxRestarts
  /\ restarts' = restarts + 1
  /\ task' = [s \in Release |-> Forgotten(task[s])]
  /\ hooks' = {}
  /\ call' = [c \in Call |-> IdleCall]
  /\ UNCHANGED row

CallStarts(c) ==
  \/ /\ c \in Caller
     /\ \/ \E r \in Request : Decide(c, r) \/ \E s \in Release \cup {NoRelease} : Create(c, r, s)
        \/ \E s \in Release : Retry(c, s)
  \/ c \in Viewer /\ SyncReads(c)

CallGoesOn(c) ==
  \/ Insert(c) \/ CancelWrites(c) \/ RejectWrites(c) \/ ApproveWrites(c) \/ ClaimWrites(c)
  \/ Stale(c) \/ QueueClaimed(c) \/ RollBack(c)
  \/ SyncPlans(c) \/ (\E r \in Request : SyncWrites(c, r)) \/ SyncEnds(c)
  \/ RetryQueues(c)

QueueMoves ==
  \/ \E s \in Release :
       DirectRelease(s) \/ TaskReports(s) \/ StagedVanishes(s) \/ TaskExpires(s) \/ RowDeleted(s)
  \/ \E h \in hooks : RunHook(h)

Next ==
  \/ \E c \in Call : Runs(c) /\ (CallStarts(c) \/ CallGoesOn(c))
  \/ NobodyBusy /\ QueueMoves
  \/ Restart

Spec == Init /\ [][Next]_vars

-----------------------------------------------------------------------------
(***************************************************************************)
(* Properties.                                                             *)
(***************************************************************************)
\* A call has claimed r and has not yet learnt whether its release is queued.
Claimed(r) == \E c \in Call : call[c].request = r /\ call[c].pc \in {"queue", "rollback"}

\* What RequestSpec sees: a claim counts once the queue has taken the release.
Visible == [r \in Request |->
  IF row[r].status = "fulfilled" /\ Claimed(r) THEN "pending" ELSE row[r].status]

Abstract == INSTANCE RequestSpec WITH status <- Visible

(***************************************************************************)
(* The lifecycle implements RequestSpec: claims, rollbacks, late hooks and *)
(* syncs based on an old listing take a request only where RequestSpec     *)
(* allows, and none of them brings back a cancelled or rejected one        *)
(* (fulfil_request, rollback_request_fulfilment, reopen_failed_request).   *)
(***************************************************************************)
FollowsRequestSpec == Abstract!Spec

(***************************************************************************)
(* A request that waits for a decision shows no delivery, although         *)
(* rollbacks, reopenings and syncs write the two columns at different      *)
(* times (rollback_request_fulfilment, reopen_failed_request,              *)
(* sync_delivery_states_from_queue_status).                                *)
(***************************************************************************)
PendingHasNoDelivery ==
  \A r \in Request : row[r].status = "pending" => row[r].delivery = "none"

(***************************************************************************)
(* Whoever races, a decision is taken on a pending request only, so none   *)
(* follows another without a rollback or a reopening between them          *)
(* (update_request with expected_current_status).                          *)
(***************************************************************************)
DecidedOnce ==
  [][\A r \in Request :
       row'[r].status # row[r].status => "pending" \in {row[r].status, row'[r].status}]_vars

(***************************************************************************)
(* "If delivery fails, an admin can reopen the request to try a different  *)
(* release" (docs/users-and-requests.md): a request is not reopened while  *)
(* the download of its chosen release runs or is complete, unless a        *)
(* failure of the same release is still to be heard of.                    *)
(***************************************************************************)
ReopenedAfterFailure ==
  [][\A r \in Request :
       LET s == row[r].release IN
       Visible[r] = "fulfilled" /\ row'[r].status = "pending" /\ s # NoRelease =>
         \/ task[s].request # r \/ task[s].status \notin {"queued", "complete"}
         \/ \E h \in hooks : h.release = s /\ h.request = r]_vars

(***************************************************************************)
(* "For fulfilled requests, delivery state is tracked through the download *)
(* pipeline" (docs/users-and-requests.md): a request with a release turns  *)
(* complete by a download of its own, or by one that nobody requested.     *)
(***************************************************************************)
OwnDelivery ==
  [][\A r \in Request :
       row[r].delivery # "complete" /\ row'[r].delivery = "complete" /\ row[r].status = "fulfilled" =>
         \E s \in Release : task[s].request \in {r, NoRequest}]_vars
=============================================================================
