# Shelfmark: TLA+ models, checks and proofs

Shelfmark is a Flask application that searches for books, takes requests for
them and downloads them. One gunicorn worker of class GeventWebSocketWorker runs
it (`entrypoint.sh`): threads, locks and `time.sleep` are gevent's, so threads of
control switch only where they block. `python -m shelfmark.main` in development
runs the same code with native threads. The models here cover the parts of the
program in which several threads of control change shared state.

Paths are below `src/shelfmark/` unless they start with `src/`.

## Inventory

| Part | State | Operations | What is hard |
|---|---|---|---|
| Download queue, `core/queue.py` | heap, status, task data, cancel flags, active marks | add, get_next, enqueue_existing, cancel_download, update_status, set_priority, reorder_queue, refresh | get_next pops outside the lock; cancel is two critical sections; entries outlive their task |
| Orchestrator, `download/orchestrator.py` | futures, stalled tasks, last activity | coordinator loop, workers, retries | check then act, workers that outlive a cancel or a retry, exceptions settled elsewhere |
| Download routes and hooks, `core/download_routes.py` | none of its own | release, cancel, retry, priority, reorder, status; hooks into history, requests and activity view | hooks run after the queue's lock is released |
| Download history, `core/download_history_service.py` | table download_history | record, finalize, delete | an outcome is persisted by whichever hook comes first |
| Request lifecycle, `core/requests_service.py`, `core/user_db.py` | table download_requests | create, cancel, reject, fulfil, roll back, sync, reopen | claim before queueing, unconditional rollback, counts checked before the insert |
| Request policy, `core/request_policy.py` | the settings' and the users' rules | resolve a mode, save rules, create a batch | precedence of rules, caps by source, limits over a batch |
| Activity view, `core/activity_view_state_service.py`, `core/activity_routes.py` | table of dismissed items | dismiss, clear, history, snapshot, reset | a dismissal of what has just been queued again |
| External clients, `download/clients/base_handler.py` | handler's clean-up references, the client's downloads | add, poll, cancel, clean up | cancel and failure at every step of a remote protocol, two runs on one download |
| qBittorrent adapter, `download/clients/qbittorrent.py` | a session, a category | find, add, status, path, remove | a session that expires, two forms of a hash, files that move |
| File publication, `download/fs.py` | the library's directory | atomic write, move, copy, hard link | two workers and an ingest program, one name |
| Delivery, `download/postprocess/`, `download/outputs/` | staging directories, the staged path of a retry | stage, extract, transfer, upload, clean up | a failure or a cancel after any file |
| Direct download, `release_sources/direct_download.py`, `download/http.py` | failure counters per source, the staged file | cascade over sources, transfer, resume | resumption, countdowns, two downloads of one name |
| Page fetches, `download/http.py`, `download/network.py` | shared mirror, DNS provider and resolver | fetch, rotate mirror, rotate DNS, save DNS | rotations by several fetches and a saved choice |
| IRC connections, `release_sources/irc/` | connections, connecting marks, last use | get, release, close, idle clean-up, wait for an offer | runs that share a client, the clean-up thread |
| Caches, `core/cache.py`, `core/image_cache.py` | entries; an index file and images | get, set, evict, invalidate; put, load, clear | results older than an invalidation, crashes between file and index |
| Accounts, `core/auth_*.py`, `core/rate_limit.py`, `core/admin_routes.py` | users, sessions, attempt counters | log in, link, provision, lock, force out, administrate | sessions that outlive what they were made from |
| Settings, `core/settings_registry.py`, `core/config.py` | files, environment, cache | save, read, migrate, refresh | a cooldown, torn files, half a migration |
| Live status, `api/websocket.py`, `core/websocket_handlers.py` | rooms and counts | connect, identify, leave, broadcast | a status that is older when it arrives |
| Notifications, `core/notifications.py` | route tables, a pool, one logger | save, notify, dispatch, test | two dispatchers, one logger |

A request that is fulfilled, and a release that is chosen, enter the queue
through `queue_release`. The coordinator thread takes tasks from the heap and
gives them to a thread pool; a worker calls a release source's handler, then the
post-processing, and both report through callbacks into the queue. The queue
calls two hooks: the queue hook writes the history row and clears the activity
view, the terminal hook finalizes the row, notifies, and reopens a failed
request. The stall detector of the coordinator cancels through the queue.

What makes the queue and its orchestrator correct: no accepted task is lost, no
task hangs in progress without a worker, each run ends with an outcome, the
persisted row agrees with it, cancelling sticks, a task has one worker.

The other parts meet the queue in few places: a worker's handler is a run of
`ExternalClient`, `IrcConnections` or `DirectDownload`, its post-processing a run
of `Delivery`, which publishes files as `FilePublication` has it; hooks and routes
write what `ActivityView` shows and what `LiveStatus` sends. What makes them
correct: nothing that was begun in another program is left there, nothing that a
retry needs is lost, a published name holds a whole file, an open item is shown, a
cached, shown or configured value is out of date only in named cases, every
fetch, download and call ends.

`PROJECT.json` lists the hazards, each at its line, with the properties that
watch it.

## Modules

| Module | Models |
|---|---|
| `BookQueue` | `core/queue.py`: the queue's state, one operator per critical section of its lock |
| `DownloadHistory` | `core/download_history_service.py`: a row's final status |
| `DownloadSystem` | extends `BookQueue`, takes `DownloadHistory` in with INSTANCE; API requests, workers, coordinator, hooks, restart; the properties |
| `MCDownloadSystem` | the symmetry of workers and requests, for TLC |
| `RequestSpec` | what a request's status promises: decided once, reopened only when fulfilled |
| `RequestLifecycle` | `core/requests_service.py` and the requests table of `core/user_db.py`, with the routes and hooks that call them; implements `RequestSpec` |
| `MCRequestLifecycle` | the symmetry of releases, requests and callers, for TLC |
| `DownloadSystemProofs` | the queue's inductive invariant and theorems |
| `RequestProofs` | the requests' inductive invariant and theorems |
| `ComposedProofs` | theorems about `MCRequestThreads` |
| `FetchingProofs` | theorems about `ExternalClient`, `QBittorrent`, `IrcConnections`, `CoverCache`, `BookTargets` and their composition `MCFetching` |
| `TransferProofs` | theorems about `PageFetch`, `DirectDownload`, `Accounts` and their composition `MCTransfers` |
| `ServiceProofs` | theorems about `FilePublication`, `Delivery`, `ActivityView`, `LiveStatus`, `Settings`, and about `MCService`, which also has the parts of `TableProofs` |
| `TableProofs` | theorems about `RequestPolicy`, `Notifications` |
| `ListProofs` | lemmas on picked lists, first places and least numbers |
| `MCRequestThreads` | the requests under gevent, and once more with native threads: extends `RequestLifecycle` and takes it in with INSTANCE, too |
| `Lists` | what a filter or a loop without repetitions keeps of a list, as a function |
| `Folder` | what the calls of `download/fs.py` promise readers of a folder and callers |
| `RequestPolicy` | `core/request_policy.py`: the resolution of modes as functions; batches of `core/request_routes.py` |
| `ActivityView` | `core/activity_routes.py`, `core/activity_view_state_service.py` |
| `ExternalClient` | `download/clients/base_handler.py` with the sources that resolve a release, against a client |
| `QBittorrent` | `download/clients/qbittorrent.py` and `torrent_utils.py`, request by request |
| `IrcConnections` | `release_sources/irc/connection_manager.py`, `client.py`, `handler.py`, `source.py` |
| `FilePublication` | `download/fs.py`; implements `Folder` |
| `Delivery` | `download/postprocess/`, `download/outputs/`, `download/archive.py` around one task |
| `DirectDownload` | `release_sources/direct_download.py` and the transfers of `download/http.py` |
| `PageFetch` | `html_get_page` of `download/http.py`, mirrors and DNS of `download/network.py`, the bypass |
| `BookTargets` | Hardcover's shelf targets over the cache of `core/cache.py` |
| `CoverCache` | `core/image_cache.py` |
| `Accounts` | logins, linking, sessions, lock and administration of users |
| `Settings` | `core/settings_registry.py`, `core/config.py`, onboarding, the selected provider |
| `LiveStatus` | `api/websocket.py`, `core/websocket_handlers.py` |
| `Notifications` | `core/notifications.py`, `config/notifications_settings.py` |
| `MCFetching`, `MCTransfers`, `MCService` | the runs of the components from `RequestPolicy` to `Notifications`: each behaviour runs one component, named by `part` |

### How state and actions correspond to the code

- `queue`, `status`, `taskData`, `cancelFlags`, `activeDownloads` are the
  fields of `BookQueue`; `setFlags` is the set of `Event` objects that are set.
  `clock` orders the entries of the heap by `added_time`; two enqueues never
  carry the same time, and the wall clock never runs backwards.
- `history` is a row's `final_status`; `"none"` is no row.
- `client[c]` is an API request in progress. `QueueRelease`, `CancelRequest`,
  `RetryRequest` and `RestoreRequest` begin one. `RunQueueHook`,
  `CancelUpdate`, `RunTerminalHook`, `RetryEnqueue` and `RestoreAdd` are the
  rest of it, because locks are released, hooks run and the file system is asked
  in between.
- `job[w]` is a slot of the thread pool with the future in it. `StartJob`,
  `HandlerReturns`, `PostProcessReturns`, `FinishJob`, `FailJob`,
  `WriteOutcome` and `RunJobHook` follow `_process_single_download` and
  `_download_task`; `Report` and `Progress` are the callbacks. What a handler
  or an output does is reduced to its result: a path, none, or an exception.
  `HandlerGoesQuiet` is a handler that polls on, or follows redirects, without
  anything that counts as activity; it may never return.
- `coord` is the coordinator: `Harvest*`, `CoordFail`, `CoordWrite`,
  `CoordHook`, `CancelStalled`, `DispatchPop`, `DispatchClaim`,
  `DispatchSubmit` and the ends of the three phases follow
  `concurrent_download_loop`. The finished futures are listed once a pass, so
  the harvest may end before a future that finishes late.
- `Prioritise`, `GetStatus` and `LibraryDelete` are calls of one critical
  section. `GetStatus` also stands for the refresh of every status broadcast.
- `DrainRace` is `get_next` taking the last entry while another method empties
  the heap; `Restart` loses everything but the database.

`RequestLifecycle` sees the queue from the side of the requests:

- `row[r]` is a row of download_requests, with status, delivery state and
  chosen release; `"absent"` is a request not made yet.
- `task[s]` is the last download of a release: what the queue lists (`status`),
  what its history row says (`history`, `"queued"` for active), the request of
  the task (`request`) and of the row (`owner`). They differ: `record_download`
  leaves request_id alone when the row exists (`Recorded`).
- `hooks` are terminal hooks of failed downloads of requests that have not run:
  `RunHook` finalizes the row and may reopen the request.
- `call[c]` is an API call: `Create`/`Insert`, `Decide` and the `...Writes`
  steps, `QueueClaimed`/`RollBack` of a fulfilment, `SyncReads`, `SyncPlans`,
  `SyncWrites` of the delivery-state sync, `Retry`/`RetryQueues`. `seen` is the
  queue as the status routes listed it, `plan` what the sync computed from it.
- `WithHistory` is the activity snapshot's listing; without it, `SyncPlans` is
  the status route. `Asked` is the late look at the staged file.
- `DirectRelease`, `TaskReports`, `StagedVanishes`, `TaskExpires`,
  `RowDeleted` are what the rest of the program does to a download.
- `Visible` is the refinement mapping: a claim counts as a fulfilment when the
  queue has taken the release, so a rollback is no step of `RequestSpec`.

The other components, each with its own variables:

- `ExternalClient`: `hrun[r]` is a run of `_download_task` at a step of
  `_download`, `_poll_and_complete` or the clean-up; `remote` and `data` are the
  client's downloads and files as the program sees them; `fault` remembers that a
  call failed, `shared` which runs of the task were under way beside another: two
  live ones come of two heap entries or of a retry, as `one_worker` shows. `DataKept`
  compares the files before and after one step.
- `QBittorrent`: `call` is a call of the adapter at a request: `at` is before the
  login, between it and the request, or at the request that changes something;
  `ask` is what it asks for, in the order of the fall-backs. `settled`, `moved` and
  the marks of `call` are history.
- `IrcConnections`: `registered` and `connecting` are the manager's dictionaries for
  one key; `link[c]` is a socket, `inbox[c]` what has arrived; `ipc[u]` a search or
  download. Time is what ages a connection (`aged`).
- `FilePublication`: `holder[n]` is whose file is under the name, `whole` whether
  it is complete; `fpc[w]` is the worker's step in one of the four operations. For
  `Folder` a reader sees the whole files (`Seen`), and a call is being tried, done or
  failed (`Called`, `Outcome`); temporary names, claims and placeholders are stutters.
  A move that is not permitted to copy beside the name copies in place, verifies,
  unlinks the source, removes what is there, tries `mv` and verifies again, each a step
  (`Fallback` to `VerifyMoved`); a file that a worker could not remove makes it `clung`,
  a source that `mv` took in a call that raised all the same makes it `strayed`.
- `Delivery`: `order` is what the settings make of a task; `fetched`, `retryFrom`,
  `files`, `sent`, `delivered` follow its files through the steps of `dpc`. A scan
  finds any part of the release; archives that could not be extracted leave a directory
  of their own (`"broken"`) when another one could. What a run comes to is
  `Settled`: a cancel flag wins over a delivery that has succeeded.
- `ActivityView`: `shelf` is the view table by viewer and item, `panel` a request
  that has read rows (`early`: they changed afterwards).
- `RequestPolicy`: the tables of rules as sequences, `ResolveMode` as the code folds
  them, checked against the claims of the properties; `batch` is a batch request.
- `BookTargets`, `CoverCache`: `views`, `index`, `indexFile`, `cover` are the caches and
  files; `blamed`, `unsaved`, `foreign` remember what excuses a stale entry, `stuck` the
  images that the last operation could not remove. A query for the user's id may fail
  (`WithoutUser`, `Invalidate`), and the index file may not be readable
  (`LookupEmpties`).
- `PageFetch`: `page` is one fetch with its selector; `others` stands for a
  rotation by another fetch, `dnsSave` for the settings. `DirectDownload`: `direct` is
  one download at a step of the cascade; pieces of the file are numbered; `stagedPath`
  is what a retry starts from (`RetryStaged`), and `left` says that the file lies
  there because its delivery or its removal has failed.
- `Accounts`: `accounts`, `session`, `attempts` are the tables and the cookies; an
  external identity has a name, an email and a subject. `Upsert` is the linking.
  `Request` is a request to a route behind `login_required`, the only code that looks
  for a forced logout; `EditSelf` and the administrators' actions ask for a session
  only. `overstayed` is history: a session that was forced out has been served there.
- `Settings`: `stored`, `shape` are the files, `env` the environment, `cache` the
  program's copy; `phase` is the process. `Install` leaves any of an earlier version's
  files behind, down to none but `users.db`.
- `LiveStatus`: `sidRoom`, `userRooms` are the manager's maps, `sender` a broadcast or
  an answer that has read a status. `Notifications`: `entered` keeps the tables as
  somebody typed them, `routes` as they were saved.

History variables change nothing: they name the cases that a property exempts.

### Scheduling

`NativeThreads = FALSE` is production. A thread of control in a state of
`ClientBusy`, `JobBusy` or `CoordBusy` runs code that does not block, so no
other one runs until it leaves that state. States in which it may block are not
busy: a retry asks the file system in another thread (`run_blocking_io`), a
terminal hook submits a notification to an executor before it writes the row,
the coordinator sleeps before it submits a task when others are active, a
handler works on the network. `NativeThreads = TRUE` lets everybody run always.
In the other modules a step ends where the code may block: at a call to another
program, at a file, at a lock.

## Runs

| Run | Question | Bounds |
|---|---|---|
| `queue_greenlets` | is a task lost, hung or wrongly recorded, by any interleaving of production? | 1 task enqueued twice, 2 requests, 2 slots, 1 restart |
| `threads` | by which steps is a queued task lost with native threads? | 2 tasks, 2 enqueues, 1 request, 1 slot |
| `queue_liveness` | does every download get an outcome that its handler does not hold up? | 1 task, 3 enqueues, 1 request, 1 slot, fairness |
| `cancel_sticks` | does a cancelled download stay cancelled? (no) | 1 task |
| `one_worker` | has a task one worker? (no) | 1 task, 2 slots |
| `requests` | do requests follow `RequestSpec`, and are pending ones without a delivery? can two racing decisions both be taken with native threads? | 1 request, 1 release, 1 caller, 1 viewer, 1 restart, late workers; with threads 1 request, 2 callers |
| `requests_reopened` | is a request reopened while its download runs? (yes) | 1 request, 2 releases, 1 call at a time |
| `requests_owner` | does a request turn complete by its own download? (not always) | 2 requests, 1 release, 1 call at a time |
| `fetching` | do runs leave or lose anything in a client or a cache, and do they end? | see below |
| `transfers` | do fetches and downloads end, with the right content; do logins and links hold? | see below |
| `service` | are files, deliveries, views, modes, settings, pages and routes what they stand for? | see below |
| `pages_end` | does a cancelled fetch end? (not while mirrors redirect) | 2 mirrors, 2 providers, 2 attempts |

`MCFetching`, `MCTransfers` and `MCService` compose components that share no state
by alternatives: the first state chooses the one that runs, so no interleaving of
two of them is explored that could show nothing new. `MCRequestThreads` does the
same for the requests with and without preemption.

A run's property may be a conjunction of named parts, each with its comment where
it is defined; TLC reports the conjunction, and the trace shows the part:

| Property | Parts | Module |
|---|---|---|
| `FetchingTypeOK`, `TransfersTypeOK`, `ServiceTypeOK` | the components' type invariants, with the cache's limit, the locked logins' counters and the rooms' counts | `MCFetching`, `MCTransfers`, `MCService` |
| `RunsEnd` | `CancelledRunEnds`, `IrcRunEnds` | `MCFetching` |
| `RegistrySound` | `OneConnector`, `RegisteredNotClosed` | `IrcConnections` |
| `AnswersAreTrue` | `CompleteIsInPlace`, `NotFoundOnlyIfFiltered`, `AuthErrorOnlyAfterTwo`, `StrayOnlyUnknown`, `RemovedIsGone` | `QBittorrent` |
| `DataKept` | `SeedingKept`, `StagedDataKept` | `ExternalClient` |
| `IndexMatchesFiles` | `TornIsNotIndexed`, `FilesGoWithEntries` | `CoverCache` |
| `DnsInForce` | `ResolverIsProviders`, `ChosenDnsStays` | `PageFetch` |
| `OwnBook` | `BufferHasNoGap`, `OwnBookUnlessCrossed`, `LeftoverExplained` | `DirectDownload` |
| `TransfersEnd` | `DirectEnds`, `FetchEnds` | `MCTransfers` |
| `AllOrNothing` | `PartialIsAtWork`, `FailedIsRetryable` | `FilePublication` |
| `RetriesAddUp` | `DoneIsWhole`, `DuplicatesFromLateFailures`, `RetryHasItsSource`, `SuccessIsTidy` | `Delivery` |
| `ModesFollowRules` | `RulesOnlyRestrict`, `OverridesAreLocal` | `RequestPolicy` |
| `PagesUpToDate` | `StaleOnlyByOvertaking`, `OwnView` | `LiveStatus` |
| `DispatchIsOwn` | `EveryRouteOnce`, `OwnRecordsOnly`, `LevelRestored` | `Notifications` |
| `ViewsFollowRows` | `OpenItemsShown`, `HistoryBreaks` | `ActivityView` |

Why the bounds are enough to meet the hazards: everything a task can meet
happens with two enqueues of it, since a third finds the queue as the second
did; two slots are needed for two workers of one task, two requests for a cancel
and a retry of the same task at once; in `threads` a second task shows an entry
that waits behind another, and the drain of a heap of two. `MaxEnqueues` bounds the
enqueues, `MaxRestarts` the restarts, and `Flag` holds one `Event` more than can
be in use, so a new one is always found. `RetryPriority` is before the one
ordinary priority, as -10 is before 0. `Reported` has one in-progress status:
the code treats the three alike.

For requests: one request with one release meets every decision, rollback,
failure, retry, reopening and second fulfilment in any order, since nothing in
the model counts how often. Under gevent only a listing that asks for files and
a retry can be overtaken, so one viewer and one caller, with the hooks and
workers, make every overtaking happen. With `LateReports` a download that is over
may report again, as `one_worker` shows it may; the two violation runs and the
threads of `requests` do without. `MaxPending` is 1 where one request suffices and 2 with two.

Of the components: two runs of a task share a client's downloads (two ids, so a
lost addition shows as a duplicate), with 2 tries where the code has 3, 10 or 60.
Two IRC runs and two sockets share, close and replace a connection. Two workers
with two names meet every clash of `FilePublication`. A delivery has two books
and two runs: one that breaks off, at any of its steps, and its retry; that more
runs add up is proved. The caches hold one image and one view, so the next one evicts.
A new version finds one of four installations:
none of the files, that of the ingest settings alone, and two with the sources' file. Two mirrors and two providers
make each rotation wrap. A download has three links in two or three sources, two
pieces and two resumptions. Two identities differ in subject and email for one
name; two clients hold sessions; the lock falls after 2 attempts where the code has
10. The policy has one title pending at most and two rules of the settings, so a
key may come twice. Four setups of qBittorrent cover the forms of its hash and
lists; the adapter looks for an added torrent twice instead of ten times. Two
pages of one user join, leave and change, while three greenlets send to them: with two,
no status that is older still can follow one that was already late. Three
dispatchers, one a test, and five tables with unknown events, repeated, empty,
unknown and malformed URLs. Each constant of a cfg named `...Limit`, `...Attempts` or
`...Tries` is such a bound or a number of the code made smaller.

Fairness (`FairSpec`): the coordinator's loop never ends and each pass harvests
the futures it finds finished; what a worker does around its handler ends, because
an output bounds its retries and times out; gevent resumes ready greenlets in order,
so one that is ready again and again runs (strong fairness); a request that has
begun is answered. A handler owes nothing: it polls a client for as long as the
client says so, and may follow redirects for ever. What ends a handler that has gone
quiet is stall detection, with fairness of its own for a task whose only handler is
quiet (`StalledFor`): every pass compares the last activity with the time. A cancel
signals the flag, and a task that was cancelled has its outcome, whatever the handler
does. So `EveryDownloadSettles` exempts a task whose handler still reports, has never
reported, or goes on beside an older run that stall detection has cancelled, and one
that waits while no slot is free, since quiet handlers may hold all of them: each
of those is what the code does. Users owe nothing, and neither do callbacks.

Fairness of the components is weak, of the thread's own next step
(`RunStep`, `IrcStep`, `FetchStep`, `DirectStep`): each has an end of its own,
because the code's network calls have timeouts; which answer comes is free. In
`IrcConnections` time passes and the clean-up thread runs, too. In `PageFetch` the
lock for the DNS is taken eventually (strong fairness), since its holders do not
block in it for ever, and the other fetches leave it.

### Disagreements between the code and what it says

- `CancelSticks`: a cancel after `get_next` and before the worker's first
  status is overwritten, and the download completes.
- `OneWorkerPerTask`: an entry that a cancelled task left in the heap is
  dispatched beside the one of its second release; a retry does not wait for the
  worker before it.
- `ReopenedAfterFailure`: a retry overtakes the terminal hook of the failure it
  retries; the hook turns the row that the retry made active to error, and the
  activity snapshot takes the row's status with the running task's
  `retry_available`, so the sync reopens the request while its download runs.
- `OwnDelivery`: a history row keeps the request of its first download, so the
  activity snapshot reports a later download of the release under that request.

- `PagesEnd`: a cancelled fetch goes on as long as mirrors redirect it.

Met while modelling, and exempted by name in a property or stated nowhere else:

- `refresh` forgets a task without its active mark, so `get_active_downloads` may
  list it after its download ended (`core/queue.py:369`).
- With native threads `get_next` takes the last entry from a method that drains the
  heap, and the drained entries are lost (`core/queue.py:345`). Under gevent there is
  no switch at that point, and `QueuedNotLost` holds and is proved; with threads no
  other step loses a queued task (`OnlyDrainLoses`).
- A run that has been cancelled after its delivery, before its status is written, is
  recorded as cancelled (`download/orchestrator.py:882`, `Settled`).
- Two live runs of one task share a download in the client: when one is cancelled, or
  finds the job failed, it deletes what the other is about to import or has staged
  (`download/clients/base_handler.py:853`, `StagedDataKept`), and a torrent that one of
  them adds again may be imported by the other before it is there
  (`FailedOnlyWhenFound`).
- `fs.py` opens with the promise that workers do not disturb each other; a move
  renames after it has asked whether the name is free, and may replace another
  worker's file (`LostOnlyByRace`; `Disturbed` in `Folder`).
- An offer of a bot is taken by the first run that waits for its kind, though
  `irc/handler.py:72` ties a task to its request: two waits on one client may be
  given each other's files (`IrcConnections`, what a run has got is not compared).
- `core/activity_routes.py:304` says that only terminal requests can be dismissed; the
  snapshot's sync reopens a dismissed request and leaves it hidden
  (`OpenItemsShown`). The history answers an error after the library has deleted a
  row that was dismissed (`core/activity_routes.py:1010`, `HistoryBreaks`).
- `Config.refresh` says to pass `force=True` after a settings write
  (`core/config.py:136`); `update_settings` and onboarding do not, so a second write
  within 50 ms stays unseen (`StaleOnlyInCooldown`).
- A move that falls back to a copy in place shows a partial file under its final name
  (`download/fs.py:250`, `PartialIsAtWork`), and one whose `mv` carried the file but did
  not verify raises without its source (`download/fs.py:272`, `strayed`).
- `migrate_direct_download_upgrade` enables direct download "for existing installs
  only" (`core/settings_registry.py:569`): an old installation without
  `download_sources.json` is given that file with the default, off, before the
  migration looks for the setting, and stays off (`MigratedAsInstalled`, `"partial"`).
- A change of a book's shelf drops no view of a status when Hardcover does not tell the
  user's id (`metadata_providers/hardcover.py:2204`, `StaleOnlyByRace`).
- A cover that is known to be missing is cached as such, and looked up again all the
  same (`core/image_cache.py:283`).
- A forced logout should "invalidate all active sessions"
  (`core/admin_routes.py:448`). Only `login_required` looks for it: the routes of
  accounts, requests, activity and administration serve the old session, and so do
  sessions without a login time, as those of a proxy (`ForcedLogoutHolds` is about the
  rest).
- The torrent of an addition that fails with "Could not determine torrent hash"
  stays in the client (`download/clients/qbittorrent.py:436`, `StrayOnlyUnknown`).

## Proofs

`DownloadSystemProofs` proves, for all tasks, requests, slots, flags,
priorities and bounds (assumptions: `QueueAssumption` and `SystemAssumption`,
which type the constants), the theorems below.

- `TypesHold`: `TypeOK`.
- `NoneHangs`: `ProgressHasWorker`, in both scheduling modes.
- `NoneForgotten`: `QueuedNotLost`, under gevent.
- `OnlyDrainsLose`: `OnlyDrainLoses`, in both modes.
- `FinishedIsRecorded`: `FinishedRowNotActive`, under gevent.
- `FirstOutcomeKept`: `FirstOutcomeStays`, in both modes.

The inductive invariant `IInv` is `TypeOK`, `Hold`, `ProgressHasWorker`,
`QueuedHaveData` and, under gevent, `QueuedNotLost`, `Recorded` and
`FinishedRowNotActive`. `Hold` says that whoever is not idle holds a task, and that
whoever is about to write a status holds a terminal one: without it nothing says that
the task a worker settles is the one it ran. `QueuedHaveData` says that a queued task
has its data, since a worker that finds no data gives up without a status write.
`Recorded` says that a request between the queue and its hook finds the task
still queued: without it a row could turn active after its download had ended; it
needs the greenlets' scheduling. `NextIInv` has one lemma per action; `SpecIInv`
combines them. Each lemma also says that its step loses no queued task (`NoneLost`),
whatever the scheduling: all but the one about `DrainRace`, of which it says which tasks
are lost. `OnlyDrainsLose` follows, and `QueuedNotLost` under gevent.

`RequestProofs` proves, for all requests, releases, callers, viewers and bounds
(assumption: `RequestAssumption`):

- `RequestTypes`: `TypeOK`.
- `NoDeliveryWhilePending`: `PendingHasNoDelivery`, under gevent.
- `DecisionsAreTakenOnce`: `DecidedOnce`, in both scheduling modes.
- `LifecycleImplementsSpec`: `FollowsRequestSpec`, under gevent: the refinement
  of `RequestSpec`, with late workers, late hooks and restarts.

Its inductive invariant is `TypeOK`, `Knows` for each call and, under gevent,
`OneBusy` and `PendingHasNoDelivery`. `Knows` says that a call that decides names
a request and, under gevent, that what a busy call has read is still so: a
creation has no row yet, a claim is still fulfilled, and the rows that a sync
means to write are fulfilled. Without it nothing says that a sync does not write
a delivery state over a pending row, or that a rollback undoes its own claim
only. `OneBusy` is what the scheduling gives: at most one call is between
transactions. It also makes the refinement mapping a function of one call
(`ShownByOne`), so each step changes what `RequestSpec` sees of one request at
most: a claim is a stutter, `QueueClaimed` is the decision, a rollback is a
stutter, and a restart in the middle of a claim is a decision. `CallKeeps` and
`CallImplements` say once what each step of a call owes; one lemma per step
shows that. With native threads the refinement is not claimed: a rollback may
then undo a later decision (`DecidedOnce` is what is left).

`ComposedProofs` carries these over to the process of run `requests`, for all constants:
`ComposedInvariant` joins the two invariants, and `ComposedThreadsDecideOnce` follows. A
step of one part leaves the variables of the other. The threads are taken in there once
more, with their proofs (`Proved`), and shown to be those that the run has (`SameInit`,
`SameNext`).

The other proof modules take up one component after another, and then the run that
composes them. Each theorem about a component is for every value of its constants, under
the assumption its module names (`ExternalAssumption`, `PageAssumption`, ...): it types the
constants, takes the set of pages, books or runs as finite where the code counts them, and
has the code's own limits where a bound of a run stands for one. Each invariant is
`...Inv`; its conjuncts are what the property alone does not say and a step needs.

`FetchingProofs`:

- `ClientNoStrayDownload`, `ClientFailedOnlyWhenFound` (`[]`), `ClientDataKept` (a step
  property), for any clients, runs of the task and ids. What they exclude comes of steps
  of several runs; the invariant says who follows what goes on in the client
  (`Followed`, until a call has failed), that of two runs under way each is in `shared`
  (`Alone`), and so is whoever fetches while a file is staged for the next run
  (`StagedIsNext`).
- `QbtAnswersAreTrue`, for any setups and number of looks. An answer is given some
  requests after what it rests on was read: the invariant says what each call knows at
  each step (`CallsFit`, `RestsInPlace`, `PlaceTold`), that a complete torrent stays so,
  that a torrent not listed is filtered or gone, and counts the logins of a call.
- `IrcRegistrySound`, `IrcDisconnectedByPeers`, for any searches, downloads and sockets.
  The run that connects is alone and keeps the registry empty until it stores its
  client, which nobody else holds; a client that is being disconnected has left the
  registry.
- `CoverIndexMatchesFiles`, a step property, for any covers, types and fetches:
  `InForce` says that the live index is what its file says until a save fails or a
  replaced instance writes it.
- `TargetStaleOnlyByRace`, for any statuses, lists and requests: the property itself is
  part of the invariant, with what a request read before it wrote (`RunsFit`).

`TransferProofs`:

- `PageDnsInForce`, for any mirrors and providers: the provider's index is written
  partly outside the lock (`download/network.py`), so `Agree` holds only up to who waits
  for the lock, and `Chosen` only up to a rotation under way when the provider was
  saved.
- `DirectOwnBook`, for any sources, links, pieces and limits: `NoGap` ties the buffer,
  the offset of a range request and the count of received pieces; `FileFits` says when a
  file of the download's own lies at its name, and when the path that a retry starts
  from names one.
- `DirectTyped`: that attempts, resumptions and failures stay within their limits. A
  counter is raised some steps after it was compared, so `Limits` says that a transfer
  under way has an attempt left, and a source under way a failure.
- `AccountForcedLogoutHolds`, `AccountLinkingSettles`, for any names and identities.
  `Remembered` says that an account keeps whose sessions it has revoked through linking,
  renaming and deletion of others, for as long as a session of it lasts. That linking
  settles is a fact about the operators, proved for any table (`Table`).
- `AccountTyped`: that no two accounts have one name (`DistinctNames`). A login of a new
  identity takes the first suffix that is free; there is one, because there is a
  candidate more than rows (`FreeNameIsFree`, by the pigeonhole theorem). Each change of
  the table keeps it sound (`UpsertSound`, `SyncSound`, ...).

`ServiceProofs`:

- `FileAllOrNothing`, `FileLostOnlyByRace`, for any workers and names. `SourceKept` and
  `OneName` say that a worker has a file under the name it tries and no other, and its
  source until the last step of a call that succeeds, or until `mv` has it; `ClaimHolds` says that whoever
  claimed a name has it until a move or the ingest program has disturbed the folder.
- `FileFollowsFolder`: the refinement of `Folder`. It needs `WholeIsPublished` besides: a
  whole file belongs to a worker that has published it, and to one that failed only if
  it was moving or could not remove it. Each step of a call is then a step of the folder or none
  (`SeenChanges`, `OutcomeChanges`, one lemma per kind of step).
- `DeliveryRetriesAddUp`, for any set of files and number of runs. The copies are
  counted run by run (`Copies`), and runs that broke off late are fewer than those
  begun; `Tidy` says which directories a run has made and earlier ones have left.
- `ActivityViewsFollowRows`, for any users, downloads and requests: a step property that
  needs `OwnersKnown` and `NotHiddenBeforeAsked`; each step is proved with what it may
  do to a viewer's entries.
- `LivePagesUpToDate`, for any finite set of pages: a page is up to date or somebody is
  about to bring it the status (`Followed`), and the users' rooms are counted
  (`RoomsCounted`).
- `SettingStaleOnlyInCooldown`, `SettingMigratedAsInstalled`, for any environments:
  `CacheCurrent` relates cache and files unless a refresh was missed; `Installed` says
  what each migration has left of the old settings so far, for an installation with the
  sources' file and for one without.

`TableProofs`:

- `PolicyModesFollowRules`, `PolicyBatchWithinLimits`, for rules in any number and any
  limit. Merged rules keep the places of the settings' rules: that every place of the
  merged list has its key is shown by counting the first places (`PlacesAreCounted`),
  since an induction over the list is out of reach. A batch adds at most a row for each
  item.
- `PolicyTyped`: the run's bound on requests is kept because what is left of a batch fits
  what its user was going to ask for (`TableFits`).
- `NoticeDispatchIsOwn`, for any tables, events and dispatchers. `TablesAgree` says that
  a table as it was saved wants for each event the URLs that the entered one wants,
  whatever was dropped, normalised or repeated; `WorkFits` that a dispatcher's URLs,
  tried and left, are those due, each once; `LevelFits` that the one who sends knows the
  level to restore.

The types of every component are proved (`ClientTyped`, `QbtTyped`, `IrcTyped`,
`CoverTyped`, `TargetTyped`, `PageTyped`, `DirectTyped`, `AccountTyped`, `FileTyped`,
`DeliveryTyped`, `ActivityTyped`, `LiveTyped`, `SettingTyped`, `PolicyTyped`,
`NoticeTyped`).

Of the compositions: `FetchingRunsEach`, `TransfersRunsEach` and `ServiceRunsEach` say
that a behaviour of the run's specification is one of each component's. With them
`FetchingTyped`, `TransfersTyped` and `ServiceTyped` are the runs' type invariants, and
`FetchingSafe`, `FetchingMoves`, `TransfersSafe`, `ServiceSafe` and `ServiceMoves` all
their safety and step properties.

How sets are counted without induction over them: `FiniteSetTheorems` gives sums,
subsets, surjections and the pigeonhole, and the least element of a set of numbers comes
from the well-founded order of finite sets (`LeastOf`). Lists filtered or without
repetitions are written as what is picked from places (`Picked` in `Lists`), about which
that suffices.

What the proofs corrected in the models:

- `FailedOnlyWhenFound` held in the run with two runs of a task and is false with three:
  a torrent that other runs have put back may be imported by a third. It now says so.
- `PagesUpToDate` held with two senders. With three a status may be older than the one
  that was itself late; a page remembers that it was overtaken until it is sent the
  newest, and the run has three senders.
- `MigratedAsInstalled` needs the variable of the routing mode among those that cut a
  migration short.
- `AccountsAssumption`, `LiveAssumption` and `NotificationAssumption` state what the
  runs' values had and no assumption said.

Only model-checked:

- Liveness: `EveryDownloadSettles`, `RunsEnd`, `TransfersEnd` (temporal reasoning about
  fairness is beyond the prover).
- That `Picked` and `Distinct` give what a loop over a list collects, an induction over
  data: TLC compares them with the loop for all short lists (`ListsAreLoops`).

Every safety invariant and every step property of a passing run is a theorem.
The properties of the violation runs are false.

## What the models leave out

- Hook failures. A hook's database error is logged and the row keeps its value;
  the models' hooks succeed. `DownloadSystem` leaves the reopening of a
  request to `RequestLifecycle`, and the reset of the activity view to
  `ActivityView`.
- In `RequestLifecycle`: batches and duplicate detection, which `RequestPolicy` has
  (each request is for a book of its own); permissions, notes, events, dismissed items, the scope
  of a user's listing; the queue's own interleavings (`DownloadSystem` has
  them); an exception of the status broadcast after the release is in the queue,
  which `queue_release` would report as a refusal; a switch between the
  terminal hook's write of the row and its look at the staged file; hooks of
  downloads that are complete, cancelled or not of a request, which run at once.
- The coordinator's error path (log, sleep, next pass) and
  `future.cancelled()`, which nobody brings about.
- `_progress_lock`, which the stall detector holds while it cancels;
  `update_download_status`'s suppression of a repeated event (a callback owes
  nothing in the model); progress values and messages.
- A drain of the heap that puts back some entries before a pop takes a later
  one: it changes the order of two dispatches.
- `get_queue_order` apart from `DrainRace`: it puts back what it drains.
- The window at start-up between `backend.start()` and the wiring of the hooks:
  no request is served before the routes exist.
- `ExternalClient` has one protocol per run; the adapters other than qBittorrent's
  appear by what finding, adding and removing do in them.
- `QBittorrent`: tags, limits and names given with a torrent, progress and messages
  of a status, the other states of a torrent that is not complete.
- `IrcConnections`: nick collisions, the parsing of announcements and results, the
  result cache. `PageFetch`: the browser of the bypass (it answers or not), and the
  resolvers' protocols. `DirectDownload`: searching and the parsing of pages.
- `Delivery`: custom scripts, the choice among several files, naming; what happens
  in a folder while files are published is `FilePublication`.
- `Accounts`: the OIDC and SAML exchanges, password hashing, per-user settings.
- `Settings`: the fields and their forms. `Notifications`: wording.
- `LiveStatus`: progress events, which are lost or late without consequence.

## Plan

1. `BookQueue`, `DownloadHistory`, `DownloadSystem` and their proofs. Done.
2. `RequestSpec`, `RequestLifecycle`, their runs and their proofs. Done.
3. The components around them, from `RequestPolicy` to `Notifications`, with their
   runs. Done.
4. Proofs about them: every safety and step property that a run checks, and every type.
   Done.
5. `Folder`, which `FilePublication` implements, and the runs' compositions. Done.
6. Left: the parts below, as far as they come to share state.

Not modelled: Prowlarr's, Newznab's and AudiobookBay's searches, metadata, naming
and mirrors' lists (parsing and lookup without shared state), the declarations of
settings, and the web frontend (`PROJECT.json` gives the reason for each).
