--------------------------- MODULE ExternalClient ---------------------------
(***************************************************************************)
(* One release fetched through a torrent or usenet client: the life cycle  *)
(* of ExternalClientHandler (download/clients/base_handler.py) with the    *)
(* sources that resolve the release (Prowlarr, Newznab, AudiobookBay), the *)
(* way the adapters add, find and remove, and the steps of _download_task  *)
(* around it.  The queue may start a run of a task while others of it go   *)
(* on: cancelled ones that have not noticed, and ones that nobody has      *)
(* cancelled, from a second heap entry or a retry of a task whose cancel   *)
(* came before its first status.                                           *)
(***************************************************************************)
EXTENDS Naturals

CONSTANTS
  ClientSetups,   \* the settings: records [adapter, source, removal]
  ClientRun,      \* runs of the task, one handler object each
  RemoteId,       \* ids of downloads in the client; bounds the copies in it
  NoRemote,
  NotFoundLimit,  \* max_not_found_retries
  PathAttempts,   \* COMPLETED_PATH_MAX_ATTEMPTS
  SendAttempts    \* max_attempts of with_retry

ASSUME ExternalAssumption ==
  /\ ClientSetups \subseteq [adapter : {"sabnzbd", "nzbget", "torrent"},
                              source : {"prowlarr", "newznab", "audiobookbay"},
                              removal : BOOLEAN]
  /\ \A s \in ClientSetups : s.source = "audiobookbay" => s.adapter = "torrent"
  /\ NoRemote \notin RemoteId
  /\ {NotFoundLimit, PathAttempts, SendAttempts} \subseteq Nat \ {0}

VARIABLES
  adapter,     \* the client configured for the release's protocol
  source,      \* where the release comes from
  removal,     \* PROWLARR_USENET_ACTION is move, PROWLARR_TORRENT_ACTION remove
  remote,      \* the client's downloads
  data,        \* their files, as Shelfmark sees them
  release,     \* the source's cache entry
  stagedFile,  \* task.staged_path
  hrun,        \* runs of _download_task
  flagged,     \* runs whose cancel flag is set
  shared,      \* history: runs that have been under way beside another
  fault        \* some call to the client failed

clientVars == <<adapter, source, removal, remote, data, release, stagedFile, hrun,
                flagged, shared, fault>>
clientSide == <<adapter, source, removal>>

RunPC == {"idle", "resolve", "find", "add", "addurl", "poll", "oldpath", "path",
          "cleaning", "failing", "import", "importing", "tidy", "ended"}
ClientRunState == [pc : RunPC, id : RemoteId \cup {NoRemote}, tries : Nat,
                   ref : BOOLEAN, found : BOOLEAN]
IdleRun == [pc |-> "idle", id |-> NoRemote, tries |-> 0, ref |-> FALSE,
            found |-> FALSE]

ExternalInit ==
  /\ adapter = "none" /\ source = "none" /\ removal = FALSE
  /\ remote = [q \in RemoteId |-> "absent"]
  /\ data = [q \in RemoteId |-> "none"]
  /\ release = "cached" /\ stagedFile = NoRemote
  /\ hrun = [r \in ClientRun |-> IdleRun]
  /\ flagged = {} /\ shared = {} /\ fault = FALSE

\* get_client: the first client that is configured for the protocol.
ConfigureClient ==
  /\ adapter = "none"
  /\ \E s \in ClientSetups :
       adapter' = s.adapter /\ source' = s.source /\ removal' = s.removal
  /\ UNCHANGED <<remote, data, release, stagedFile, hrun, flagged, shared, fault>>

Usenet == adapter \in {"sabnzbd", "nzbget"}

RunAt(r, pcs) == hrun[r].pc \in pcs
GoTo(r, pc) == hrun' = [hrun EXCEPT ![r].pc = pc, ![r].tries = 0]
\* The run's result is the queue's business (DownloadSystem); its handler object
\* goes with it.
EndRun(r) == hrun' = [hrun EXCEPT ![r] = [IdleRun EXCEPT !.pc = "ended"]]

-----------------------------------------------------------------------------
(* _download_task up to the handler's client call *)

Others(r) == {q \in ClientRun \ {r} : ~RunAt(q, {"idle", "ended"})}
BeginRun(r) ==
  /\ adapter # "none" /\ RunAt(r, {"idle"})
  /\ IF stagedFile # NoRemote /\ data[stagedFile] = "here"
     THEN /\ hrun' = [hrun EXCEPT ![r].pc = "import", ![r].id = stagedFile]
          /\ UNCHANGED stagedFile
     ELSE /\ GoTo(r, "resolve")
          /\ stagedFile' = NoRemote
  /\ shared' = IF Others(r) = {} THEN shared ELSE shared \cup Others(r) \cup {r}
  /\ UNCHANGED <<clientSide, remote, data, release, flagged, fault>>

\* The queue holds the flag of the last run only, and drops it with the end of any;
\* here a cancel may find any run.
CancelRun(r) ==
  /\ ~RunAt(r, {"idle", "ended"}) /\ r \notin flagged
  /\ flagged' = flagged \cup {r}
  /\ UNCHANGED <<clientSide, remote, data, release, stagedFile, hrun, shared, fault>>

\* A Prowlarr task carries what is needed to do without the cache entry; get_release
\* drops an entry that is too old when it is asked for it.
Resolvable == source = "newznab" => release' = "cached"

Resolve(r) ==
  /\ RunAt(r, {"resolve"})
  /\ IF r \in flagged THEN EndRun(r) /\ UNCHANGED release
     ELSE /\ release' \in IF source = "audiobookbay" THEN {release} ELSE {release, "gone"}
          /\ \/ Resolvable /\ GoTo(r, "find")
             \/ EndRun(r)          \* not in the cache, no URL, no magnet link, no client
  /\ UNCHANGED <<clientSide, remote, data, stagedFile, flagged, shared, fault>>

\* NZBGet's adapter cannot look for a URL; a lookup that fails finds nothing.
Findable(q) == adapter # "nzbget" /\ remote[q] \in {"active", "done", "failed"}

\* SABnzbd reports a failed job of its history as complete.
ShownComplete(q) == remote[q] = "done" \/ (remote[q] = "failed" /\ Usenet)

FindExisting(r) ==
  /\ RunAt(r, {"find"})
  /\ \/ \E q \in RemoteId :
          /\ Findable(q)
          /\ hrun' = [hrun EXCEPT ![r].pc = IF ShownComplete(q) THEN "oldpath" ELSE "poll",
                                  ![r].id = q, ![r].found = TRUE]
          /\ UNCHANGED fault
     \/ (\A q \in RemoteId : ~Findable(q)) /\ GoTo(r, "add") /\ UNCHANGED fault
     \/ GoTo(r, "add") /\ fault' = TRUE
  /\ UNCHANGED <<clientSide, remote, data, release, stagedFile, flagged, shared>>

-----------------------------------------------------------------------------
(* add_download *)

\* A torrent's id is its hash; a usenet client gives each copy an id of its own.
TheTorrent == CHOOSE q \in RemoteId : TRUE
NewId(q) == IF Usenet THEN remote[q] = "absent" ELSE q = TheTorrent

Gone == {"absent", "removed"}
Sent(q) == IF remote[q] \in Gone THEN [remote EXCEPT ![q] = "accepted"] ELSE remote

AddDownload(r) ==
  /\ RunAt(r, {"add", "addurl"})
  /\ \E q \in RemoteId :
       /\ NewId(q)
       /\ remote' = Sent(q)
       /\ hrun' = [hrun EXCEPT ![r].pc = "poll", ![r].id = q, ![r].tries = 0]
  /\ UNCHANGED <<clientSide, data, release, stagedFile, flagged, shared, fault>>

\* What follows an add without an answer: with_retry where the adapter has it,
\* SABnzbd's fall-back from addfile to addurl, or the error.
SendAgain(r) ==
  LET retried == \/ adapter = "nzbget" /\ RunAt(r, {"add"})
                 \/ adapter = "sabnzbd" /\ RunAt(r, {"addurl"})
  IN \/ adapter = "sabnzbd" /\ RunAt(r, {"add"}) /\ GoTo(r, "addurl")
     \/ /\ retried /\ hrun[r].tries + 1 < SendAttempts
        /\ hrun' = [hrun EXCEPT ![r].tries = @ + 1]
     \/ ~(adapter = "sabnzbd" /\ RunAt(r, {"add"})) /\ EndRun(r)

AddFails(r) ==
  /\ RunAt(r, {"add", "addurl"})
  /\ \/ UNCHANGED remote                                          \* refused
     \/ \E q \in RemoteId : NewId(q) /\ remote' = Sent(q)         \* the answer is lost
  /\ SendAgain(r)
  /\ fault' = TRUE
  /\ UNCHANGED <<clientSide, data, release, stagedFile, flagged, shared>>

-----------------------------------------------------------------------------
(* _poll_and_complete *)

PollCancelled(r) ==
  /\ RunAt(r, {"poll"}) /\ r \in flagged
  /\ GoTo(r, "cleaning")
  /\ UNCHANGED <<clientSide, remote, data, release, stagedFile, flagged, shared, fault>>

\* Mutant: an error that counts as completion.
PollAnswerIgnoresError(r) == IF remote[hrun[r].id] \in {"done", "failed"} THEN "path" ELSE "poll"
PollAnswer(r) == CASE remote[hrun[r].id] = "done" -> "path"
                   [] remote[hrun[r].id] = "failed" -> "failing"
                   [] remote[hrun[r].id] = "active" -> "poll"
                   [] OTHER -> IF hrun[r].tries + 1 < NotFoundLimit THEN "wait" ELSE "failing"

PollStatus(r) ==
  /\ RunAt(r, {"poll"}) /\ r \notin flagged
  /\ \/ /\ IF PollAnswer(r) = "wait" THEN hrun' = [hrun EXCEPT ![r].tries = @ + 1]
                                     ELSE GoTo(r, PollAnswer(r))
        /\ UNCHANGED fault
     \/ GoTo(r, "failing") /\ fault' = TRUE
  /\ UNCHANGED <<clientSide, remote, data, release, stagedFile, flagged, shared>>

\* _delete_local_download_data and _remove_usenet_download: each may fail and
\* the failure is logged.
Discard(q) ==
  \/ /\ remote' = [remote EXCEPT ![q] = "removed"]
     /\ data' = [data EXCEPT ![q] = "none"]
     /\ UNCHANGED fault
  \/ /\ UNCHANGED remote
     /\ data' \in {data, [data EXCEPT ![q] = "none"]}
     /\ fault' = TRUE

\* Mutant: a cancelled usenet download is left in the client.
CleanLeaves(r) ==
  /\ RunAt(r, {"cleaning"})
  /\ EndRun(r)
  /\ UNCHANGED <<clientSide, remote, data, release, stagedFile, flagged, shared, fault>>

\* _handle_cancelled_download
Clean(r) ==
  /\ RunAt(r, {"cleaning"})
  /\ IF Usenet THEN Discard(hrun[r].id) ELSE UNCHANGED <<remote, data, fault>>
  /\ EndRun(r)
  /\ UNCHANGED <<clientSide, release, stagedFile, flagged, shared>>

\* _safe_remove_download
Fail(r) ==
  /\ RunAt(r, {"failing"})
  /\ IF Usenet THEN Discard(hrun[r].id) ELSE UNCHANGED <<remote, data, fault>>
  /\ EndRun(r)
  /\ UNCHANGED <<clientSide, release, stagedFile, flagged, shared>>

\* The path the client names, mapped to a local one, exists.
PathHere(q) == remote[q] \notin Gone /\ data[q] = "here"

\* _wait_for_completed_path, of a download that has just completed ("path") or
\* that was found complete ("oldpath").  A found one is never removed.
WaitForPath(r) ==
  LET q == hrun[r].id IN
  /\ RunAt(r, {"path", "oldpath"})
  /\ IF r \in flagged
     THEN /\ IF RunAt(r, {"path"}) THEN GoTo(r, "cleaning") ELSE EndRun(r)
          /\ UNCHANGED release
     ELSE IF PathHere(q)
     THEN /\ hrun' = [hrun EXCEPT ![r].pc = "import", ![r].ref = TRUE]
          /\ release' = IF source = "audiobookbay" THEN release ELSE "gone"
     ELSE /\ IF hrun[r].tries + 1 < PathAttempts
             THEN hrun' = [hrun EXCEPT ![r].tries = @ + 1]
             ELSE EndRun(r)
          /\ UNCHANGED release
  /\ UNCHANGED <<clientSide, remote, data, stagedFile, flagged, shared, fault>>

-----------------------------------------------------------------------------
(* _download_task after the handler, and post_process_cleanup *)

\* The client's files lie outside TMP_DIR: safe_cleanup_path leaves them alone.
StartImport(r) ==
  /\ RunAt(r, {"import"})
  /\ IF data[hrun[r].id] # "here" THEN EndRun(r) /\ UNCHANGED stagedFile
     ELSE IF r \in flagged THEN EndRun(r) /\ UNCHANGED stagedFile
     ELSE GoTo(r, "importing") /\ stagedFile' = hrun[r].id
  /\ UNCHANGED <<clientSide, remote, data, release, flagged, shared, fault>>

\* Mutant: the clean-up does not ask whether the import succeeded.
ImportFailsTidies(r) ==
  /\ RunAt(r, {"importing"})
  /\ Discard(hrun[r].id)
  /\ EndRun(r)
  /\ UNCHANGED <<clientSide, release, stagedFile, flagged, shared>>

ImportFails(r) ==
  /\ RunAt(r, {"importing"})
  /\ EndRun(r)
  /\ UNCHANGED <<clientSide, remote, data, release, stagedFile, flagged, shared, fault>>

ImportSucceeds(r) ==
  /\ RunAt(r, {"importing"}) /\ data[hrun[r].id] = "here"
  /\ GoTo(r, "tidy")
  /\ UNCHANGED <<clientSide, remote, data, release, stagedFile, flagged, shared, fault>>

\* client.remove(download_id, delete_files=False)
LetGo(q) == \/ remote' = [remote EXCEPT ![q] = "removed"] /\ UNCHANGED <<data, fault>>
            \/ fault' = TRUE /\ UNCHANGED <<remote, data>>

Tidy(r) ==
  /\ RunAt(r, {"tidy"})
  /\ IF hrun[r].ref /\ removal
     THEN IF Usenet THEN Discard(hrun[r].id) ELSE LetGo(hrun[r].id)
     ELSE UNCHANGED <<remote, data, fault>>
  /\ stagedFile' = NoRemote
  /\ EndRun(r)
  /\ UNCHANGED <<clientSide, release, flagged, shared>>

-----------------------------------------------------------------------------
(* The client *)

RemoteProgress(q) ==
  /\ \/ remote[q] = "accepted" /\ remote' = [remote EXCEPT ![q] = "active"] /\ UNCHANGED data
     \/ /\ remote[q] = "active"
        /\ \/ /\ remote' = [remote EXCEPT ![q] = "done"]
              /\ \E d \in {"late", "here"} : data' = [data EXCEPT ![q] = IF @ = "here" THEN @ ELSE d]
           \/ /\ remote' = [remote EXCEPT ![q] = "failed"]
              /\ \E d \in {"none", "here"} : data' = [data EXCEPT ![q] = IF @ = "here" THEN @ ELSE d]
     \/ data[q] = "late" /\ data' = [data EXCEPT ![q] = "here"] /\ UNCHANGED remote
  /\ UNCHANGED <<clientSide, release, stagedFile, hrun, flagged, shared, fault>>

RunStep(r) ==
  \/ Resolve(r) \/ FindExisting(r) \/ AddDownload(r) \/ AddFails(r)
  \/ PollCancelled(r) \/ PollStatus(r) \/ Clean(r) \/ Fail(r) \/ WaitForPath(r)
  \/ StartImport(r) \/ ImportFails(r) \/ ImportSucceeds(r) \/ Tidy(r)

ExternalNext ==
  \/ ConfigureClient
  \/ \E r \in ClientRun : BeginRun(r) \/ CancelRun(r) \/ RunStep(r)
  \/ \E q \in RemoteId : RemoteProgress(q)

\* A worker's code runs to its end; every wait in it is bounded or ends with
\* the cancel flag.  The client owes nothing.
ExternalFairness == \A r \in ClientRun : WF_clientVars(RunStep(r))

ExternalSpec == ExternalInit /\ [][ExternalNext]_clientVars /\ ExternalFairness

-----------------------------------------------------------------------------
(* Properties *)

\* Types.
ExternalTypeOK ==
  /\ adapter \in {"none", "sabnzbd", "nzbget", "torrent"}
  /\ source \in {"none", "prowlarr", "newznab", "audiobookbay"}
  /\ removal \in BOOLEAN /\ fault \in BOOLEAN
  /\ remote \in [RemoteId -> {"absent", "accepted", "active", "done", "failed", "removed"}]
  /\ data \in [RemoteId -> {"none", "late", "here"}]
  /\ release \in {"cached", "gone"}
  /\ stagedFile \in RemoteId \cup {NoRemote}
  /\ hrun \in [ClientRun -> ClientRunState]
  /\ flagged \subseteq ClientRun /\ shared \subseteq ClientRun

\* A usenet download that still runs in the client is followed by a run that
\* will import or remove it, unless a call to the client failed: no cancel and
\* no error leaves one behind (_handle_cancelled_download, _safe_remove_download).
NoStrayDownload ==
  Usenet /\ ~fault =>
    \A q \in RemoteId : remote[q] \in {"accepted", "active"} =>
      \E r \in ClientRun : hrun[r].id = q /\ RunAt(r, {"poll", "cleaning", "failing"})

\* A run imports what the client calls failed only in two cases.  From a usenet
\* client it found it there as "existing and complete", and either a call failed or
\* another run of the task that fetched it has still to remove it.  A torrent was
\* done, and the clean-up and addition of runs beside it have put it back to the
\* start.
FailedOnlyWhenFound ==
  \A r \in ClientRun :
    /\ RunAt(r, {"import", "importing", "tidy"}) /\ hrun[r].ref
    /\ remote[hrun[r].id] = "failed"
    => IF Usenet
       THEN /\ hrun[r].found
            /\ fault \/ \E q \in ClientRun : /\ hrun[q].id = hrun[r].id
                                           /\ RunAt(q, {"poll", "cleaning", "failing"})
       ELSE removal /\ r \in shared

\* A torrent is taken out of the client only after its import, when the
\* settings say so, and its files are never deleted: it may go on seeding.
SeedingKept ==
  [][adapter = "torrent" =>
       \A q \in RemoteId :
         /\ data[q] = "here" => data'[q] = "here"
         /\ remote[q] \notin Gone /\ remote'[q] \in Gone => removal /\ data[q] = "here"
    ]_clientVars

\* The file a retry would start from is deleted only by the import that succeeds, or
\* by a run that fetches the same download, has been cancelled or has found it failed
\* or gone, and was not alone: the run whose file it is was under way beside it.
StagedDataKept ==
  [][/\ stagedFile # NoRemote
     /\ data[stagedFile] = "here" /\ data'[stagedFile] # "here"
     => \/ stagedFile' = NoRemote
        \/ \E r \in shared : hrun[r].id = stagedFile /\ RunAt(r, {"cleaning", "failing"})
    ]_clientVars

\* A cancelled run ends, at whatever point of the remote protocol the cancel
\* finds it.
CancelledRunEnds ==
  \A r \in ClientRun : (r \in flagged) ~> RunAt(r, {"ended"})

\* The data of a release is deleted only when nobody needs it any more.
DataKept == SeedingKept /\ StagedDataKept
=============================================================================
