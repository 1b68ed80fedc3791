------------------------------ MODULE Delivery ------------------------------
(***************************************************************************)
(* What _download_task does with a fetched release: the output handlers    *)
(* (download/outputs), the preparation of the files (postprocess, staging, *)
(* archive) and their clean-up, over the retries of one task.              *)
(***************************************************************************)
EXTENDS Naturals, FiniteSets

CONSTANTS
  Book,          \* the files of the release
  DeliveryRuns   \* bound on the runs of the task

ASSUME DeliveryAssumption == IsFiniteSet(Book) /\ DeliveryRuns \in Nat

VARIABLES
  order,       \* the task and the settings it meets
  dpc,         \* where the run is
  dresult,     \* how the last run ended
  runs,        \* runs begun
  fetched,     \* the fetched release is on disk
  retryFrom,   \* task.staged_path is set
  dcancel,     \* the cancel flag
  files,       \* the files the run will deliver
  sent,        \* the files the run has delivered
  delivered,   \* how often each file was delivered, over all runs
  made,        \* directories this run has made, by what they are for
  litter,      \* those that earlier runs have left
  lateFailures \* runs that did not end well after they had delivered something

deliveryVars == <<order, dpc, dresult, runs, fetched, retryFrom, dcancel, files, sent,
                  delivered, made, litter, lateFailures>>

Order == [output : {"folder", "email", "booklore"}, audiobook : BOOLEAN,
          origin : {"direct", "usenet", "torrent"}, inTmp : BOOLEAN,
          content : {"books", "archives", "unsupported"}, hardlink : BOOLEAN]
\* The copy that e-mail and Booklore work on; archives that could be extracted, and not.
Directory == {"copy", "extracted", "broken"}
\* A direct download is staged in TMP_DIR; only torrents are linked.
LegalOrder(o) == /\ o.origin = "direct" => o.inTmp
                 /\ o.hardlink => o.origin = "torrent"
NoOrder == [output |-> "none", audiobook |-> FALSE, origin |-> "direct", inTmp |-> TRUE,
            content |-> "books", hardlink |-> FALSE]

DeliveryInit ==
  /\ order = NoOrder /\ dpc = "new" /\ dresult = "none" /\ runs = 0
  /\ fetched = FALSE /\ retryFrom = FALSE /\ dcancel = FALSE
  /\ files = {} /\ sent = {} /\ delivered = [b \in Book |-> 0]
  /\ made = {} /\ litter = {} /\ lateFailures = 0

\* resolve_output_handler: e-mail and Booklore do not take audiobooks.
Output == IF order.audiobook THEN "folder" ELSE order.output
\* is_managed_workspace_path, _is_original_download
Managed == order.inTmp
Removable == order.inTmp /\ order.origin # "torrent"
\* resolve_hardlink_source for a folder; the other outputs always extract.
Extracts == order.content = "archives" /\ ~(Output = "folder" /\ order.hardlink)
Stages == Output # "folder" /\ Managed

DeliveryAt(pc) == dpc = pc
Step(pc) == dpc' = pc /\ UNCHANGED <<dresult, lateFailures>>
\* _process_single_download: whatever the run has come to, a task whose cancel flag is
\* set is cancelled.
Settled(result) == IF dcancel THEN "cancelled" ELSE result
EndDelivery(result) ==
  /\ dpc' = "queued" /\ dresult' = Settled(result)
  /\ lateFailures' = lateFailures + IF Settled(result) # "done" /\ sent # {} THEN 1 ELSE 0

\* cleanup_output_staging: what the run made goes, but for the directories of archives
\* that could not be extracted, which nobody remembers.  A run that does not get there
\* leaves all it made.
CleanMade == made' = {} /\ litter' = litter \cup (made \cap {"broken"})
LeaveMade == made' = {} /\ litter' = litter \cup made
\* safe_cleanup_path on the release
DropFetched == fetched' = (fetched /\ ~Removable)

-----------------------------------------------------------------------------
QueueOrder ==
  /\ DeliveryAt("new")
  /\ order' \in {o \in Order : LegalOrder(o)}
  /\ Step("queued")
  /\ UNCHANGED <<runs, fetched, retryFrom, dcancel, files, sent, delivered, made, litter>>

\* A run of the task, a first one or a retry: it starts from staged_path or fetches.
StartDelivery ==
  /\ DeliveryAt("queued") /\ dresult # "done" /\ runs < DeliveryRuns
  /\ Step("fetched")
  /\ runs' = runs + 1 /\ dcancel' = FALSE
  /\ IF retryFrom /\ fetched THEN UNCHANGED retryFrom ELSE retryFrom' = FALSE
  /\ fetched' = TRUE
  /\ files' = {} /\ sent' = {}
  /\ UNCHANGED <<order, delivered, made, litter>>

CancelDelivery ==
  /\ ~DeliveryAt("new") /\ ~DeliveryAt("queued") /\ ~dcancel
  /\ dcancel' = TRUE
  /\ UNCHANGED <<order, dpc, dresult, runs, fetched, retryFrom, files, sent, delivered,
                 made, litter, lateFailures>>

\* The check before post-processing; a torrent is left alone.
BeginDelivery ==
  /\ DeliveryAt("fetched")
  /\ IF dcancel THEN EndDelivery("cancelled") /\ DropFetched /\ UNCHANGED retryFrom
                ELSE Step("route") /\ retryFrom' = TRUE /\ UNCHANGED fetched
  /\ UNCHANGED <<order, runs, dcancel, files, sent, delivered, made, litter>>

\* validate_destination and the plan of a folder.
RouteFolder ==
  /\ DeliveryAt("route") /\ Output = "folder"
  /\ Step("prepare") \/ EndDelivery("failed")
  /\ UNCHANGED <<order, runs, fetched, retryFrom, dcancel, files, sent, delivered, made, litter>>

\* E-mail and Booklore look at the cancel flag and at their settings, and copy a
\* managed release to a directory of their own.
RouteTo(out) ==
  /\ DeliveryAt("route") /\ Output = out
  /\ IF dcancel THEN EndDelivery("cancelled") /\ UNCHANGED made
     ELSE \/ Step("prepare") /\ made' = IF Stages THEN {"copy"} ELSE {}
          \/ EndDelivery("failed") /\ UNCHANGED made
  /\ UNCHANGED <<order, runs, fetched, retryFrom, dcancel, files, sent, delivered, litter>>
RouteMail == RouteTo("email")
RouteUpload == RouteTo("booklore")

\* What the scan finds: the walk passes over directories it cannot list, and of several
\* archives those that cannot be extracted are dropped when one can.
Scanned == SUBSET Book \ {{}}
\* The directories that extraction makes, one for each archive.
Opened(found) == IF ~Extracts THEN {{}}
                 ELSE IF found = Book THEN {{"extracted"}}
                 ELSE {{"extracted"}, {"extracted", "broken"}}

\* prepare_output_files.  An error leaves the directories.
Prepare ==
  /\ DeliveryAt("prepare")
  /\ \/ /\ order.content # "unsupported"
        /\ files' \in Scanned
        /\ Step("ready")
        /\ \E dirs \in Opened(files') : made' = made \cup dirs
        /\ UNCHANGED litter
     \/ /\ made' = {} /\ UNCHANGED files
        /\ \E dirs \in SUBSET Directory :
             /\ ~Extracts => dirs = {}
             /\ litter' = litter \cup made \cup (dirs \ {"copy"})
        /\ EndDelivery("failed")
  /\ UNCHANGED <<order, runs, fetched, retryFrom, dcancel, sent, delivered>>

\* The last look at the cancel flag before the delivery (a folder's clean-up paths
\* hold the release itself when it is managed), and the refusals of e-mail (size
\* limit) and Booklore (format, login).
LastCheck ==
  /\ DeliveryAt("ready")
  /\ IF dcancel
     THEN /\ EndDelivery("cancelled") /\ CleanMade
          /\ IF Output = "folder" THEN DropFetched ELSE UNCHANGED fetched
     ELSE \/ Step("sending") /\ UNCHANGED <<made, litter, fetched>>
          \/ Output # "folder" /\ EndDelivery("failed") /\ CleanMade /\ UNCHANGED fetched
  /\ UNCHANGED <<order, runs, retryFrom, dcancel, files, sent, delivered>>

Sending(out) == DeliveryAt("sending") /\ Output = out /\ sent # files
FileCount(s) == delivered' = [b \in Book |-> delivered[b] + IF b \in s THEN 1 ELSE 0]
Deliver(s) ==
  /\ sent' = sent \cup s /\ FileCount(s)
  /\ UNCHANGED <<order, dpc, dresult, runs, fetched, retryFrom, dcancel, files, made, litter,
                 lateFailures>>

\* transfer_book_files, one file after the other; a cancel does not stop it.
TransferFile == Sending("folder") /\ \E b \in files \ sent : Deliver({b})

\* The exception leaves process_folder_output at once.
TransferFails ==
  /\ Sending("folder")
  /\ EndDelivery("failed") /\ LeaveMade
  /\ UNCHANGED <<order, runs, fetched, retryFrom, dcancel, files, sent, delivered>>

\* One message with all the files.
SendMail == Sending("email") /\ Deliver(files)

\* Mutant: the upload loop does not go on from where it is.
UploadFileAgain == Sending("booklore") /\ ~dcancel /\ \E b \in files : Deliver({b})

\* Booklore's loop looks at the cancel flag before each file.
UploadFile == Sending("booklore") /\ ~dcancel /\ \E b \in files \ sent : Deliver({b})

\* The server may have taken the message or the file before the error.
ServerFails ==
  /\ Sending("email") \/ Sending("booklore")
  /\ \/ EndDelivery("failed") /\ UNCHANGED delivered
     \/ /\ dpc' = "queued" /\ dresult' = Settled("failed") /\ lateFailures' = lateFailures + 1
        /\ IF Output = "email" THEN FileCount(files) ELSE \E b \in files \ sent : FileCount({b})
  /\ CleanMade
  /\ UNCHANGED <<order, runs, fetched, retryFrom, dcancel, files, sent>>

UploadCancelled ==
  /\ Sending("booklore") /\ dcancel
  /\ EndDelivery("cancelled") /\ CleanMade
  /\ UNCHANGED <<order, runs, fetched, retryFrom, dcancel, files, sent, delivered>>

\* The custom script fails after the delivery: the release is kept.
ScriptFails ==
  /\ DeliveryAt("sending") /\ sent = files
  /\ EndDelivery("failed")
  /\ IF Output = "folder" THEN LeaveMade ELSE CleanMade
  /\ UNCHANGED <<order, runs, fetched, retryFrom, dcancel, files, sent, delivered>>

\* The end of a run that has delivered all it found: the release goes, from the client
\* too when it is one for usenet (post_process_cleanup), and staged_path with it.  A cancel
\* that comes before the status is written wins all the same.
FinishDelivery ==
  /\ DeliveryAt("sending") /\ sent = files
  /\ EndDelivery("done") /\ CleanMade /\ retryFrom' = FALSE
  /\ DropFetched \/ (order.origin = "usenet" /\ fetched' = FALSE)
  /\ UNCHANGED <<order, runs, dcancel, files, sent, delivered>>

DeliveryNext ==
  \/ QueueOrder \/ StartDelivery \/ CancelDelivery \/ BeginDelivery
  \/ RouteFolder \/ RouteMail \/ RouteUpload \/ Prepare \/ LastCheck
  \/ TransferFile \/ TransferFails \/ SendMail \/ UploadFile \/ UploadCancelled
  \/ ServerFails \/ ScriptFails \/ FinishDelivery

DeliverySpec == DeliveryInit /\ [][DeliveryNext]_deliveryVars

-----------------------------------------------------------------------------
(* Properties *)

\* Types.
DeliveryTypeOK ==
  /\ order \in Order \cup {NoOrder}
  /\ dpc \in {"new", "queued", "fetched", "route", "prepare", "ready", "sending"}
  /\ dresult \in {"none", "done", "failed", "cancelled"}
  /\ runs \in 0 .. DeliveryRuns /\ lateFailures \in 0 .. runs
  /\ made \cup litter \subseteq Directory
  /\ {fetched, retryFrom, dcancel} \subseteq BOOLEAN
  /\ sent \subseteq files /\ files \subseteq Book
  /\ delivered \in [Book -> Nat]

\* After an error the retry need not fetch again: what staged_path names is there
\* until a run has delivered it or was cancelled.
RetryHasItsSource == retryFrom /\ dresult # "cancelled" => fetched

\* A file is delivered a second time only by the retry of a run that had delivered
\* something before it failed or was cancelled: within one run, and after a run
\* that failed earlier, there are no duplicates.
DuplicatesFromLateFailures == \A b \in Book : delivered[b] <= 1 + lateFailures

\* A run that reports success has delivered all of the release that its scan could read.
DoneIsWhole == dresult = "done" => \A b \in files : delivered[b] > 0

\* A first run that reports success leaves no directory in the workspace, but for those of
\* archives it could not extract beside one that it could.
SuccessIsTidy ==
  dresult = "done" /\ runs = 1 =>
    litter = {} \/ (litter = {"broken"} /\ Extracts /\ files # Book)

\* Over all runs of a task: success is all of the release that could be read, a second copy
\* comes of a run that broke off late, what a retry starts from is there, and a run without
\* errors tidies up.
RetriesAddUp ==
  DoneIsWhole /\ DuplicatesFromLateFailures /\ RetryHasItsSource /\ SuccessIsTidy
=============================================================================
