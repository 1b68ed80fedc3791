--------------------------- MODULE DownloadHistory ---------------------------
(***************************************************************************)
(* The persisted download record, src/shelfmark/core/                      *)
(* download_history_service.py: one row of table download_history per task *)
(* id, reduced to its final_status.  "none" is a task without a row.  Each *)
(* operator is one SQL statement under the service's lock; the rows        *)
(* survive a restart, the queue does not.                                  *)
(***************************************************************************)
CONSTANTS Task

VARIABLES history

RowStatus == {"none", "active", "complete", "error", "cancelled"}

HistoryTypeOK == history \in [Task -> RowStatus]

HistoryInit == history = [t \in Task |-> "none"]

\* The INSERT with the status of the queue in place of 'active'.
RecordQueued(t) == history' = [history EXCEPT ![t] = "queued"]

(***************************************************************************)
(* record_download: INSERT ... ON CONFLICT DO UPDATE resets the row to     *)
(* active whatever it held.                                                *)
(***************************************************************************)
RecordDownload(t) == history' = [history EXCEPT ![t] = "active"]

\* The UPDATE without its WHERE final_status = 'active'.
FinalizeAnyRow(t, s) == history' = [history EXCEPT ![t] = s]

(***************************************************************************)
(* finalize_download: UPDATE ... WHERE final_status = 'active', so a row   *)
(* that is already final, or missing, keeps its value.                     *)
(***************************************************************************)
FinalizeDownload(t, s) ==
  history' = [history EXCEPT ![t] = IF @ = "active" THEN s ELSE @]

\* delete_by_task_id, whatever the row holds.
DeleteRow(t) ==
  /\ history[t] # "none"
  /\ history' = [history EXCEPT ![t] = "none"]

=============================================================================
