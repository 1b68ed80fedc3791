---------------------------- MODULE ActivityView ----------------------------
(***************************************************************************)
(* What each viewer of the activity panel sees (core/activity_routes,      *)
(* core/activity_view_state_service): dismissals, their history, and the   *)
(* rows of downloads and requests they refer to.  All administrators share *)
(* one view.  Greenlets: a route yields where it asks the queue.           *)
(***************************************************************************)
EXTENDS Naturals, FiniteSets

CONSTANTS
  Reader,      \* users who are not administrators
  Admins,      \* the view the administrators share
  Fetched,     \* task ids
  Wish,        \* requests
  NoReader,
  NoWish

ASSUME ActivityAssumption ==
  /\ Admins \notin Reader /\ NoReader \notin Reader \cup {Admins} /\ NoWish \notin Wish
  /\ Fetched \cap Wish = {}

VARIABLES
  known,       \* users that exist
  log,         \* download_history: one row for each task id
  listed,      \* task ids the queue knows, finished ones included
  wishes,      \* download_requests
  shelf,       \* activity_view_state: viewer, item
  panel        \* the route that waits for the queue; bound: one at a time

activityVars == <<known, log, listed, wishes, shelf, panel>>

Viewer == Reader \cup {Admins}
Item == Fetched \cup Wish
Ended == {"complete", "error", "cancelled"}
LogRow == [status : {"none", "active"} \cup Ended, owner : Reader \cup {NoReader}, wish : Wish \cup {NoWish}]
\* "refused": rejected or cancelled.
WishRow == [status : {"none", "pending", "refused", "fulfilled", "gone"},
            owner : Reader \cup {NoReader}, delivery : {"none", "active"} \cup Ended]
NoLogRow == [status |-> "none", owner |-> NoReader, wish |-> NoWish]
NoWishRow == [status |-> "none", owner |-> NoReader, delivery |-> "none"]
GoneWishRow == [NoWishRow EXCEPT !.status = "gone"]   \* ids are not used again
Resting == [pc |-> "idle", who |-> Admins, items |-> {}, early |-> {}, row |-> NoLogRow]

ActivityInit ==
  /\ known = Reader
  /\ log = [d \in Fetched |-> NoLogRow] /\ listed = {}
  /\ wishes = [q \in Wish |-> NoWishRow]
  /\ shelf = [v \in Viewer |-> [i \in Item |-> "shown"]]
  /\ panel = Resting

Present(v) == v = Admins \/ v \in known
\* _check_item_ownership
Owns(v, row) == v = Admins \/ row.owner = v
\* _request_terminal_status: a fulfilled request counts as terminal at once.
Decided(q) == wishes[q].status \in {"refused", "fulfilled"}
\* _effective_download_row_for_activity: an active row that the queue does not
\* know was interrupted.
Effective(d, row) == IF row.status = "active" /\ d \notin listed THEN "error" ELSE row.status
\* Live: what the queue has and the history calls active.
Live(d) == d \in listed /\ log[d].status = "active"

ShownToAll(items) == [v \in Viewer |-> [i \in Item |-> IF i \in items THEN "shown" ELSE shelf[v][i]]]

-----------------------------------------------------------------------------
(* Downloads and requests, as far as the panel shows them *)

\* Mutant: the row is renewed and the viewers' state is left.
RecordKeepsView(d, u, q) ==
  /\ log' = [log EXCEPT ![d] = IF @.status = "none" THEN [status |-> "active", owner |-> u, wish |-> q]
                               ELSE [@ EXCEPT !.status = "active"]]
  /\ listed' = listed \cup {d}
  /\ UNCHANGED shelf

\* _record_download_queued: a row that exists keeps its owner and its request; the
\* views forget the task and the task's request.
Record(d, u, q) ==
  /\ log' = [log EXCEPT ![d] = IF @.status = "none" THEN [status |-> "active", owner |-> u, wish |-> q]
                               ELSE [@ EXCEPT !.status = "active"]]
  /\ listed' = listed \cup {d}
  /\ shelf' = ShownToAll({d, q})

\* The queue refuses a task that has not ended.
Queueable(d) == d \in listed => log[d].status \in Ended

QueueDirect(d, u) ==
  /\ u \in known /\ Queueable(d)
  /\ Record(d, u, NoWish)
  /\ UNCHANGED <<known, wishes, panel>>

AskFor(q, u) ==
  /\ u \in known /\ wishes[q].status = "none"
  /\ wishes' = [wishes EXCEPT ![q] = [status |-> "pending", owner |-> u, delivery |-> "none"]]
  /\ UNCHANGED <<known, log, listed, shelf, panel>>

Refuse(q) ==
  /\ wishes[q].status = "pending"
  /\ wishes' = [wishes EXCEPT ![q].status = "refused"]
  /\ UNCHANGED <<known, log, listed, shelf, panel>>

Fulfil(q, d) ==
  /\ wishes[q].status = "pending" /\ Queueable(d)
  /\ wishes' = [wishes EXCEPT ![q].status = "fulfilled", ![q].delivery = "active"]
  /\ Record(d, wishes[q].owner, q)
  /\ UNCHANGED <<known, panel>>

Reopens(q) == q # NoWish /\ wishes[q].status = "fulfilled" /\ wishes[q].delivery # "complete"
PendingAgain(q) == [wishes[q] EXCEPT !.status = "pending", !.delivery = "none"]

\* _record_download_terminal_snapshot
FinishItem(d, s, retry) ==
  LET q == log[d].wish  again == s = "error" /\ ~retry /\ Reopens(q) IN
  /\ Live(d)
  /\ log' = [log EXCEPT ![d].status = s]
  /\ wishes' = IF again THEN [wishes EXCEPT ![q] = PendingAgain(q)] ELSE wishes
  /\ shelf' = IF again THEN ShownToAll({q}) ELSE shelf
  /\ UNCHANGED <<known, listed, panel>>

\* The queue forgets finished tasks, and all of them at a restart.
Forget(d) ==
  /\ d \in listed /\ ~Live(d)
  /\ listed' = listed \ {d}
  /\ UNCHANGED <<known, log, wishes, shelf, panel>>

RestartService ==
  /\ listed' = {} /\ panel' = Resting
  /\ UNCHANGED <<known, log, wishes, shelf>>

\* api_library_delete removes the row; the viewers' state and the queue keep theirs.
LibraryDelete(d) ==
  /\ log[d].status # "none"
  /\ log' = [log EXCEPT ![d] = NoLogRow]
  /\ UNCHANGED <<known, listed, wishes, shelf, panel>>

\* UserDB.delete_user: requests go with their user, download rows lose their owner.
DeleteUser(u) ==
  LET own == {q \in Wish : wishes[q].owner = u} IN
  /\ u \in known
  /\ known' = known \ {u}
  /\ wishes' = [q \in Wish |-> IF q \in own THEN GoneWishRow ELSE wishes[q]]
  /\ log' = [d \in Fetched |-> IF log[d].owner = u THEN [log[d] EXCEPT !.owner = NoReader] ELSE log[d]]
  /\ shelf' = [ShownToAll(own) EXCEPT ![u] = [i \in Item |-> "shown"]]
  /\ UNCHANGED <<listed, panel>>

-----------------------------------------------------------------------------
(* The routes of the panel *)

WishAllowed(v, q) == Owns(v, wishes[q]) /\ Decided(q)
LogAllowed(v, d, row) == row.status # "none" /\ Owns(v, row) /\ Effective(d, row) \in Ended
Hide(v, items) == shelf' = [shelf EXCEPT ![v] = [i \in Item |-> IF i \in items THEN "dismissed" ELSE @[i]]]

\* Requests alone are checked and dismissed in one go.
DismissWishes(v, items) ==
  /\ Present(v) /\ panel.pc = "idle" /\ items # {}
  /\ \A q \in items : WishAllowed(v, q)
  /\ Hide(v, items)
  /\ UNCHANGED <<known, log, listed, wishes, panel>>

\* The first download's row, and the requests before it, are read before the queue
\* is asked.
DismissReads(v, items, d, early) ==
  /\ Present(v) /\ panel.pc = "idle"
  /\ d \in items /\ early \subseteq items \ Fetched
  /\ log[d].status # "none" /\ \A q \in early : WishAllowed(v, q)
  /\ panel' = [pc |-> "dismiss", who |-> v, items |-> items, early |-> early \cup {d}, row |-> log[d]]
  /\ UNCHANGED <<known, log, listed, wishes, shelf>>

DismissWrites(v) ==
  LET c == panel
      first == CHOOSE d \in c.early : d \in Fetched
      allowed == /\ LogAllowed(v, first, c.row)
                 /\ \A i \in c.items \ c.early :
                      IF i \in Fetched THEN LogAllowed(v, i, log[i]) ELSE WishAllowed(v, i)
  IN
  /\ c.pc = "dismiss" /\ c.who = v
  /\ IF allowed THEN Hide(v, c.items) ELSE UNCHANGED shelf
  /\ panel' = Resting
  /\ UNCHANGED <<known, log, listed, wishes>>

\* clear_history: what was cleared stays hidden and is no longer listed.
ClearHistory(v) ==
  /\ Present(v)
  /\ shelf' = [shelf EXCEPT ![v] = [i \in Item |-> IF @[i] = "dismissed" THEN "cleared" ELSE @[i]]]
  /\ UNCHANGED <<known, log, listed, wishes, panel>>

SnapshotReads(v) ==
  /\ Present(v) /\ panel.pc = "idle"
  /\ panel' = [Resting EXCEPT !.pc = "snapshot", !.who = v, !.items = {i \in Item : shelf[v][i] # "shown"}]
  /\ UNCHANGED <<known, log, listed, wishes, shelf>>

\* The rows that were not hidden tell the requests their delivery state, the last one
\* listed ("told") if there are several; a failure that can no longer be retried
\* ("lost") reopens one, and no view is reset.
SnapshotSyncs(v, told, lost) ==
  LET seen == {d \in Fetched \ panel.items : log[d].status # "none" /\ Owns(v, log[d])}
      spokenFor == {q \in Wish : /\ wishes[q].status = "fulfilled" /\ Owns(v, wishes[q])
                                 /\ \E d \in seen : log[d].wish = q}
      synced(q) == LET s == Effective(told[q], log[told[q]]) IN
                   IF s = "error" /\ told[q] \in lost /\ Reopens(q) THEN PendingAgain(q)
                   ELSE [wishes[q] EXCEPT !.delivery = s]
  IN
  /\ panel.pc = "snapshot" /\ panel.who = v
  /\ \A q \in spokenFor : told[q] \in seen /\ log[told[q]].wish = q
  /\ wishes' = [q \in Wish |-> IF q \in spokenFor THEN synced(q) ELSE wishes[q]]
  /\ panel' = Resting
  /\ UNCHANGED <<known, log, listed, shelf>>

ActivityNext ==
  \/ \E d \in Fetched :
       \/ \E u \in Reader : QueueDirect(d, u)
       \/ \E q \in Wish : Fulfil(q, d)
       \/ \E s \in Ended, retry \in BOOLEAN : FinishItem(d, s, retry)
       \/ Forget(d) \/ LibraryDelete(d)
  \/ \E q \in Wish : Refuse(q) \/ \E u \in Reader : AskFor(q, u)
  \/ RestartService \/ \E u \in Reader : DeleteUser(u)
  \/ \E v \in Viewer :
       \/ \E items \in SUBSET Wish : DismissWishes(v, items)
       \/ \E items \in SUBSET Item, d \in Fetched, early \in SUBSET Wish : DismissReads(v, items, d, early)
       \/ DismissWrites(v) \/ ClearHistory(v) \/ SnapshotReads(v)
       \/ \E told \in [Wish -> Fetched], lost \in SUBSET Fetched : SnapshotSyncs(v, told, lost)

ActivitySpec == ActivityInit /\ [][ActivityNext]_activityVars

-----------------------------------------------------------------------------
(* Properties *)

\* Types; a decided request has an owner who exists.
ActivityTypeOK ==
  /\ known \subseteq Reader /\ listed \subseteq Fetched
  /\ log \in [Fetched -> LogRow] /\ wishes \in [Wish -> WishRow]
  /\ shelf \in [Viewer -> [Item -> {"shown", "dismissed", "cleared"}]]
  /\ panel.pc \in {"idle", "dismiss", "snapshot"} /\ panel.items \subseteq Item /\ panel.who \in Viewer
  /\ \A q \in Wish : wishes[q].status \notin {"none", "gone"} <=> wishes[q].owner \in known

RowOf(i) == IF i \in Fetched THEN log[i] ELSE wishes[i]
\* api_activity_history raises for an entry whose row is gone or another user's.
Listable(v, i) == RowOf(i).status \notin {"none", "gone"} /\ Owns(v, RowOf(i))

\* A viewer's history can be listed: an entry comes to refer to a row that is gone,
\* or out of the viewer's scope, only when the library deletes the row, or by a
\* dismissal that had read its rows before they went.
HistoryBreaks ==
  [][\A v \in Viewer, i \in Item :
       /\ Present(v)' /\ shelf'[v][i] = "dismissed" /\ ~Listable(v, i)'
       /\ ~(shelf[v][i] = "dismissed" /\ ~Listable(v, i))
       => \/ i \in Fetched /\ log[i].status # "none" /\ log'[i].status = "none"
          \/ panel.pc = "dismiss" /\ panel.who = v /\ i \in panel.early]_activityVars

Open(i) == IF i \in Fetched THEN Live(i) ELSE wishes[i].status = "pending"

\* A running download or a pending request comes to be hidden from a viewer only by
\* a dismissal that had read the row before it was opened again, or by the snapshot's
\* sync, which reopens requests and resets no view.
OpenItemsShown ==
  [][\A v \in Viewer, i \in Item :
       Present(v)' /\ Open(i)' /\ shelf'[v][i] # "shown" /\ ~(Open(i) /\ shelf[v][i] # "shown")
       => \/ panel.pc = "dismiss" /\ panel.who = v /\ i \in panel.early
          \/ i \in Wish /\ panel.pc = "snapshot" /\ panel'.pc = "idle"]_activityVars

\* A viewer's entries follow the rows they are about: open ones show, dismissed ones
\* can be listed.
ViewsFollowRows == OpenItemsShown /\ HistoryBreaks
=============================================================================
