---------------------------- MODULE RequestProofs ----------------------------
(***************************************************************************)
(* Proofs about RequestLifecycle, for any requests, releases, callers and  *)
(* bounds.                                                                 *)
(***************************************************************************)
EXTENDS RequestLifecycle, TLAPS

(***************************************************************************)
(* The inductive invariant.  A call that decides, or has decided, names a  *)
(* request.  Under gevent at most one call is busy, and what it has read is*)
(* still so: nobody else could change it.                                  *)
(***************************************************************************)
Deciding == {"create", "cancel", "reject", "approve", "claim", "queue", "rollback"}

StillSo(k) ==
  /\ k.pc = "create" => row[k.request].status = "absent"
  /\ k.pc \in {"queue", "rollback"} => row[k.request].status = "fulfilled"
  /\ k.pc = "sync" =>
       \A r \in Request : k.plan[r].delivery # "none" => row[r].status = "fulfilled"

Knows(k) ==
  /\ k.pc \in Deciding => k.request \in Request
  /\ ~NativeThreads => StillSo(k)

OneBusy == \A c, d \in Call : c = d \/ call[c].pc \in MayBlock \/ call[d].pc \in MayBlock

IInv ==
  /\ TypeOK
  /\ \A c \in Call : Knows(call[c])
  /\ ~NativeThreads => OneBusy /\ PendingHasNoDelivery

-----------------------------------------------------------------------------
(***************************************************************************)
(* What the helpers do, field by field.                                    *)
(***************************************************************************)
RowBecomes(r, status, delivery) ==
  /\ row' \in [Request -> Row]
  /\ row'[r].status = status /\ row'[r].delivery = delivery
  /\ \A q \in Request \ {r} : row'[q] = row[q]

CallBecomes(c, new) ==
  /\ call' \in [Call -> CallState]
  /\ call'[c] = new
  /\ \A d \in Call \ {c} : call'[d] = call[d]

\* SetRow writes one row.
LEMMA SetRowEffect ==
  ASSUME TypeOK, NEW r \in Request, NEW status \in RowStatus, NEW delivery \in Delivery,
         NEW release \in Release \cup {NoRelease}, SetRow(r, status, delivery, release)
  PROVE  RowBecomes(r, status, delivery)
BY DEF TypeOK, SetRow, Row, RowBecomes

\* Becomes moves one call.
LEMMA BecomesEffect ==
  ASSUME TypeOK, NEW c \in Call, NEW new \in CallState, Becomes(c, new)
  PROVE  CallBecomes(c, new)
BY DEF TypeOK, Becomes, CallBecomes

\* An idle call is a call.
LEMMA IdleTyped == IdleCall \in CallState /\ IdleCall.pc = "idle"
<1>1. Unlisted \in Seen BY DEF Unlisted, Seen, Delivery
<1>2. Nothing \in Plan BY DEF Nothing, Plan, Delivery
<1> QED BY <1>1, <1>2 DEF IdleCall, CallState, CallPC

\* Returns makes one call idle.
LEMMA ReturnsEffect ==
  ASSUME TypeOK, NEW c \in Call, Returns(c)
  PROVE  CallBecomes(c, IdleCall)
BY IdleTyped, BecomesEffect DEF Returns

\* Starts begins one call.
LEMMA StartsEffect ==
  ASSUME TypeOK, NEW c \in Call, NEW pc \in CallPC, NEW r \in Request \cup {NoRequest},
         NEW s \in Release \cup {NoRelease}, NEW o \in Release \cup {NoRelease},
         Starts(c, pc, r, s, o)
  PROVE  /\ call[c].pc = "idle"
         /\ \E new \in CallState :
              new.pc = pc /\ new.request = r /\ CallBecomes(c, new)
<1> DEFINE new == [IdleCall EXCEPT !.pc = pc, !.request = r, !.release = s, !.original = o]
<1>1. new \in CallState /\ new.pc = pc /\ new.request = r
  BY IdleTyped DEF CallState
<1>2. CallBecomes(c, new) BY <1>1, BecomesEffect DEF Starts
<1>3. call[c].pc = "idle" BY DEF Starts
<1> QED BY <1>1, <1>2, <1>3

\* Goes moves one call on, with what it holds.
LEMMA GoesEffect ==
  ASSUME TypeOK, NEW c \in Call, NEW pc \in CallPC, Goes(c, pc)
  PROVE  \E new \in CallState :
           new.pc = pc /\ new.request = call[c].request /\ CallBecomes(c, new)
<1> DEFINE new == [call[c] EXCEPT !.pc = pc]
<1>1. call[c] \in CallState BY DEF TypeOK
<1>2. new \in CallState /\ new.pc = pc /\ new.request = call[c].request
  BY <1>1 DEF CallState
<1>3. call' = [call EXCEPT ![c] = new] BY DEF Goes
<1>4. CallBecomes(c, new) BY <1>2, <1>3, BecomesEffect DEF Becomes
<1> QED BY <1>2, <1>4

-----------------------------------------------------------------------------
(***************************************************************************)
(* Types: what is computed from tasks, and then each action.               *)
(***************************************************************************)
\* What the history records of a task is a task.
LEMMA TaskTypes ==
  ASSUME NEW t \in Download, NEW r \in Request \cup {NoRequest}, NEW status \in Delivery
  PROVE  /\ Recorded(t, r) \in Download
         /\ Finalized(t, status) \in Download
         /\ Forgotten(t) \in Download
<1>1. "queued" \in Delivery /\ "none" \in Delivery BY DEF Delivery
<1>2. Recorded(t, r) \in Download BY <1>1 DEF Recorded, Download
<1>3. Finalized(t, status) \in Download BY <1>1 DEF Finalized, Download
<1>4. NoDownload \in Download BY <1>1 DEF NoDownload, Download
<1>5. Forgotten(t) \in Download BY <1>1, <1>4 DEF Forgotten, Download
<1> QED BY <1>2, <1>3, <1>5

\* Adding a task leaves a task for each release.
LEMMA AddTaskTyped ==
  ASSUME TypeOK, NEW s \in Release, NEW r \in Request \cup {NoRequest}, NEW staged \in BOOLEAN,
         AddTask(s, r, staged)
  PROVE  task' \in [Release -> Download]
<1> DEFINE t == [task[s] EXCEPT !.status = "queued", !.request = r, !.staged = staged]
<1>1. task[s] \in Download BY DEF TypeOK
<1>2. t \in Download BY <1>1 DEF Download, Delivery
<1>3. Recorded(t, r) \in Download BY <1>2, TaskTypes DEF Delivery
<1>4. task' = [task EXCEPT ![s] = Recorded(t, r)] BY DEF AddTask
<1> QED BY <1>3, <1>4 DEF TypeOK

\* A status route reads what a viewer can see.
LEMMA SeenTypes ==
  ASSUME NEW t \in Download, NEW q \in Seen
  PROVE  Listed(t) \in Seen /\ Asked(q, t) \in Seen /\ WithHistory(q, t) \in Seen
<1>1. \A d, r : \A b \in BOOLEAN : CanRetry(d, r, b) \in BOOLEAN BY DEF CanRetry
<1>2. Unlisted \in Seen BY DEF Unlisted, Seen, Delivery
<1>3. t.status \in Delivery /\ t.history \in Delivery /\ t.staged \in BOOLEAN
      /\ t.request \in Request \cup {NoRequest} /\ t.owner \in Request \cup {NoRequest}
  BY DEF Download
<1>4. Listed(t) \in Seen BY <1>1, <1>2, <1>3 DEF Listed, Seen
<1>5. (q.retry /\ CanRetry(q.delivery, q.request, t.staged)) \in BOOLEAN BY <1>1, <1>3 DEF Seen
<1>6. Asked(q, t) \in Seen BY <1>5 DEF Asked, Seen
<1>7. (IF q = Unlisted THEN CanRetry(t.history, t.owner, t.staged) ELSE q.retry) \in BOOLEAN
  BY <1>1, <1>3 DEF Seen
<1>8. WithHistory(q, t) \in Seen
  <2>1. CASE t.history = "none" BY <2>1, <1>2 DEF WithHistory
  <2>2. CASE t.history \notin {"none", "queued"}
    BY <2>2, <1>3, <1>7 DEF WithHistory, Seen
  <2>3. CASE t.history = "queued" BY <2>3, <1>3 DEF WithHistory, Seen, Delivery
  <2> QED BY <2>1, <2>2, <2>3
<1> QED BY <1>4, <1>6, <1>8

\* A route shows something of each release.
LEMMA ViewTyped ==
  ASSUME TypeOK, NEW c \in Call, NEW history \in BOOLEAN, NEW gone \in SUBSET Release
  PROVE  View(c, history, gone) \in [Release -> Seen]
<1> SUFFICES ASSUME NEW s \in Release PROVE View(c, history, gone)[s] \in Seen
  BY DEF View
<1>1. task[s] \in Download /\ call[c].seen[s] \in Seen BY DEF TypeOK, CallState
<1> DEFINE q == IF s \in gone THEN Asked(call[c].seen[s], task[s]) ELSE call[c].seen[s]
<1>2. q \in Seen BY <1>1, SeenTypes
<1>3. WithHistory(q, task[s]) \in Seen BY <1>1, <1>2, SeenTypes
<1> QED BY <1>2, <1>3 DEF View

\* A sync means to do something with fulfilled requests only.
LEMMA PlansTyped ==
  ASSUME TypeOK, NEW seen \in [Release -> Seen], NEW last \in [Known(seen) -> Release]
  PROVE  /\ Plans(seen, last) \in [Request -> Plan]
         /\ \A r \in Request : Plans(seen, last)[r].delivery # "none" => row[r].status = "fulfilled"
<1>1. ASSUME NEW r \in Request PROVE Plans(seen, last)[r] \in Plan
  <2>1. CASE r \in Known(seen)
    <3>1. seen[last[r]] \in Seen BY <2>1
    <3>2. PlanFor(r, seen[last[r]]) \in Plan BY <3>1 DEF PlanFor, Seen, Plan
    <3> QED BY <2>1, <3>2 DEF Plans
  <2>2. CASE r \notin Known(seen) BY <2>2 DEF Plans, Nothing, Plan, Delivery
  <2> QED BY <2>1, <2>2
<1>2. ASSUME NEW r \in Request, r \notin Known(seen) PROVE Plans(seen, last)[r].delivery = "none"
  BY <1>2 DEF Plans, Nothing
<1>3. \A r \in Known(seen) : row[r].status = "fulfilled" BY DEF Known, Fulfilled
<1>4. Plans(seen, last) = [r \in Request |-> Plans(seen, last)[r]] BY DEF Plans
<1> QED BY <1>1, <1>2, <1>3, <1>4

\* The sync has read what it goes by, and knows what to do.
LEMMA SyncPlansEffect ==
  ASSUME TypeOK, NEW c \in Call, SyncPlans(c)
  PROVE  \E new \in CallState :
           /\ CallBecomes(c, new)
           /\ new.pc = "sync"
           /\ \A r \in Request : new.plan[r].delivery # "none" => row[r].status = "fulfilled"
<1>1. PICK history \in BOOLEAN, gone \in SUBSET Release :
        \E last \in [Known(View(c, history, gone)) -> Release] :
          Becomes(c, [IdleCall EXCEPT !.pc = "sync",
                                      !.plan = Plans(View(c, history, gone), last)])
  BY DEF SyncPlans
<1> DEFINE seen == View(c, history, gone)
<1>2. seen \in [Release -> Seen] BY ViewTyped
<1>3. PICK last \in [Known(seen) -> Release] :
        Becomes(c, [IdleCall EXCEPT !.pc = "sync", !.plan = Plans(seen, last)])
  BY <1>1
<1> HIDE DEF seen
<1> DEFINE new == [IdleCall EXCEPT !.pc = "sync", !.plan = Plans(seen, last)]
<1>4. /\ Plans(seen, last) \in [Request -> Plan]
      /\ \A r \in Request : Plans(seen, last)[r].delivery # "none" => row[r].status = "fulfilled"
  BY <1>2, PlansTyped
<1>5. new \in CallState /\ new.pc = "sync" /\ new.plan = Plans(seen, last)
  BY <1>4, IdleTyped DEF IdleCall, CallState, CallPC
<1>6. CallBecomes(c, new) BY <1>3, <1>5, BecomesEffect
<1> QED BY <1>4, <1>5, <1>6

-----------------------------------------------------------------------------
(***************************************************************************)
(* What a step has to show to keep the invariant.                          *)
(***************************************************************************)
\* An idle or blocked call knows nothing that others could change.
LEMMA BlockedKnows ==
  ASSUME NEW k, k.pc \in MayBlock
  PROVE  Knows(k) /\ Knows(k)'
BY DEF Knows, StillSo, Deciding, MayBlock

\* The step of one call: what that call knows afterwards, and the rows.
LEMMA CallKeeps ==
  ASSUME IInv, NEW c \in Call, Runs(c), NEW new \in CallState, CallBecomes(c, new), Knows(new)',
         row' \in [Request -> Row], task' \in [Release -> Download], UNCHANGED <<hooks, restarts>>,
         ~NativeThreads => PendingHasNoDelivery'
  PROVE  IInv'
<1>1. TypeOK' BY DEF IInv, TypeOK, CallBecomes
<1>2. ASSUME NEW d \in Call PROVE Knows(call[d])'
  <2>1. CASE d = c BY <2>1 DEF CallBecomes
  <2>2. CASE d # c /\ ~NativeThreads
    <3>1. call[d].pc \in MayBlock BY <2>2 DEF Runs
    <3>2. call'[d] = call[d] BY <2>2 DEF CallBecomes
    <3> QED BY <3>1, <3>2, BlockedKnows
  <2>3. CASE d # c /\ NativeThreads
    <3>1. call'[d] = call[d] BY <2>3 DEF CallBecomes
    <3>2. Knows(call[d]) BY DEF IInv
    <3> QED BY <2>3, <3>1, <3>2 DEF Knows
  <2> QED BY <2>1, <2>2, <2>3
<1>3. ASSUME ~NativeThreads PROVE OneBusy'
  <2>1. \A d \in Call \ {c} : call'[d].pc \in MayBlock BY <1>3 DEF Runs, CallBecomes
  <2> QED BY <2>1 DEF OneBusy, MayBlock
<1> QED BY <1>1, <1>2, <1>3 DEF IInv

\* The step of a call that leaves the rows and the tasks alone.
LEMMA CallOnly ==
  ASSUME IInv, NEW c \in Call, Runs(c), NEW new \in CallState, CallBecomes(c, new), Knows(new),
         UNCHANGED <<row, task, hooks, restarts>>
  PROVE  IInv'
<1>1. row' \in [Request -> Row] /\ task' \in [Release -> Download] BY DEF IInv, TypeOK
<1>2. Knows(new)' BY DEF Knows, StillSo
<1>3. ~NativeThreads => PendingHasNoDelivery' BY DEF IInv, PendingHasNoDelivery
<1> QED BY <1>1, <1>2, <1>3, CallKeeps

\* The step of a call that writes one row and then knows nothing more of it.
LEMMA CallWritesRow ==
  ASSUME IInv, NEW c \in Call, Runs(c), NEW new \in CallState, CallBecomes(c, new), Knows(new)',
         NEW r \in Request, NEW status \in RowStatus, NEW delivery \in Delivery,
         NEW release \in Release \cup {NoRelease}, SetRow(r, status, delivery, release),
         status = "pending" => delivery = "none",
         UNCHANGED <<task, hooks, restarts>>
  PROVE  IInv'
<1>1. RowBecomes(r, status, delivery) BY SetRowEffect DEF IInv
<1>2. row' \in [Request -> Row] /\ task' \in [Release -> Download]
  BY <1>1 DEF IInv, TypeOK, RowBecomes
<1>3. ASSUME ~NativeThreads PROVE PendingHasNoDelivery'
  BY <1>1, <1>3 DEF IInv, PendingHasNoDelivery, RowBecomes
<1> QED BY <1>2, <1>3, CallKeeps

\* A step of the queue: under gevent no call is busy meanwhile.
LEMMA QueueKeeps ==
  ASSUME IInv, NobodyBusy, row' \in [Request -> Row], task' \in [Release -> Download],
         hooks' \subseteq Hook, UNCHANGED <<call, restarts>>,
         ~NativeThreads => PendingHasNoDelivery'
  PROVE  IInv'
<1>1. TypeOK' BY DEF IInv, TypeOK
<1>2. ASSUME NEW d \in Call PROVE Knows(call[d])'
  <2>1. CASE NativeThreads
    <3>1. Knows(call[d]) BY DEF IInv
    <3> QED BY <2>1, <3>1 DEF Knows
  <2>2. CASE ~NativeThreads
    <3>1. call[d].pc \in MayBlock BY <2>2 DEF NobodyBusy
    <3> QED BY <3>1, BlockedKnows
  <2> QED BY <2>1, <2>2
<1>3. ASSUME ~NativeThreads PROVE OneBusy' BY <1>3 DEF IInv, OneBusy
<1> QED BY <1>1, <1>2, <1>3 DEF IInv

-----------------------------------------------------------------------------
(***************************************************************************)
(* Each step keeps the invariant: calls that start, ...                    *)
(***************************************************************************)
\* Creating a request starts with one that does not exist.
LEMMA CreateKeeps ==
  ASSUME IInv, NEW c \in Call, Runs(c), NEW r \in Request,
         NEW s \in Release \cup {NoRelease}, Create(c, r, s)
  PROVE  IInv'
<1>1. PICK new \in CallState :
        new.pc = "create" /\ new.request = r /\ CallBecomes(c, new)
  BY StartsEffect DEF IInv, Create, CallPC
<1>2. Knows(new) BY <1>1 DEF Create, Knows, StillSo
<1> QED BY <1>1, <1>2, CallOnly DEF Create

\* A decision starts with a pending request.
LEMMA DecideKeeps ==
  ASSUME IInv, NEW c \in Call, Runs(c), NEW r \in Request, Decide(c, r)
  PROVE  IInv'
<1>1. \E pc \in {"cancel", "reject", "approve", "claim"}, s, o \in Release \cup {NoRelease} :
        Starts(c, pc, r, s, o)
  <2>1. row[r].release \in Release \cup {NoRelease} BY DEF IInv, TypeOK, Row
  <2> QED BY <2>1 DEF Decide
<1>2. PICK pc \in {"cancel", "reject", "approve", "claim"}, s, o \in Release \cup {NoRelease} :
        Starts(c, pc, r, s, o)
  BY <1>1
<1>3. PICK new \in CallState : new.pc = pc /\ new.request = r /\ CallBecomes(c, new)
  BY <1>2, StartsEffect DEF IInv, CallPC
<1>4. Knows(new) BY <1>3 DEF Knows, StillSo
<1> QED BY <1>3, <1>4, CallOnly DEF Decide

\* A retry blocks, and knows nothing.
LEMMA RetryKeeps ==
  ASSUME IInv, NEW c \in Call, Runs(c), NEW s \in Release, Retry(c, s)
  PROVE  IInv'
<1>1. task[s].request \in Request \cup {NoRequest} BY DEF IInv, TypeOK, Download
<1>2. PICK pc \in {"retry", "restore"} : Starts(c, pc, task[s].request, s, NoRelease)
  BY DEF Retry
<1>3. PICK new \in CallState : new.pc = pc /\ CallBecomes(c, new)
  BY <1>1, <1>2, StartsEffect DEF IInv, CallPC
<1>4. Knows(new) BY <1>3, BlockedKnows DEF MayBlock
<1> QED BY <1>3, <1>4, CallOnly DEF Retry

\* A listing of the queue is not yet about requests.
LEMMA SyncReadsKeeps ==
  ASSUME IInv, NEW c \in Call, Runs(c), SyncReads(c)
  PROVE  IInv'
<1> DEFINE pc == IF \E s \in Release : task[s].status \notin Unfinished THEN "asking" ELSE "seen"
           seen == [s \in Release |-> Listed(task[s])]
           new == [IdleCall EXCEPT !.pc = pc, !.seen = seen]
<1>1. seen \in [Release -> Seen]
  <2>1. Unlisted \in Seen BY DEF Unlisted, Seen, Delivery
  <2>2. \A s \in Release : task[s] \in Download BY DEF IInv, TypeOK
  <2> QED BY <2>1, <2>2, SeenTypes
<1>2. pc \in {"asking", "seen"} OBVIOUS
<1>3. Becomes(c, new) BY DEF SyncReads
<1> HIDE DEF seen, pc
<1>4. new \in CallState /\ new.pc \in {"asking", "seen"}
  BY <1>1, <1>2, IdleTyped DEF IdleCall, CallState, CallPC
<1>5. CallBecomes(c, new) BY <1>3, <1>4, BecomesEffect DEF IInv
<1>6. Knows(new) BY <1>4 DEF Knows, StillSo, Deciding
<1> QED BY <1>4, <1>5, <1>6, CallOnly DEF SyncReads

(***************************************************************************)
(* ... calls that go on, ...                                               *)
(***************************************************************************)
\* The row of a new request.
LEMMA InsertKeeps ==
  ASSUME IInv, NEW c \in Call, Runs(c), Insert(c)
  PROVE  IInv'
<1>1. call[c].request \in Request BY DEF IInv, Knows, Insert, Deciding
<1>2. call[c].release \in Release \cup {NoRelease} BY DEF IInv, TypeOK, CallState
<1>3. CallBecomes(c, IdleCall) BY ReturnsEffect DEF IInv, Insert
<1>4. Knows(IdleCall)' BY IdleTyped, BlockedKnows DEF MayBlock
<1> QED BY <1>1, <1>2, <1>3, <1>4, IdleTyped, CallWritesRow DEF Insert, RowStatus, Delivery

\* A decision that is still possible is written, ...
LEMMA CancelKeeps ==
  ASSUME IInv, NEW c \in Call, Runs(c), CancelWrites(c) \/ RejectWrites(c) \/ ApproveWrites(c)
  PROVE  IInv'
<1>1. call[c].request \in Request
  BY DEF IInv, Knows, CancelWrites, RejectWrites, ApproveWrites, Write, Deciding
<1>2. row[call[c].request] \in Row BY <1>1 DEF IInv, TypeOK
<1>3. CallBecomes(c, IdleCall)
  BY ReturnsEffect DEF IInv, CancelWrites, RejectWrites, ApproveWrites
<1>4. Knows(IdleCall)' BY IdleTyped, BlockedKnows DEF MayBlock
<1>5. PICK status \in RowStatus \ {"pending"}, delivery \in Delivery,
           release \in Release \cup {NoRelease} :
        SetRow(call[c].request, status, delivery, release)
  BY <1>2 DEF CancelWrites, RejectWrites, ApproveWrites, Write, Row, RowStatus, Delivery
<1>6. UNCHANGED <<task, hooks, restarts>>
  BY DEF CancelWrites, RejectWrites, ApproveWrites, Write
<1> QED BY <1>1, <1>3, <1>4, <1>5, <1>6, IdleTyped, CallWritesRow

\* ... or the claim of a release.
LEMMA ClaimKeeps ==
  ASSUME IInv, NEW c \in Call, Runs(c), ClaimWrites(c)
  PROVE  IInv'
<1> DEFINE r == call[c].request
<1>1. r \in Request BY DEF IInv, Knows, ClaimWrites, Write, Deciding
<1>2. call[c].release \in Release \cup {NoRelease} BY DEF IInv, TypeOK, CallState
<1>3. PICK new \in CallState : new.pc = "queue" /\ new.request = r /\ CallBecomes(c, new)
  BY GoesEffect DEF IInv, ClaimWrites, CallPC
<1>4. SetRow(r, "fulfilled", "queued", call[c].release) BY DEF ClaimWrites, Write
<1>5. "fulfilled" \in RowStatus /\ "queued" \in Delivery BY DEF RowStatus, Delivery
<1>6. RowBecomes(r, "fulfilled", "queued")
  BY <1>1, <1>2, <1>4, <1>5, SetRowEffect DEF IInv
<1>7. Knows(new)' BY <1>1, <1>3, <1>6 DEF Knows, StillSo, RowBecomes
<1>8. UNCHANGED <<task, hooks, restarts>> BY DEF ClaimWrites, Write
<1> QED BY <1>1, <1>2, <1>3, <1>4, <1>5, <1>7, <1>8, CallWritesRow

\* A call that only gives up.
LEMMA ReturnKeeps ==
  ASSUME IInv, NEW c \in Call, Runs(c), Stale(c) \/ SyncEnds(c)
  PROVE  IInv'
<1>1. Knows(IdleCall) BY IdleTyped, BlockedKnows DEF MayBlock
<1>2. CallBecomes(c, IdleCall) BY ReturnsEffect DEF IInv, Stale, SyncEnds
<1> QED BY <1>1, <1>2, IdleTyped, CallOnly DEF Stale, SyncEnds

\* The queue takes the release or refuses it.
LEMMA QueueClaimedKeeps ==
  ASSUME IInv, NEW c \in Call, Runs(c), QueueClaimed(c)
  PROVE  IInv'
<1>1. call[c] \in CallState /\ row' = row BY DEF IInv, TypeOK, QueueClaimed
<1>2. CASE AddTask(call[c].release, call[c].request, FALSE) /\ Returns(c)
  <2>1. task' \in [Release -> Download]
    <3>1. CASE call[c].release \in Release
      BY <1>1, <1>2, <3>1, AddTaskTyped DEF IInv, CallState
    <3>2. CASE call[c].release \notin Release
      BY <1>2, <3>2 DEF AddTask, IInv, TypeOK
    <3> QED BY <3>1, <3>2
  <2>2. CallBecomes(c, IdleCall) BY <1>2, ReturnsEffect DEF IInv
  <2>3. Knows(IdleCall)' BY IdleTyped, BlockedKnows DEF MayBlock
  <2>4. row' \in [Request -> Row] BY <1>1 DEF IInv, TypeOK
  <2>5. ~NativeThreads => PendingHasNoDelivery' BY <1>1 DEF IInv, PendingHasNoDelivery
  <2> QED BY <2>1, <2>2, <2>3, <2>4, <2>5, IdleTyped, CallKeeps DEF QueueClaimed
<1>3. CASE Goes(c, "rollback") /\ UNCHANGED task
  <2>1. PICK new \in CallState :
          new.pc = "rollback" /\ new.request = call[c].request /\ CallBecomes(c, new)
    BY <1>3, GoesEffect DEF IInv, CallPC
  <2>2. Knows(call[c]) BY DEF IInv
  <2>3. Knows(new) BY <2>1, <2>2 DEF QueueClaimed, Knows, StillSo, Deciding
  <2> QED BY <1>3, <2>1, <2>3, CallOnly DEF QueueClaimed
<1> QED BY <1>2, <1>3 DEF QueueClaimed

\* The rollback of a claim.
LEMMA RollBackKeeps ==
  ASSUME IInv, NEW c \in Call, Runs(c), RollBack(c)
  PROVE  IInv'
<1>1. call[c].request \in Request BY DEF IInv, Knows, RollBack, Deciding
<1>2. call[c].original \in Release \cup {NoRelease} BY DEF IInv, TypeOK, CallState
<1>3. CallBecomes(c, IdleCall) BY ReturnsEffect DEF IInv, RollBack
<1>4. Knows(IdleCall)' BY IdleTyped, BlockedKnows DEF MayBlock
<1> QED BY <1>1, <1>2, <1>3, <1>4, IdleTyped, CallWritesRow DEF RollBack, RowStatus, Delivery

\* A sync knows which of the requests it means to write are fulfilled.
LEMMA SyncPlansKeeps ==
  ASSUME IInv, NEW c \in Call, Runs(c), SyncPlans(c)
  PROVE  IInv'
<1>1. PICK new \in CallState :
        /\ CallBecomes(c, new)
        /\ new.pc = "sync"
        /\ \A r \in Request : new.plan[r].delivery # "none" => row[r].status = "fulfilled"
  BY SyncPlansEffect DEF IInv
<1>2. Knows(new) BY <1>1 DEF Knows, StillSo, Deciding
<1> QED BY <1>1, <1>2, CallOnly DEF SyncPlans

\* Reopening a request.
LEMMA ReopenEffect ==
  ASSUME TypeOK, NEW r \in Request, Reopen(r)
  PROVE  RowBecomes(r, "pending", "none")
BY SetRowEffect DEF Reopen, RowStatus, Delivery

\* A sync writes a fulfilled request, or reopens one; it still knows the others.
LEMMA SyncWritesKeeps ==
  ASSUME IInv, NEW c \in Call, Runs(c), NEW r \in Request, SyncWrites(c, r)
  PROVE  IInv'
<1> DEFINE plan == call[c].plan[r]
<1>0. PICK new : new = [call[c] EXCEPT !.plan[r] = Nothing] OBVIOUS
<1>1. call[c] \in CallState /\ call[c].plan \in [Request -> Plan] BY DEF IInv, TypeOK, CallState
<1>2. plan.delivery \in Delivery BY <1>1 DEF Plan
<1>3. /\ new \in CallState /\ new.pc = "sync"
      /\ new.plan = [call[c].plan EXCEPT ![r] = Nothing]
  <2>1. Nothing \in Plan BY DEF Nothing, Plan, Delivery
  <2>2. [call[c].plan EXCEPT ![r] = Nothing] \in [Request -> Plan] BY <1>1, <2>1
  <2> QED BY <1>0, <1>1, <2>2 DEF CallState, SyncWrites
<1>4. CallBecomes(c, new) BY <1>0, <1>3, BecomesEffect DEF IInv, SyncWrites, Becomes
<1>5. /\ row' \in [Request -> Row]
      /\ \A q \in Request \ {r} : row'[q] = row[q]
      /\ row'[r].status = "pending" =>
           row'[r].delivery = "none" \/ row[r].status = "pending"
  <2>1. CASE Reopen(r) BY <2>1, ReopenEffect DEF IInv, RowBecomes
  <2>2. CASE UNCHANGED row BY <2>2 DEF IInv, TypeOK
  <2>3. CASE row' = [row EXCEPT ![r].delivery = plan.delivery]
    BY <1>2, <2>3 DEF IInv, TypeOK, Row
  <2> QED BY <2>1, <2>2, <2>3 DEF SyncWrites
<1>6. ASSUME ~NativeThreads PROVE StillSo(new)' /\ PendingHasNoDelivery'
  <2>1. StillSo(call[c]) BY <1>6 DEF IInv, Knows
  <2>2. \A q \in Request : new.plan[q].delivery # "none" =>
          q # r /\ call[c].plan[q].delivery # "none"
    BY <1>1, <1>3 DEF Nothing
  <2>3. StillSo(new)' BY <1>3, <1>5, <2>1, <2>2 DEF StillSo, SyncWrites
  <2>4. row[r].status = "fulfilled" BY <2>1 DEF StillSo, SyncWrites, Planned
  <2>5. PendingHasNoDelivery' BY <1>5, <1>6, <2>4 DEF IInv, PendingHasNoDelivery
  <2> QED BY <2>3, <2>5
<1>7. Knows(new)' BY <1>3, <1>6 DEF Knows, Deciding
<1>8. task' \in [Release -> Download] BY DEF IInv, TypeOK, SyncWrites
<1> QED BY <1>3, <1>4, <1>5, <1>6, <1>7, <1>8, CallKeeps DEF SyncWrites

\* A retry puts the release into the queue, or finds that it need not.
LEMMA RetryQueuesKeeps ==
  ASSUME IInv, NEW c \in Call, Runs(c), RetryQueues(c)
  PROVE  IInv'
<1> DEFINE s == call[c].release
           t == task[s]
<1>1. call[c] \in CallState BY DEF IInv, TypeOK
<1>2. task' \in [Release -> Download]
  <2>1. CASE s \in Release
    <3>1. t \in Download BY <2>1 DEF IInv, TypeOK
    <3>2. t.request \in Request \cup {NoRequest} /\ t.staged \in BOOLEAN BY <3>1 DEF Download
    <3>3. [t EXCEPT !.status = "queued"] \in Download BY <3>1 DEF Download, Delivery
    <3>4. Recorded([t EXCEPT !.status = "queued"], t.request) \in Download
      BY <3>2, <3>3, TaskTypes DEF Delivery
    <3>5. CASE UNCHANGED task BY <3>5 DEF IInv, TypeOK
    <3>6. CASE task' = [task EXCEPT ![s] = Recorded([t EXCEPT !.status = "queued"], t.request)]
      BY <3>4, <3>6 DEF IInv, TypeOK
    <3>7. CASE AddTask(s, call[c].request, t.staged)
      BY <1>1, <2>1, <3>2, <3>7, AddTaskTyped DEF IInv, CallState
    <3> QED BY <3>5, <3>6, <3>7 DEF RetryQueues
  <2>2. CASE s \notin Release BY <2>2 DEF RetryQueues, AddTask, IInv, TypeOK
  <2> QED BY <2>1, <2>2
<1>3. CallBecomes(c, IdleCall) BY ReturnsEffect DEF IInv, RetryQueues
<1>4. Knows(IdleCall)' BY IdleTyped, BlockedKnows DEF MayBlock
<1>5. row' = row /\ UNCHANGED <<hooks, restarts>> BY DEF RetryQueues
<1>6. row' \in [Request -> Row] BY <1>5 DEF IInv, TypeOK
<1>7. ~NativeThreads => PendingHasNoDelivery' BY <1>5 DEF IInv, PendingHasNoDelivery
<1> QED BY <1>2, <1>3, <1>4, <1>5, <1>6, <1>7, IdleTyped, CallKeeps

(***************************************************************************)
(* ... and the queue.                                                      *)
(***************************************************************************)
\* What workers and the library do to one task.
LEMMA TaskMovesKeep ==
  ASSUME IInv, NobodyBusy, NEW s \in Release,
         DirectRelease(s) \/ StagedVanishes(s) \/ TaskExpires(s) \/ RowDeleted(s)
  PROVE  IInv'
<1>1. task[s] \in Download BY DEF IInv, TypeOK
<1>2. task' \in [Release -> Download]
  <2>1. CASE DirectRelease(s) BY <2>1, AddTaskTyped DEF DirectRelease, IInv
  <2>2. CASE StagedVanishes(s)
    <3>1. [task[s] EXCEPT !.staged = FALSE] \in Download BY <1>1 DEF Download
    <3> QED BY <2>2, <3>1 DEF StagedVanishes, IInv, TypeOK
  <2>3. CASE TaskExpires(s)
    <3>1. Forgotten(task[s]) \in Download
      BY <1>1, TaskTypes DEF Delivery
    <3> QED BY <2>3, <3>1 DEF TaskExpires, IInv, TypeOK
  <2>4. CASE RowDeleted(s)
    <3>1. NoDownload \in Download BY DEF NoDownload, Download, Delivery
    <3>2. [task[s] EXCEPT !.history = "none", !.owner = NoRequest] \in Download
      BY <1>1 DEF Download, Delivery
    <3> QED BY <2>4, <3>1, <3>2 DEF RowDeleted, IInv, TypeOK
  <2> QED BY <2>1, <2>2, <2>3, <2>4
<1>3. UNCHANGED <<row, hooks, call, restarts>>
  BY DEF DirectRelease, StagedVanishes, TaskExpires, RowDeleted
<1>4. row' \in [Request -> Row] /\ hooks' \subseteq Hook BY <1>3 DEF IInv, TypeOK
<1>5. ~NativeThreads => PendingHasNoDelivery' BY <1>3 DEF IInv, PendingHasNoDelivery
<1> QED BY <1>2, <1>3, <1>4, <1>5, QueueKeeps

\* A worker's report, with the hook of a failed download of a request.
LEMMA TaskReportsKeeps ==
  ASSUME IInv, NobodyBusy, NEW s \in Release, TaskReports(s)
  PROVE  IInv'
<1>1. PICK status \in {"queued", "complete", "error", "cancelled"}, staged \in BOOLEAN :
        LET t == [task[s] EXCEPT !.status = status, !.staged = staged]
            waits == status = "error" /\ t.request # NoRequest
        IN /\ task' = [task EXCEPT ![s] = IF waits \/ status = "queued" THEN t
                                          ELSE Finalized(t, status)]
           /\ hooks' = IF waits
                       THEN hooks \cup {[release |-> s, request |-> t.request, staged |-> staged]}
                       ELSE hooks
  BY DEF TaskReports
<1> DEFINE t == [task[s] EXCEPT !.status = status, !.staged = staged]
<1>2. task[s] \in Download /\ status \in Delivery BY DEF IInv, TypeOK, Delivery
<1>3. t \in Download /\ t.request \in Request \cup {NoRequest} BY <1>2 DEF Download
<1>4. Finalized(t, status) \in Download BY <1>2, <1>3, TaskTypes
<1> HIDE DEF t
<1>5. task' = [task EXCEPT ![s] = t] \/ task' = [task EXCEPT ![s] = Finalized(t, status)]
  BY <1>1 DEF t
<1>6. task' \in [Release -> Download] BY <1>3, <1>4, <1>5 DEF IInv, TypeOK
<1>7. hooks' \subseteq Hook
  <2>1. \/ hooks' = hooks
        \/ t.request # NoRequest /\ hooks' =
             hooks \cup {[release |-> s, request |-> t.request, staged |-> staged]}
    BY <1>1 DEF t
  <2>2. t.request # NoRequest =>
          [release |-> s, request |-> t.request, staged |-> staged] \in Hook
    BY <1>3 DEF Hook
  <2> QED BY <2>1, <2>2 DEF IInv, TypeOK
<1>8. UNCHANGED <<row, call, restarts>> BY DEF TaskReports
<1>9. row' \in [Request -> Row] BY <1>8 DEF IInv, TypeOK
<1>10. ~NativeThreads => PendingHasNoDelivery' BY <1>8 DEF IInv, PendingHasNoDelivery
<1> QED BY <1>6, <1>7, <1>8, <1>9, <1>10, QueueKeeps

\* The hook of a failed download finalizes a row and reopens a request.
LEMMA RunHookKeeps ==
  ASSUME IInv, NobodyBusy, NEW h \in hooks, RunHook(h)
  PROVE  IInv'
<1>1. h.release \in Release /\ h.request \in Request BY DEF IInv, TypeOK, Hook
<1>2. task' \in [Release -> Download]
  <2>1. Finalized(task[h.release], "error") \in Download
    BY <1>1, TaskTypes DEF IInv, TypeOK, Delivery
  <2> QED BY <2>1 DEF RunHook, IInv, TypeOK
<1>3. hooks' \subseteq Hook BY DEF RunHook, IInv, TypeOK
<1>4. UNCHANGED <<call, restarts>> BY DEF RunHook
<1>5. CASE Reopen(h.request)
  <2>1. RowBecomes(h.request, "pending", "none") BY <1>1, <1>5, ReopenEffect DEF IInv
  <2>2. row' \in [Request -> Row] BY <2>1 DEF RowBecomes
  <2>3. ~NativeThreads => PendingHasNoDelivery'
    BY <2>1 DEF RowBecomes, IInv, PendingHasNoDelivery
  <2> QED BY <1>2, <1>3, <1>4, <2>2, <2>3, QueueKeeps
<1>6. CASE UNCHANGED row
  <2>1. row' \in [Request -> Row] BY <1>6 DEF IInv, TypeOK
  <2>2. ~NativeThreads => PendingHasNoDelivery' BY <1>6 DEF IInv, PendingHasNoDelivery
  <2> QED BY <1>2, <1>3, <1>4, <2>1, <2>2, QueueKeeps
<1> QED BY <1>5, <1>6 DEF RunHook

\* After a restart nobody is busy.
LEMMA RestartKeeps ==
  ASSUME IInv, Restart
  PROVE  IInv'
<1>1. TypeOK'
  <2>1. \A s \in Release : Forgotten(task[s]) \in Download
    <3>1. "none" \in Delivery BY DEF Delivery
    <3>2. \A s \in Release : task[s] \in Download BY DEF IInv, TypeOK
    <3> QED BY <3>1, <3>2, TaskTypes
  <2>2. task' \in [Release -> Download] BY <2>1 DEF Restart
  <2>3. call' \in [Call -> CallState] BY IdleTyped DEF Restart
  <2> QED BY <2>2, <2>3 DEF Restart, IInv, TypeOK
<1>2. ASSUME NEW c \in Call PROVE call'[c].pc \in MayBlock /\ Knows(call[c])'
  <2>1. call'[c].pc \in MayBlock BY IdleTyped DEF Restart, MayBlock
  <2> QED BY <2>1 DEF Knows, StillSo, Deciding, MayBlock
<1>3. OneBusy' BY <1>2 DEF OneBusy
<1>4. ~NativeThreads => PendingHasNoDelivery' BY DEF Restart, IInv, PendingHasNoDelivery
<1> QED BY <1>1, <1>2, <1>3, <1>4 DEF IInv

-----------------------------------------------------------------------------
(***************************************************************************)
(* The invariant, for every step and every behavior.                       *)
(***************************************************************************)
\* It holds at first.
LEMMA InitIInv ==
  ASSUME Init
  PROVE  IInv
<1>1. [status |-> "absent", delivery |-> "none", release |-> NoRelease] \in Row
  BY DEF Row, RowStatus, Delivery
<1>2. NoDownload \in Download BY DEF NoDownload, Download, Delivery
<1>3. TypeOK BY <1>1, <1>2, IdleTyped DEF Init, TypeOK
<1>4. \A c \in Call : call[c].pc \in MayBlock BY IdleTyped DEF Init, MayBlock
<1>5. \A c \in Call : Knows(call[c]) BY <1>4, BlockedKnows
<1>6. OneBusy BY <1>4 DEF OneBusy
<1>7. PendingHasNoDelivery BY DEF Init, PendingHasNoDelivery
<1> QED BY <1>3, <1>5, <1>6, <1>7 DEF IInv

\* Every step keeps it.
LEMMA NextIInv ==
  ASSUME IInv, [Next]_vars
  PROVE  IInv'
<1>1. CASE UNCHANGED vars
  BY <1>1 DEF vars, IInv, TypeOK, Knows, StillSo, OneBusy, PendingHasNoDelivery
<1>2. CASE \E c \in Call : Runs(c) /\ CallStarts(c)
  BY <1>2, CreateKeeps, DecideKeeps, RetryKeeps, SyncReadsKeeps DEF CallStarts
<1>3. CASE \E c \in Call : Runs(c) /\ CallGoesOn(c)
  BY <1>3, InsertKeeps, CancelKeeps, ClaimKeeps, ReturnKeeps, QueueClaimedKeeps, RollBackKeeps,
     SyncPlansKeeps, SyncWritesKeeps, RetryQueuesKeeps DEF CallGoesOn
<1>4. CASE NobodyBusy /\ QueueMoves
  BY <1>4, TaskMovesKeep, TaskReportsKeeps, RunHookKeeps DEF QueueMoves
<1>5. CASE Restart BY <1>5, RestartKeeps
<1> QED BY <1>1, <1>2, <1>3, <1>4, <1>5 DEF Next

\* So it always holds.
LEMMA SpecIInv == Spec => []IInv
<1> QED BY InitIInv, NextIInv, PTL DEF Spec

\* Rows, tasks, hooks and calls keep their types.
THEOREM RequestTypes == Spec => []TypeOK
<1>1. IInv => TypeOK BY DEF IInv
<1> QED BY <1>1, SpecIInv, PTL

(***************************************************************************)
(* Under gevent a request that waits for a decision shows no delivery,     *)
(* whatever rollbacks, reopenings and syncs have written                   *)
(* (rollback_request_fulfilment, reopen_failed_request,                    *)
(* sync_delivery_states_from_queue_status).                                *)
(***************************************************************************)
THEOREM NoDeliveryWhilePending ==
  ASSUME ~NativeThreads
  PROVE  Spec => []PendingHasNoDelivery
<1>1. IInv => PendingHasNoDelivery BY DEF IInv
<1> QED BY <1>1, SpecIInv, PTL

-----------------------------------------------------------------------------
(***************************************************************************)
(* Decisions.                                                              *)
(***************************************************************************)
\* What the steps of a call do to the status of a row.
LEMMA CallDecides ==
  ASSUME TypeOK, NEW c \in Call, CallGoesOn(c), NEW r \in Request,
         row'[r].status # row[r].status
  PROVE  "pending" \in {row[r].status, row'[r].status}
<1> USE DEF TypeOK, Row
<1>1. CASE Insert(c) BY <1>1 DEF Insert, SetRow
<1>2. CASE CancelWrites(c) \/ RejectWrites(c) \/ ApproveWrites(c) \/ ClaimWrites(c)
  BY <1>2 DEF CancelWrites, RejectWrites, ApproveWrites, ClaimWrites, Write, SetRow
<1>3. CASE Stale(c) \/ QueueClaimed(c) \/ SyncPlans(c) \/ SyncEnds(c) \/ RetryQueues(c)
  BY <1>3 DEF Stale, QueueClaimed, SyncPlans, SyncEnds, RetryQueues
<1>4. CASE RollBack(c) BY <1>4 DEF RollBack, SetRow
<1>5. CASE \E q \in Request : SyncWrites(c, q)
  <2>1. PICK q \in Request : SyncWrites(c, q) BY <1>5
  <2>2. CASE Reopen(q) BY <2>2 DEF Reopen, SetRow
  <2>3. CASE UNCHANGED row BY <2>3
  <2>4. CASE row' = [row EXCEPT ![q].delivery = call[c].plan[q].delivery] BY <2>4
  <2> QED BY <2>1, <2>2, <2>3, <2>4 DEF SyncWrites
<1> QED BY <1>1, <1>2, <1>3, <1>4, <1>5 DEF CallGoesOn

\* A decision is taken on a pending request only, in either mode.
LEMMA StepDecides ==
  ASSUME TypeOK, [Next]_vars, NEW r \in Request, row'[r].status # row[r].status
  PROVE  "pending" \in {row[r].status, row'[r].status}
<1>1. CASE UNCHANGED vars BY <1>1 DEF vars
<1>2. CASE \E c \in Call : CallStarts(c)
  BY <1>2 DEF CallStarts, Create, Decide, Retry, SyncReads
<1>3. CASE \E c \in Call : CallGoesOn(c) BY <1>3, CallDecides
<1>4. CASE QueueMoves
  <2>1. CASE \E h \in hooks : RunHook(h)
    BY <2>1 DEF RunHook, Reopen, SetRow, TypeOK
  <2>2. CASE UNCHANGED row BY <2>2
  <2> QED
    BY <1>4, <2>1, <2>2
    DEF QueueMoves, DirectRelease, TaskReports, StagedVanishes, TaskExpires, RowDeleted
<1>5. CASE Restart BY <1>5 DEF Restart
<1> QED BY <1>1, <1>2, <1>3, <1>4, <1>5 DEF Next

(***************************************************************************)
(* No decision follows another without a rollback or a reopening between   *)
(* them, with greenlets or with preemptive threads (update_request with    *)
(* expected_current_status).                                               *)
(***************************************************************************)
THEOREM DecisionsAreTakenOnce == Spec => DecidedOnce
<1>1. TypeOK /\ [Next]_vars =>
        [\A r \in Request : row'[r].status # row[r].status =>
                              "pending" \in {row[r].status, row'[r].status}]_vars
  BY StepDecides
<1> QED BY <1>1, RequestTypes, PTL DEF Spec, DecidedOnce

-----------------------------------------------------------------------------
(***************************************************************************)
(* Under gevent the lifecycle implements RequestSpec.  Only the busy call  *)
(* can have claimed a request, so what RequestSpec sees of a row depends on*)
(* that call alone.                                                        *)
(***************************************************************************)
Claims(k) == k.pc \in {"queue", "rollback"}

Shown(r, status, k) ==
  IF status = "fulfilled" /\ k.request = r /\ Claims(k) THEN "pending" ELSE status

Allowed(from, to) ==
  \/ from = to
  \/ from = "absent" /\ to = "pending"
  \/ from = "pending" /\ to \in {"cancelled", "rejected", "fulfilled"}
  \/ from = "fulfilled" /\ to = "pending"

\* A step that changes the status of one request, as RequestSpec allows.
LEMMA AbstractStep ==
  ASSUME NEW r \in Request, Allowed(Visible[r], Visible'[r]),
         \A q \in Request \ {r} : Visible'[q] = Visible[q]
  PROVE  [Abstract!Next]_Visible
<1>1. Visible = [q \in Request |-> Visible[q]] /\ Visible' = [q \in Request |-> Visible'[q]]
  BY DEF Visible
<1> HIDE DEF Visible
<1>2. Visible' = [Visible EXCEPT ![r] = Visible'[r]] BY <1>1
<1>3. CASE Visible[r] = Visible'[r] BY <1>1, <1>3
<1>4. CASE Visible[r] = "absent" /\ Visible'[r] = "pending"
  BY <1>2, <1>4 DEF Abstract!Next, Abstract!Submit, Abstract!Moves
<1>5. CASE Visible[r] = "pending" /\ Visible'[r] \in {"cancelled", "rejected", "fulfilled"}
  BY <1>2, <1>5 DEF Abstract!Next, Abstract!Decide, Abstract!Moves
<1>6. CASE Visible[r] = "fulfilled" /\ Visible'[r] = "pending"
  BY <1>2, <1>6 DEF Abstract!Next, Abstract!Reopen, Abstract!Moves
<1> QED BY <1>3, <1>4, <1>5, <1>6 DEF Allowed

\* When all other calls are idle or blocked, one call says what is claimed.
LEMMA ShownByOne ==
  ASSUME NEW c \in Call, \A d \in Call \ {c} : call[d].pc \in MayBlock, NEW r \in Request
  PROVE  Visible[r] = Shown(r, row[r].status, call[c])
BY DEF Visible, Claimed, Shown, Claims, MayBlock

\* The same after a step.
LEMMA ShownByOneNext ==
  ASSUME NEW c \in Call, \A d \in Call \ {c} : call'[d].pc \in MayBlock, NEW r \in Request
  PROVE  Visible'[r] = Shown(r, row'[r].status, call'[c])
BY DEF Visible, Claimed, Shown, Claims, MayBlock

\* The step of a call: what changes for the one request that it is about.
LEMMA CallImplements ==
  ASSUME ~NativeThreads, NEW c \in Call, Runs(c), NEW new, CallBecomes(c, new),
         NEW r \in Request, \A q \in Request \ {r} : row'[q].status = row[q].status,
         Claims(call[c]) => call[c].request = r, Claims(new) => new.request = r,
         Allowed(Shown(r, row[r].status, call[c]), Shown(r, row'[r].status, new))
  PROVE  [Abstract!Next]_Visible
<1>1. \A d \in Call \ {c} : call[d].pc \in MayBlock /\ call'[d].pc \in MayBlock
  BY DEF Runs, CallBecomes
<1>2. \A q \in Request : Visible[q] = Shown(q, row[q].status, call[c])
  BY <1>1, ShownByOne
<1>3. \A q \in Request : Visible'[q] = Shown(q, row'[q].status, new)
  BY <1>1, ShownByOneNext DEF CallBecomes
<1>4. \A q \in Request \ {r} : Visible'[q] = Visible[q]
  BY <1>2, <1>3 DEF Shown
<1>5. Allowed(Visible[r], Visible'[r]) BY <1>2, <1>3
<1> QED BY <1>4, <1>5, AbstractStep

\* A step that claims nothing and writes no status is none of RequestSpec.
LEMMA CallStutters ==
  ASSUME ~NativeThreads, NEW c \in Call, Runs(c), NEW new, CallBecomes(c, new),
         ~Claims(call[c]), ~Claims(new), UNCHANGED row
  PROVE  UNCHANGED Visible
<1>1. \A d \in Call \ {c} : call[d].pc \in MayBlock /\ call'[d].pc \in MayBlock
  BY DEF Runs, CallBecomes
<1>2. \A q \in Request : Visible[q] = Shown(q, row[q].status, call[c])
  BY <1>1, ShownByOne
<1>3. \A q \in Request : Visible'[q] = Shown(q, row'[q].status, new)
  BY <1>1, ShownByOneNext DEF CallBecomes
<1>4. \A q \in Request : Visible'[q] = Visible[q] BY <1>2, <1>3 DEF Shown
<1>5. Visible = [q \in Request |-> Visible[q]] /\ Visible' = [q \in Request |-> Visible'[q]]
  BY DEF Visible
<1> HIDE DEF Visible
<1> QED BY <1>4, <1>5

\* A call that starts claims nothing yet.
LEMMA StartImplements ==
  ASSUME IInv, ~NativeThreads, NEW c \in Call, Runs(c), CallStarts(c)
  PROVE  UNCHANGED Visible
<1>1. call[c].pc = "idle" /\ row' = row
  BY DEF CallStarts, Create, Decide, Retry, SyncReads, Starts
<1>2. SyncReads(c) \/ \E pc \in CallPC \ {"queue", "rollback"} : \E r, s, o : Starts(c, pc, r, s, o)
  BY DEF CallStarts, Create, Decide, Retry, CallPC
<1>3. \E new : ~Claims(new) /\ CallBecomes(c, new)
  <2>1. call \in [Call -> CallState] BY DEF IInv, TypeOK
  <2>2. call' \in [Call -> CallState]
    BY NextIInv DEF IInv, TypeOK, Next
  <2>3. CASE SyncReads(c)
    <3> DEFINE pc == IF \E s \in Release : task[s].status \notin Unfinished
                     THEN "asking" ELSE "seen"
    <3> PICK new : new = [IdleCall EXCEPT !.pc = pc,
                                          !.seen = [s \in Release |-> Listed(task[s])]]
      OBVIOUS
    <3>1. call' = [call EXCEPT ![c] = new] BY <2>3 DEF SyncReads, Becomes
    <3>2. new.pc = pc BY DEF IdleCall
    <3>3. ~Claims(new) BY <3>2 DEF Claims
    <3>4. CallBecomes(c, new) BY <2>1, <2>2, <3>1 DEF CallBecomes
    <3> QED BY <3>3, <3>4
  <2>4. CASE \E pc \in CallPC \ {"queue", "rollback"} : \E r, s, o : Starts(c, pc, r, s, o)
    <3> PICK pc \in CallPC \ {"queue", "rollback"} : \E r, s, o : Starts(c, pc, r, s, o) BY <2>4
    <3>1. PICK r, s, o : Starts(c, pc, r, s, o) OBVIOUS
    <3> PICK new : new = [IdleCall EXCEPT !.pc = pc, !.request = r, !.release = s, !.original = o]
      OBVIOUS
    <3>2. call' = [call EXCEPT ![c] = new] BY <3>1 DEF Starts, Becomes
    <3>3. new.pc = pc BY DEF IdleCall
    <3>4. ~Claims(new) BY <3>3 DEF Claims
    <3>5. CallBecomes(c, new) BY <2>1, <2>2, <3>2 DEF CallBecomes
    <3> QED BY <3>4, <3>5
  <2> QED BY <1>2, <2>3, <2>4
<1> QED BY <1>1, <1>3, CallStutters DEF Claims

\* A creation, a decision without a release and a rollback end with what they write.
LEMMA WriteImplements ==
  ASSUME IInv, ~NativeThreads, NEW c \in Call, Runs(c),
         Insert(c) \/ CancelWrites(c) \/ RejectWrites(c) \/ ApproveWrites(c) \/ RollBack(c)
  PROVE  [Abstract!Next]_Visible
<1> PICK r : r = call[c].request OBVIOUS
<1>1. r \in Request
  BY DEF IInv, Knows, Deciding, Insert, CancelWrites, RejectWrites, ApproveWrites, Write, RollBack
<1>2. CallBecomes(c, IdleCall)
  BY ReturnsEffect DEF IInv, Insert, CancelWrites, RejectWrites, ApproveWrites, RollBack
<1>3. ~Claims(IdleCall) BY IdleTyped DEF Claims
<1>4. StillSo(call[c]) BY DEF IInv, Knows
<1>5. PICK status, delivery, release : SetRow(r, status, delivery, release)
  BY DEF Insert, CancelWrites, RejectWrites, ApproveWrites, Write, RollBack
<1>6. \A q \in Request \ {r} : row'[q].status = row[q].status
  BY <1>5 DEF SetRow, IInv, TypeOK
<1>7. Allowed(Shown(r, row[r].status, call[c]), Shown(r, row'[r].status, IdleCall))
  <2>1. CASE Insert(c)
    <3>1. row[r].status = "absent" BY <2>1, <1>4 DEF Insert, StillSo
    <3>2. row'[r].status = "pending" BY <2>1, <1>1 DEF Insert, SetRow, IInv, TypeOK
    <3> QED BY <3>1, <3>2 DEF Shown, Allowed
  <2>2. CASE CancelWrites(c) \/ RejectWrites(c) \/ ApproveWrites(c)
    <3>1. row[r].status = "pending"
      BY <2>2 DEF CancelWrites, RejectWrites, ApproveWrites, Write
    <3>2. row'[r].status \in {"cancelled", "rejected", "fulfilled"}
      BY <2>2, <1>1 DEF CancelWrites, RejectWrites, ApproveWrites, Write, SetRow, IInv, TypeOK
    <3> QED BY <1>3, <3>1, <3>2 DEF Shown, Allowed
  <2>3. CASE RollBack(c)
    <3>1. row[r].status = "fulfilled" BY <2>3, <1>4 DEF RollBack, StillSo
    <3>2. row'[r].status = "pending" BY <2>3, <1>1 DEF RollBack, SetRow, IInv, TypeOK
    <3>3. Claims(call[c]) BY <2>3 DEF RollBack, Claims
    <3> QED BY <3>1, <3>2, <3>3 DEF Shown, Allowed
  <2> QED BY <2>1, <2>2, <2>3
<1> QED BY <1>1, <1>2, <1>3, <1>6, <1>7, CallImplements

\* A claim is not seen, until the queue has taken the release.
LEMMA ClaimImplements ==
  ASSUME IInv, ~NativeThreads, NEW c \in Call, Runs(c), ClaimWrites(c) \/ QueueClaimed(c)
  PROVE  [Abstract!Next]_Visible
<1> PICK r : r = call[c].request OBVIOUS
<1>1. r \in Request
  BY DEF IInv, Knows, Deciding, ClaimWrites, Write, QueueClaimed
<1>2. CASE ClaimWrites(c)
  <2>1. PICK new \in CallState : new.pc = "queue" /\ new.request = r /\ CallBecomes(c, new)
    BY <1>2, GoesEffect DEF IInv, ClaimWrites, CallPC
  <2>2. row[r].status = "pending" BY <1>2 DEF ClaimWrites, Write
  <2>3. /\ row'[r].status = "fulfilled"
        /\ \A q \in Request \ {r} : row'[q].status = row[q].status
    BY <1>1, <1>2 DEF ClaimWrites, Write, SetRow, IInv, TypeOK
  <2>4. Allowed(Shown(r, row[r].status, call[c]), Shown(r, row'[r].status, new))
    BY <2>1, <2>2, <2>3 DEF Shown, Claims, Allowed
  <2> QED BY <1>1, <2>1, <2>3, <2>4, CallImplements
<1>3. CASE QueueClaimed(c)
  <2>1. row[r].status = "fulfilled" /\ Claims(call[c]) /\ row' = row
    BY <1>3 DEF IInv, Knows, StillSo, QueueClaimed, Claims
  <2>2. Shown(r, row[r].status, call[c]) = "pending" BY <2>1 DEF Shown
  <2>3. CASE Returns(c)
    <3>1. CallBecomes(c, IdleCall) BY <2>3, ReturnsEffect DEF IInv
    <3>2. Shown(r, row'[r].status, IdleCall) = "fulfilled" /\ ~Claims(IdleCall)
      BY <2>1, IdleTyped DEF Shown, Claims
    <3> QED BY <1>1, <2>1, <2>2, <3>1, <3>2, CallImplements DEF Allowed
  <2>4. CASE Goes(c, "rollback")
    <3>1. PICK new \in CallState : new.pc = "rollback" /\ new.request = r /\ CallBecomes(c, new)
      BY <2>4, GoesEffect DEF IInv, CallPC
    <3>2. Shown(r, row'[r].status, new) = "pending" BY <2>1, <3>1 DEF Shown, Claims
    <3> QED BY <1>1, <2>1, <2>2, <3>1, <3>2, CallImplements DEF Allowed
  <2> QED BY <1>3, <2>3, <2>4 DEF QueueClaimed
<1> QED BY <1>2, <1>3

\* A call that gives up, plans a sync or retries changes no request.
LEMMA ReadImplements ==
  ASSUME IInv, ~NativeThreads, NEW c \in Call, Runs(c),
         Stale(c) \/ SyncPlans(c) \/ SyncEnds(c) \/ RetryQueues(c)
  PROVE  UNCHANGED Visible
<1>1. row' = row /\ ~Claims(call[c])
  BY DEF Stale, SyncPlans, SyncEnds, RetryQueues, Claims
<1>2. CASE SyncPlans(c)
  <2>1. PICK new \in CallState : CallBecomes(c, new) /\ new.pc = "sync"
    BY <1>2, SyncPlansEffect DEF IInv
  <2> QED BY <1>1, <2>1, CallStutters DEF Claims
<1>3. CASE Stale(c) \/ SyncEnds(c) \/ RetryQueues(c)
  <2>1. CallBecomes(c, IdleCall)
    BY <1>3, ReturnsEffect DEF IInv, Stale, SyncEnds, RetryQueues
  <2> QED BY <1>1, <2>1, IdleTyped, CallStutters DEF Claims
<1> QED BY <1>2, <1>3

\* A sync writes fulfilled requests: it may reopen one, and decides none.
LEMMA SyncImplements ==
  ASSUME IInv, ~NativeThreads, NEW c \in Call, Runs(c), NEW r \in Request, SyncWrites(c, r)
  PROVE  [Abstract!Next]_Visible
<1>1. call[c] \in CallState /\ call[c].pc = "sync" BY DEF IInv, TypeOK, SyncWrites
<1> PICK new : new = [call[c] EXCEPT !.plan[r] = Nothing] OBVIOUS
<1>2. new.pc = "sync" BY <1>1 DEF CallState
<1>3. CallBecomes(c, new)
  <2>1. call' = [call EXCEPT ![c] = new] BY DEF SyncWrites
  <2>2. call' \in [Call -> CallState] BY SyncWritesKeeps DEF IInv, TypeOK
  <2> QED BY <2>1, <2>2 DEF CallBecomes, IInv, TypeOK
<1>4. /\ \A q \in Request \ {r} : row'[q].status = row[q].status
      /\ \/ row'[r].status = row[r].status
         \/ row[r].status = "fulfilled" /\ row'[r].status = "pending"
  <2>1. CASE Reopenable(r) /\ Reopen(r)
    BY <2>1 DEF Reopenable, Reopen, SetRow, IInv, TypeOK
  <2>2. CASE UNCHANGED row BY <2>2
  <2>3. CASE row' = [row EXCEPT ![r].delivery = call[c].plan[r].delivery]
    BY <2>3 DEF IInv, TypeOK, Row
  <2> QED BY <2>1, <2>2, <2>3 DEF SyncWrites
<1>5. ~Claims(call[c]) /\ ~Claims(new) BY <1>1, <1>2 DEF Claims
<1>6. Allowed(Shown(r, row[r].status, call[c]), Shown(r, row'[r].status, new))
  BY <1>4, <1>5 DEF Shown, Allowed
<1> QED BY <1>3, <1>4, <1>5, <1>6, CallImplements

\* Of the queue only the hook of a failed download changes a request: it may reopen it.
LEMMA QueueImplements ==
  ASSUME IInv, ~NativeThreads, NobodyBusy, QueueMoves
  PROVE  [Abstract!Next]_Visible
<1>1. call' = call
  BY DEF QueueMoves, DirectRelease, TaskReports, StagedVanishes, TaskExpires, RowDeleted, RunHook
<1>2. \A r \in Request : ~Claimed(r) /\ ~Claimed(r)'
  BY <1>1 DEF NobodyBusy, Claimed, MayBlock
<1>3. \A r \in Request : Visible[r] = row[r].status /\ Visible'[r] = row'[r].status
  BY <1>2 DEF Visible
<1>4. CASE UNCHANGED row BY <1>2, <1>4 DEF Visible
<1>5. CASE \E h \in hooks : RunHook(h) /\ Reopenable(h.request) /\ Reopen(h.request)
  <2>1. PICK h \in hooks : Reopenable(h.request) /\ Reopen(h.request) BY <1>5
  <2>2. h.request \in Request BY DEF IInv, TypeOK, Hook
  <2> PICK r \in Request : r = h.request BY <2>2
  <2>3. /\ row[r].status = "fulfilled" /\ row'[r].status = "pending"
        /\ \A q \in Request \ {r} : row'[q] = row[q]
    BY <2>1 DEF Reopenable, Reopen, SetRow, IInv, TypeOK
  <2> QED BY <1>3, <2>3, AbstractStep DEF Allowed
<1> QED
  BY <1>4, <1>5
  DEF QueueMoves, DirectRelease, TaskReports, StagedVanishes, TaskExpires, RowDeleted, RunHook

\* A restart turns the claim of the busy call into a fulfilled request.
LEMMA RestartImplements ==
  ASSUME IInv, ~NativeThreads, Restart
  PROVE  [Abstract!Next]_Visible
<1>1. row' = row /\ \A r \in Request : ~Claimed(r)'
  BY IdleTyped DEF Restart, Claimed
<1>2. \A r \in Request : Visible'[r] = row[r].status BY <1>1 DEF Visible
<1>3. CASE \A r \in Request : ~Claimed(r) BY <1>1, <1>3 DEF Visible
<1>4. CASE \E r \in Request : Claimed(r)
  <2>1. PICK r \in Request : Claimed(r) BY <1>4
  <2>2. \A q \in Request \ {r} : ~Claimed(q)
    BY <2>1 DEF Claimed, IInv, OneBusy, MayBlock
  <2>3. \A q \in Request \ {r} : Visible'[q] = Visible[q] BY <1>2, <2>2 DEF Visible
  <2>4. Allowed(Visible[r], Visible'[r])
    BY <1>2 DEF Visible, Allowed
  <2> QED BY <2>3, <2>4, AbstractStep
<1> QED BY <1>3, <1>4

\* At first no request exists.
LEMMA InitImplements ==
  ASSUME Init
  PROVE  Abstract!Init
BY DEF Init, Visible, Abstract!Init

\* Each step is one of RequestSpec, or changes nothing that it sees.
LEMMA NextImplements ==
  ASSUME IInv, ~NativeThreads, [Next]_vars
  PROVE  [Abstract!Next]_Visible
<1>1. CASE UNCHANGED vars BY <1>1 DEF vars, Visible, Claimed
<1>2. CASE \E c \in Call : Runs(c) /\ CallStarts(c) BY <1>2, StartImplements
<1>3. CASE \E c \in Call : Runs(c) /\ CallGoesOn(c)
  BY <1>3, WriteImplements, ClaimImplements, ReadImplements, SyncImplements DEF CallGoesOn
<1>4. CASE NobodyBusy /\ QueueMoves BY <1>4, QueueImplements
<1>5. CASE Restart BY <1>5, RestartImplements
<1> QED BY <1>1, <1>2, <1>3, <1>4, <1>5 DEF Next

(***************************************************************************)
(* Under gevent the request lifecycle implements RequestSpec: a request is *)
(* decided once, only a fulfilled one is ever opened again, and neither    *)
(* claims and rollbacks nor late hooks and syncs disturb that              *)
(* (fulfil_request, rollback_request_fulfilment, reopen_failed_request).   *)
(***************************************************************************)
THEOREM LifecycleImplementsSpec ==
  ASSUME ~NativeThreads
  PROVE  Spec => FollowsRequestSpec
<1>1. Init => Abstract!Init BY InitImplements
<1>2. IInv /\ [Next]_vars => [Abstract!Next]_Visible BY NextImplements
<1> QED BY <1>1, <1>2, SpecIInv, PTL DEF Spec, FollowsRequestSpec, Abstract!Spec
==============================================================================
