---- MODULE LiveStatus ----
\* What the open pages show of the queue: the rooms of the socket server and their counts
\* (api/websocket), the handlers of a page (core/websocket_handlers) and the broadcasts
\* (download/orchestrator).  Greenlets, with a finished file in the queue: whoever reads
\* the status asks the file system for that file, and others run before it sends.
EXTENDS Naturals, FiniteSets

CONSTANTS
  Page,         \* socket ids
  PageUser,     \* users who are not administrators
  NoRoom,
  Sender,       \* greenlets that read the status and send it
  QueueChanges, \* bound: changes of the queue
  AuthToggles   \* bound: changes of the authentication mode

ASSUME LiveAssumption == /\ {QueueChanges, AuthToggles} \subseteq Nat /\ IsFiniteSet(Page)
                         /\ {NoRoom, "admins"} \cap PageUser = {} /\ NoRoom # "admins"

VARIABLES
  authOff,    \* get_auth_mode() = "none"
  identity,   \* identity[p]: the session of the connection, "admins" for an administrator
  opened,     \* opened[p]: "new", "open" or "closed"; a page that returns has a new id
  sidRoom,    \* _sid_rooms, and the rooms of the socket server
  userRooms,  \* _user_rooms
  connectionCount,
  change,     \* changes of the queue so far
  sender,     \* what each greenlet has read and for whom
  shown,      \* shown[p]: the change the page shows
  view,       \* view[p]: whose view of the queue that is
  toggles,
  overtaken,  \* history: the page received an older status after a newer one, and has
              \* received none since that was up to date
  crossed     \* history: the page moved to another room while a handler of it was reading

liveVars == <<authOff, identity, opened, sidRoom, userRooms, connectionCount, change, sender,
              shown, view, toggles, overtaken, crossed>>

Room == PageUser \cup {"admins"}
Unused == [job |-> "none", page |-> NoRoom, room |-> NoRoom, version |-> 0, rest |-> {}]

LiveInit ==
  /\ authOff = FALSE /\ identity = [p \in Page |-> NoRoom] /\ opened = [p \in Page |-> "new"]
  /\ sidRoom = [p \in Page |-> NoRoom] /\ userRooms = [u \in PageUser |-> 0]
  /\ connectionCount = 0 /\ change = 0 /\ sender = [s \in Sender |-> Unused]
  /\ shown = [p \in Page |-> 0] /\ view = [p \in Page |-> NoRoom]
  /\ toggles = 0
  /\ overtaken = [p \in Page |-> FALSE] /\ crossed = [p \in Page |-> FALSE]

\* resolve_status_scope: the room, or none without access.
Scope(i) == IF authOff THEN "admins" ELSE i
Reads(s, job, page, room, rest) ==
  sender' = [sender EXCEPT ![s] = [job |-> job, page |-> page, room |-> room, version |-> change',
                                   rest |-> rest]]

\* _set_sid_room_locked and the counts of the users' rooms.
\* Fault: the first page to leave a room takes the room with it.
CountedOnce(from, to) ==
  [u \in PageUser |-> IF from = to THEN userRooms[u]
                      ELSE IF u = from THEN 0 ELSE IF u = to THEN userRooms[u] + 1 ELSE userRooms[u]]
\* Fault: a page that moves on is still counted where it was.
CountedTwice(from, to) ==
  [u \in PageUser |-> IF from # to /\ u = to THEN userRooms[u] + 1 ELSE userRooms[u]]
Counted(from, to) ==
  [u \in PageUser |-> IF from = to THEN userRooms[u]
                      ELSE IF u = from THEN userRooms[u] - 1
                      ELSE IF u = to THEN userRooms[u] + 1 ELSE userRooms[u]]
SetRoom(p, room) ==
  /\ sidRoom' = [sidRoom EXCEPT ![p] = room] /\ userRooms' = Counted(sidRoom[p], room)
  /\ crossed' = [crossed EXCEPT ![p] = @ \/ (\E s \in Sender : /\ sender[s].job = "page"
                                                               /\ sender[s].page = p
                                                               /\ sender[s].room # room)]

\* A page with no access is sent an empty status.
Answering(s, p, room) ==
  IF room = NoRoom
  THEN shown' = [shown EXCEPT ![p] = 0] /\ view' = [view EXCEPT ![p] = NoRoom] /\ UNCHANGED sender
  ELSE Reads(s, "page", p, room, {}) /\ UNCHANGED <<shown, view>>

Connect(s, p, i) ==
  /\ sender[s] = Unused /\ opened[p] = "new"
  /\ opened' = [opened EXCEPT ![p] = "open"] /\ identity' = [identity EXCEPT ![p] = i]
  /\ connectionCount' = connectionCount + 1
  /\ SetRoom(p, Scope(i)) /\ UNCHANGED change /\ Answering(s, p, Scope(i))
  /\ UNCHANGED <<authOff, toggles, overtaken>>
\* request_status: the room may have changed with the authentication mode.
RequestStatus(s, p) ==
  /\ sender[s] = Unused /\ opened[p] = "open"
  /\ SetRoom(p, Scope(identity[p])) /\ UNCHANGED change /\ Answering(s, p, Scope(identity[p]))
  /\ UNCHANGED <<authOff, identity, opened, connectionCount, toggles, overtaken>>
Disconnect(p) ==
  /\ opened[p] = "open" /\ opened' = [opened EXCEPT ![p] = "closed"]
  /\ sidRoom' = [sidRoom EXCEPT ![p] = NoRoom] /\ userRooms' = Counted(sidRoom[p], NoRoom)
  /\ connectionCount' = IF connectionCount = 0 THEN 0 ELSE connectionCount - 1
  /\ shown' = [shown EXCEPT ![p] = 0] /\ view' = [view EXCEPT ![p] = NoRoom]
  /\ overtaken' = [overtaken EXCEPT ![p] = FALSE] /\ crossed' = [crossed EXCEPT ![p] = FALSE]
  /\ UNCHANGED <<authOff, identity, change, sender, toggles>>
ToggleAuth ==
  /\ toggles < AuthToggles /\ toggles' = toggles + 1 /\ authOff' = ~authOff
  /\ UNCHANGED <<identity, opened, sidRoom, userRooms, connectionCount, change, sender,
                 shown, view, overtaken, crossed>>

\* A change of the queue, and then broadcast_status_update(queue_status()).
QueueMoves(s) ==
  /\ sender[s] = Unused /\ change < QueueChanges /\ change' = change + 1
  /\ sender' = [sender EXCEPT ![s].job = "changed"]
  /\ UNCHANGED <<authOff, identity, opened, sidRoom, userRooms, connectionCount, shown,
                 view, toggles, overtaken, crossed>>
CastReads(s) ==
  /\ sender[s].job = "changed" /\ UNCHANGED change /\ Reads(s, "cast", NoRoom, "admins", {})
  /\ UNCHANGED <<authOff, identity, opened, sidRoom, userRooms, connectionCount, shown,
                 view, toggles, overtaken, crossed>>

Received(pages, room, version) ==
  /\ shown' = [p \in Page |-> IF p \in pages THEN version ELSE shown[p]]
  /\ view' = [p \in Page |-> IF p \in pages THEN room ELSE view[p]]
  /\ overtaken' = [p \in Page |->
                     IF p \in pages THEN version < shown[p] \/ (overtaken[p] /\ version < change)
                     ELSE overtaken[p]]
PageSends(s) ==
  LET r == sender[s] IN
  /\ r.job = "page" /\ Received({r.page} \cap {p \in Page : opened[p] = "open"}, r.room, r.version)
  /\ sender' = [sender EXCEPT ![s] = Unused]
  /\ UNCHANGED <<authOff, identity, opened, sidRoom, userRooms, connectionCount, change,
                 toggles, crossed>>
\* After the administrators' room the rooms that are counted then, one after the other.
Remaining(r) == IF r.room = "admins" THEN {u \in PageUser : userRooms[u] > 0} ELSE r.rest
CastSends(s) ==
  LET r == sender[s] IN
  /\ r.job = "cast" /\ Received({p \in Page : sidRoom[p] = r.room}, r.room, r.version)
  /\ UNCHANGED change
  /\ IF Remaining(r) = {} THEN sender' = [sender EXCEPT ![s] = Unused]
     ELSE \E u \in Remaining(r) : Reads(s, "cast", NoRoom, u, Remaining(r) \ {u})
  /\ UNCHANGED <<authOff, identity, opened, sidRoom, userRooms, connectionCount,
                 toggles, crossed>>

LiveNext ==
  \/ \E s \in Sender, p \in Page, i \in Room \cup {NoRoom} : Connect(s, p, i)
  \/ \E s \in Sender, p \in Page : RequestStatus(s, p)
  \/ \E p \in Page : Disconnect(p)
  \/ ToggleAuth
  \/ \E s \in Sender : QueueMoves(s) \/ CastReads(s) \/ PageSends(s) \/ CastSends(s)
LiveSpec == LiveInit /\ [][LiveNext]_liveVars

----
\* Types; a user's room is counted once for each page that is in it, however pages
\* connect, move between rooms and leave (WebSocketManager).
LiveTypeOK ==
  /\ authOff \in BOOLEAN /\ opened \in [Page -> {"new", "open", "closed"}]
  /\ \A p \in Page : {sidRoom[p], view[p]} \subseteq Room \cup {NoRoom} /\ shown[p] \in 0..change
  /\ \A u \in PageUser : userRooms[u] = Cardinality({p \in Page : sidRoom[p] = u})
  /\ connectionCount = Cardinality({p \in Page : opened[p] = "open"})
  /\ \A s \in Sender : sender[s].version \in 0..change /\ sender[s].rest \subseteq PageUser

\* broadcast_status_update and handle_connect: when nobody is sending, a page that is in
\* a room shows the queue as it is, unless a status read earlier reached it later.
StaleOnlyByOvertaking ==
  \A p \in Page :
    (sidRoom[p] # NoRoom /\ ~overtaken[p] /\ \A s \in Sender : sender[s] = Unused)
    => shown[p] = change

\* A page that nobody is reading for shows its own view of the queue, or the
\* administrators' for one of them, unless it changed rooms while a handler was reading.
OwnView ==
  \A p \in Page :
    (sidRoom[p] # NoRoom /\ ~crossed[p] /\ \A s \in Sender : sender[s].page # p)
    => view[p] = sidRoom[p]

\* A page shows the queue as it is, in its own view, when nobody is sending.
PagesUpToDate == StaleOnlyByOvertaking /\ OwnView
====
