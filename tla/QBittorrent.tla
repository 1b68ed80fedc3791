---- MODULE QBittorrent ----
\* The qBittorrent adapter (download/clients/qbittorrent) and what it learns of a release's
\* hash (download/clients/torrent_utils): one release in one client, and the calls of the
\* handler's thread, request by request.  The session may expire between a login and the
\* request it is for, and the torrent loads, finishes, moves or goes meanwhile.
EXTENDS Naturals, FiniteSets

CONSTANTS
  QbtSetups, \* [padded, own, others, content], see qset
  LoadTries  \* how often an added torrent is looked for

ASSUME QbtAssumption ==
  /\ QbtSetups \subseteq [padded : BOOLEAN, own : BOOLEAN, others : BOOLEAN, content : BOOLEAN]
  /\ LoadTries \in Nat \ {0}

VARIABLES
  qset,    \* padded: the release's hash is the client's, padded; own: its category is the
           \* task's own; others: the configured category has torrents; content: the client
           \* tells where the content is
  torrent, \* state and place
  session, \* the login is valid
  call,    \* the call in progress
  known,   \* the id the handler has: none, the release's hash or the client's
  answer,
  settled, \* history, since the last status: where the torrent came to rest
  moved    \* history: somebody gave it another place

qbtVars == <<qset, torrent, session, call, known, answer, settled, moved>>

NoSetup == [padded |-> FALSE, own |-> FALSE, others |-> FALSE, content |-> FALSE]
NoCall == [name |-> "none", at |-> "idle", ask |-> "none", retried |-> FALSE, tries |-> 0,
         hash |-> FALSE, gone |-> FALSE, expired |-> 0, failed |-> FALSE]
Nothing == [kind |-> "none", path |-> "none"]
Loaded == torrent.state \in {"downloading", "moving", "seeding"}
Rests == IF torrent.state = "seeding" THEN {torrent.place} ELSE {}

QbtInit ==
  /\ qset = NoSetup /\ torrent = [state |-> "absent", place |-> "temp"] /\ session = FALSE
  /\ call = [NoCall EXCEPT !.name = "setup"] /\ known = "none" /\ answer = Nothing
  /\ settled = {} /\ moved = FALSE
\* QBittorrentClient: the settings; somebody may have added the release already.
Configure ==
  /\ call.name = "setup" /\ call' = NoCall /\ qset' \in QbtSetups
  /\ torrent' \in [state : {"absent", "downloading"}, place : {"temp"}]
  /\ UNCHANGED <<session, known, answer, settled, moved>>

----
\* qBittorrent itself
Becomes(t) ==
  /\ torrent' = t /\ call' = [call EXCEPT !.gone = @ \/ t.state = "absent"]
  /\ settled' = IF t.state = "seeding" THEN settled \cup {t.place} ELSE settled
  /\ UNCHANGED <<qset, session, known, answer>>
TorrentLoads == torrent.state = "added" /\ Becomes([torrent EXCEPT !.state = "downloading"]) /\ UNCHANGED moved
TorrentFinishes ==
  /\ torrent.state = "downloading" /\ UNCHANGED moved
  /\ \E t \in {[torrent EXCEPT !.state = "moving"], [state |-> "seeding", place |-> "final"]} : Becomes(t)
MoveTarget == IF torrent.place = "temp" THEN "final" ELSE "elsewhere"
TorrentMoved ==
  torrent.state = "moving" /\ Becomes([state |-> "seeding", place |-> MoveTarget]) /\ UNCHANGED moved
SomebodyMoves ==
  /\ torrent = [state |-> "seeding", place |-> "final"] /\ moved' = TRUE
  /\ Becomes([torrent EXCEPT !.state = "moving"])
SomebodyRemoves == Loaded /\ Becomes([state |-> "absent", place |-> "temp"]) /\ UNCHANGED moved
SessionExpires ==
  /\ session /\ session' = FALSE
  /\ call' = [call EXCEPT !.expired = IF @ < 2 THEN @ + 1 ELSE @]
  /\ UNCHANGED <<qset, torrent, known, answer, settled, moved>>

----
\* The handler's calls
Begin(name, at, ask) ==
  /\ call.at = "idle" /\ call.name # "setup"
  /\ call' = [NoCall EXCEPT !.name = name, !.at = at, !.ask = ask, !.gone = ~Loaded]
  /\ answer' = Nothing /\ UNCHANGED <<qset, torrent, session, known>>
BeginFind ==
  known = "none" /\ Begin("find", "extract", "none") /\ settled' = Rests /\ moved' = FALSE
BeginAdd == known = "none" /\ Begin("add", "extract", "none") /\ UNCHANGED <<settled, moved>>
BeginStatus ==
  known # "none" /\ Begin("status", "login", "filter") /\ settled' = Rests /\ moved' = FALSE
BeginPath ==
  /\ known # "none" /\ answer.kind = "complete" /\ Begin("path", "login", "filter")
  /\ UNCHANGED <<settled, moved>>
BeginRemove == known # "none" /\ Begin("remove", "send", "none") /\ UNCHANGED <<settled, moved>>

Ends(kind, path) == call' = [call EXCEPT !.at = "idle"] /\ answer' = [kind |-> kind, path |-> path]
Asking(ask) == [call EXCEPT !.at = "login", !.ask = ask, !.retried = FALSE, !.expired = 0]
Asks(ask) == call' = Asking(ask) /\ UNCHANGED answer
AsksAgain(tries) == call' = [Asking("loaded") EXCEPT !.tries = tries] /\ UNCHANGED answer
QbtSame == UNCHANGED <<qset, torrent, known, settled, moved>>

\* extract_torrent_info: of a magnet link, a redirect to one, a body that is one, or a
\* torrent file, which may not arrive or not be understood; else what the indexer said.
Extract ==
  /\ call.at = "extract" /\ QbtSame /\ UNCHANGED session
  /\ \E hash \in BOOLEAN :
       IF call.name = "add"
       THEN call' = [call EXCEPT !.at = "send", !.hash = hash] /\ UNCHANGED answer
       ELSE IF hash THEN Asks("filter") ELSE Ends("nothing", "none")

\* torrents_add.  The answer may be lost, or be an explicit failure, as for a torrent that
\* is there already; without a hash the call fails although the client took the torrent.
\* The category is created before; what comes of that is ignored.
SendAdd ==
  /\ call.at = "send" /\ call.name = "add"
  /\ \E taken \in BOOLEAN, reply \in {"ok", "fails", "lost"} :
       /\ (reply = "ok" => taken) /\ (reply = "fails" => ~taken)
       /\ torrent' = IF taken /\ torrent.state = "absent" THEN [torrent EXCEPT !.state = "added"] ELSE torrent
       /\ IF reply = "lost" \/ ~call.hash \/ reply = "fails"
          THEN /\ call' = [call EXCEPT !.at = "idle", !.failed = reply # "ok"]
               /\ answer' = [kind |-> "raised", path |-> "none"]
          ELSE Asks("loaded")
  /\ UNCHANGED <<qset, session, known, settled, moved>>
\* remove: qBittorrent accepts a hash that it does not have, yet or at all.
HasHash == known = "client" \/ ~qset.padded
SendRemove ==
  /\ call.at = "send" /\ call.name = "remove" /\ UNCHANGED <<qset, session, known, settled, moved>>
  /\ \E taken \in BOOLEAN, lost \in BOOLEAN :
       /\ ~lost => taken
       /\ torrent' = IF HasHash /\ Loaded /\ taken THEN [state |-> "absent", place |-> "temp"] ELSE torrent
       /\ Ends(IF lost THEN "error" ELSE "removed", "none")

\* What comes of a request without a usable answer: connection, timeout, HTTP error,
\* authentication, content.  An added torrent is looked for again; a path is guessed from
\* the place and the torrent's name, which the addition has set.
Adds(tries) ==
  IF tries < LoadTries THEN AsksAgain(tries) /\ UNCHANGED known ELSE Ends("added", "none") /\ known' = "release"
ErrorOf(kind) ==
  CASE call.ask \in {"props", "files"} -> [kind |-> "complete", path |-> "guess"]
    [] call.name \in {"find", "path"} -> [kind |-> "nothing", path |-> "none"]
    [] OTHER -> [kind |-> kind, path |-> "none"]
EndsWithout(kind) ==
  call' = [call EXCEPT !.at = "idle", !.failed = TRUE] /\ answer' = ErrorOf(kind) /\ UNCHANGED known
Unanswered(kind) == IF call.ask = "loaded" THEN Adds(call.tries + 1) ELSE EndsWithout(kind)
Requesting == call.at \in {"login", "get"} /\ UNCHANGED <<qset, torrent, settled, moved>>
LogIn ==
  /\ Requesting /\ call.at = "login" /\ session' = TRUE /\ call' = [call EXCEPT !.at = "get"]
  /\ UNCHANGED <<answer, known>>
Lose == Requesting /\ Unanswered("error") /\ UNCHANGED session

\* do_request and parse_response, get_with_auth, _is_torrent_loaded: one more login.
Refused ==
  /\ Requesting /\ call.at = "get" /\ ~session /\ UNCHANGED session
  /\ IF call.retried THEN Unanswered("auth")
     ELSE call' = [call EXCEPT !.at = "login", !.retried = TRUE] /\ UNCHANGED <<answer, known>>

\* _hashes_match finds the torrent in a list under either hash.
Listed(ask) == Loaded /\ (ask = "filter" => HasHash) /\ (ask = "category" => ~qset.own)
Nonempty(ask) == Listed(ask) \/ (ask = "category" /\ qset.others) \/ ask = "all"
AfterEmpty(ask) == CASE ask = "filter" -> "category" [] ask = "category" -> "all" [] OTHER -> "none"
\* get_status: not while the files are moving.
\* Fault: when all is there.
CompleteWhenAll == torrent.state \in {"moving", "seeding"}
Complete == torrent.state = "seeding"
\* _resolve_completed_download_path
ResolvePath == IF qset.content THEN Ends("complete", torrent.place) ELSE Asks("props")
Seen ==
  CASE call.name = "find" -> /\ known' = "client" /\ UNCHANGED answer
                             /\ call' = [Asking("filter") EXCEPT !.name = "status", !.gone = FALSE]
    [] call.name = "path" -> ResolvePath /\ UNCHANGED known
    [] OTHER -> /\ IF Complete THEN ResolvePath ELSE Ends("running", "none")
                /\ UNCHANGED known
Lists ==
  /\ call.ask \in {"filter", "category", "all"}
  /\ IF Listed(call.ask) THEN Seen
     ELSE /\ UNCHANGED known
          /\ IF Nonempty(call.ask) \/ AfterEmpty(call.ask) = "none" THEN Ends(IF call.name = "status" THEN "notfound" ELSE "nothing", "none")
             ELSE Asks(AfterEmpty(call.ask))
\* _is_torrent_loaded
Looks ==
  /\ call.ask = "loaded"
  /\ IF Loaded /\ ~qset.padded THEN Ends("added", "none") /\ known' = "release" ELSE Adds(call.tries + 1)
\* _derive_download_path_from_files: by the client's own hash; the place from the
\* properties, its first part from the files.  Else the place and the torrent's name.
Derives ==
  /\ call.ask \in {"props", "files"} /\ UNCHANGED known
  /\ IF ~Loaded THEN Ends("complete", "guess")
     ELSE IF call.ask = "props"
     THEN /\ call' = Asking("files")
          /\ answer' = [kind |-> "none", path |-> IF torrent.state = "moving" THEN MoveTarget ELSE torrent.place]
     ELSE Ends("complete", answer.path)
Answered == Requesting /\ call.at = "get" /\ session /\ UNCHANGED session /\ (Lists \/ Looks \/ Derives)

QbtStep == Extract \/ SendAdd \/ SendRemove \/ LogIn \/ Lose \/ Refused \/ Answered
QbtNext ==
  \/ Configure \/ TorrentLoads \/ TorrentFinishes \/ TorrentMoved \/ SomebodyMoves \/ SomebodyRemoves
  \/ SessionExpires \/ BeginFind \/ BeginAdd \/ BeginStatus \/ BeginPath \/ BeginRemove \/ QbtStep
QbtSpec == QbtInit /\ [][QbtNext]_qbtVars

----
QbtTypeOK ==
  /\ call.tries \in 0..(LoadTries - 1) /\ call.expired \in 0..2
  /\ call.name \in {"status", "path", "remove"} => known # "none"
  /\ torrent.state \in {"absent", "added", "downloading", "moving", "seeding"}
  /\ answer.path \in {"none", "final", "elsewhere", "guess"}

\* get_status: a torrent reported as complete is reported at a place where it came to
\* rest, unless somebody is giving it another one; the path is a guess only of a client
\* that does not tell it, when a request failed or the torrent went.
CompleteIsInPlace ==
  (call.at = "idle" /\ answer.kind = "complete") =>
    \/ answer.path \in settled \/ moved
    \/ answer.path = "guess" /\ ~qset.content /\ (call.failed \/ call.gone)

\* _get_torrents_info: a torrent that was there all the time is not found only under a
\* padded hash, in another category than the configured one, which is not empty.
NotFoundOnlyIfFiltered ==
  (call.at = "idle" /\ answer.kind = "notfound") => call.gone \/ (~HasHash /\ qset.own /\ qset.others)

\* A status tells of a refused login only if the session expired twice since the request
\* began: one expiry never reaches the poll loop.
AuthErrorOnlyAfterTwo == (call.at = "idle" /\ answer.kind = "auth") => call.expired = 2

\* add_download: the client holds a torrent whose addition was reported as failed only if
\* the answer was lost or a refusal, or the torrent's hash could not be told.
StrayOnlyUnknown ==
  (call.at = "idle" /\ answer.kind = "raised") => torrent.state = "absent" \/ call.failed \/ ~call.hash

\* remove: after a removal that was reported as done the torrent is gone, or was not there
\* when it began, or has another hash.
RemovedIsGone ==
  (call.at = "idle" /\ answer.kind = "removed") => torrent.state = "absent" \/ call.gone \/ ~HasHash

\* What the adapter answers is so: where a torrent is, that there is none, that a login
\* is refused, that an addition failed, that a removal is done.
AnswersAreTrue ==
  /\ CompleteIsInPlace /\ NotFoundOnlyIfFiltered /\ AuthErrorOnlyAfterTwo
  /\ StrayOnlyUnknown /\ RemovedIsGone
====
