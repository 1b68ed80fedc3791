---- MODULE Notifications ----
\* Notifications: the tables of routes as they are entered and saved
\* (config/notifications_settings, core/admin_settings_routes), and the dispatchers that
\* send an event to the URLs of its routes (core/notifications): two workers of a pool
\* and the request that tests a table.  They share the level of one logger.
EXTENDS Lists

CONSTANTS
  Dispatcher,  \* the pool's workers, and the request that tests
  Testing,     \* the dispatchers that are requests
  Tables,      \* tables that may be entered: sequences of rows [event, url]
  Events,      \* the events that happen
  SaveLimit, NotifyLimit, TestLimit \* bounds

\* "ntfy+" is "ntfy" and a character that is not ASCII, "nope" has a scheme that Apprise
\* does not know, "bad" has none, "blank" is the empty one.
Url == {"ntfy", "ntfy+", "mail", "nope", "bad", "blank"}
KnownEvent == {"all", "request_created", "download_failed"}
EnteredRow == [event : SUBSET (KnownEvent \cup {"bogus"}), url : Url]

ASSUME NotificationAssumption ==
  /\ Testing \subseteq Dispatcher /\ {SaveLimit, NotifyLimit, TestLimit} \subseteq Nat
  /\ Tables \subseteq Seq(EnteredRow) /\ Events \subseteq KnownEvent \ {"all"}

VARIABLES
  entered,   \* the table entered for each scope, when it was accepted
  routes,    \* the table saved for each scope; a user's own or none
  pool,      \* the jobs the pool has not begun
  dispatcher,
  level,     \* the level of the shared logger
  saves, notices, tests,
  unsent,    \* history: an event had a route and no job
  overlapped \* history: two dispatchers were sending at once

noticeVars == <<entered, routes, pool, dispatcher, level, saves, notices, tests, unsent, overlapped>>

Valid(u) == u # "bad"
Ascii(u) == IF u = "ntfy+" THEN "ntfy" ELSE u
KnownScheme(u) == u # "nope"
DefaultTable == <<[event |-> {"all"}, url |-> "blank"]>>
NotOwn == <<[event |-> {}, url |-> "none"]>>
NotSending == [at |-> "idle", left |-> <<>>, due |-> {}, tried |-> <<>>, before |-> "unset", records |-> {}]

NoticeInit ==
  /\ entered = [admin |-> DefaultTable, user |-> DefaultTable, own |-> NotOwn] /\ routes = entered
  /\ pool = <<>> /\ dispatcher = [d \in Dispatcher |-> NotSending] /\ level = "unset"
  /\ saves = 0 /\ notices = 0 /\ tests = 0 /\ unsent = FALSE /\ overlapped = FALSE

UrlsOf(rows) == [i \in 1..Len(rows) |-> rows[i].url]

\* _normalize_route_events and _normalize_routes of the settings: unknown events are
\* dropped, and "all" stands for every other.
Normal(r) == [r EXCEPT !.event = IF "all" \in @ THEN {"all"} ELSE @ \cap KnownEvent]
Kept(t) ==
  LET rows == [i \in 1..Len(t) |-> Normal(t[i])]
  IN Distinct(Picked(rows, {i \in 1..Len(t) : rows[i].event # {}}))
InvalidEvents(t) == \E i \in 1..Len(t) : t[i].event = {} \/ ~(t[i].event \subseteq KnownEvent)
InvalidUrls(rows) == \E i \in 1..Len(rows) : ~Valid(rows[i].url)

\* _on_save_notifications for the two global tables, validate_user_settings for a
\* user's own, which may be empty and drops what it does not know.
SaveTable(scope, t, kept) ==
  /\ saves < SaveLimit /\ saves' = saves + 1
  /\ entered' = [entered EXCEPT ![scope] = t] /\ routes' = [routes EXCEPT ![scope] = kept]
  /\ UNCHANGED <<pool, dispatcher, level, notices, tests, unsent, overlapped>>
SaveGlobal(scope, t) ==
  /\ ~InvalidEvents(t) /\ ~InvalidUrls(Kept(t))
  /\ SaveTable(scope, t, IF Kept(t) = <<>> THEN DefaultTable ELSE Kept(t))
SaveOwn(t) == ~InvalidUrls(Kept(t)) /\ SaveTable("own", t, Kept(t))
ForgetOwn == routes["own"] # NotOwn /\ SaveTable("own", NotOwn, NotOwn)

\* _resolve_route_urls_for_event, on the routes as they are now.
Answers(r, e) == r.url # "blank" /\ r.event \cap {"all", e} # {}
AnsweringRows(rows, e) == {i \in 1..Len(rows) : Answers(rows[i], e)}
Matching(rows, e) == Distinct(UrlsOf(Picked(rows, AnsweringRows(rows, e))))
TableFor(who, tables) == IF who = "admin" THEN tables["admin"]
                       ELSE IF tables["own"] # NotOwn THEN tables["own"] ELSE tables["user"]
\* What the tables ask for, as they were entered.
Due(who, e) == LET t == TableFor(who, entered) IN {Ascii(t[i].url) : i \in AnsweringRows(t, e)}

\* notify_admin and notify_user
Notify(who, e) ==
  LET urls == Matching(TableFor(who, routes), e) IN
  /\ notices < NotifyLimit /\ notices' = notices + 1
  /\ IF urls = <<>> THEN UNCHANGED pool ELSE pool' = Append(pool, [urls |-> urls, due |-> Due(who, e)])
  /\ unsent' = (unsent \/ (urls = <<>> /\ Due(who, e) # {}))
  /\ UNCHANGED <<entered, routes, dispatcher, level, saves, tests, overlapped>>

\* _dispatch_to_apprise: _normalize_urls drops what is not ASCII, and then repetitions.
AsciiOf(urls) == [i \in 1..Len(urls) |-> Ascii(urls[i])]
\* Fault: the repetitions that appear when characters are dropped stay.
NormalizedFirst(urls) == AsciiOf(Distinct(urls))
Normalized(urls) == Distinct(AsciiOf(urls))
Beginning(urls, due) == [NotSending EXCEPT !.at = "next", !.left = Normalized(urls), !.due = due]
Dispatch(d) ==
  /\ d \notin Testing /\ dispatcher[d].at = "idle" /\ pool # <<>> /\ pool' = Tail(pool)
  /\ dispatcher' = [dispatcher EXCEPT ![d] = Beginning(Head(pool).urls, Head(pool).due)]
  /\ UNCHANGED <<entered, routes, level, saves, notices, tests, unsent, overlapped>>
\* build_notification_test_result
TestTable(d, t) ==
  LET all == Distinct(UrlsOf(Kept(t)))
      urls == Picked(all, {i \in 1..Len(all) : all[i] # "blank"})
  IN
  /\ d \in Testing /\ dispatcher[d].at = "idle" /\ tests < TestLimit /\ tests' = tests + 1
  /\ ~InvalidEvents(t) /\ ~InvalidUrls(Kept(t)) /\ urls # <<>>
  /\ dispatcher' = [dispatcher EXCEPT ![d] =
       Beginning(urls, {Ascii(t[i].url) : i \in 1..Len(t)} \ {"blank"})]
  /\ UNCHANGED <<entered, routes, pool, level, saves, notices, unsent, overlapped>>

\* _AppriseLogCapture: only the records of the thread that captures.
Keeps(d, e) == d = e
Logged(e, u) ==
  [d \in Dispatcher |-> IF dispatcher[d].at = "sending" /\ Keeps(d, e)
                        THEN [dispatcher[d] EXCEPT !.records = @ \cup {u}] ELSE dispatcher[d]]
GoneOn(r) == [r EXCEPT !.at = "next", !.left = Tail(@), !.tried = Append(@, Head(r.left)), !.records = {}]
\* A URL that Apprise refuses is logged and passed over; the others are sent, and the
\* dispatcher waits for the network with the level of the logger changed.
BeginUrl(d) ==
  LET r == dispatcher[d] IN
  /\ r.at = "next" /\ r.left # <<>>
  /\ IF KnownScheme(Head(r.left))
     THEN /\ dispatcher' = [dispatcher EXCEPT ![d].at = "sending", ![d].before = level]
          /\ level' = IF level = "unset" THEN "info" ELSE level
          /\ overlapped' = (overlapped \/ \E e \in Dispatcher : dispatcher[e].at = "sending")
     ELSE /\ dispatcher' = [Logged(d, Head(r.left)) EXCEPT ![d] = GoneOn(r)]
          /\ UNCHANGED <<level, overlapped>>
  /\ UNCHANGED <<entered, routes, pool, saves, notices, tests, unsent>>
\* It is delivered, or not, or raises one of _APPRISE_DISPATCH_ERRORS.
Answered(d, delivered) ==
  LET r == dispatcher[d] IN
  /\ r.at = "sending" /\ level' = r.before
  /\ dispatcher' = [(IF delivered THEN dispatcher ELSE Logged(d, Head(r.left))) EXCEPT ![d] = GoneOn(r)]
  /\ UNCHANGED <<entered, routes, pool, saves, notices, tests, unsent, overlapped>>
\* Any other error ends the job.
Die(d) ==
  /\ dispatcher[d].at = "sending" /\ level' = dispatcher[d].before
  /\ dispatcher' = [dispatcher EXCEPT ![d] = NotSending]
  /\ UNCHANGED <<entered, routes, pool, saves, notices, tests, unsent, overlapped>>
JobEnds(d) ==
  /\ dispatcher[d].at = "next" /\ dispatcher[d].left = <<>>
  /\ dispatcher' = [dispatcher EXCEPT ![d] = NotSending]
  /\ UNCHANGED <<entered, routes, pool, level, saves, notices, tests, unsent, overlapped>>

NoticeNext ==
  \/ \E scope \in {"admin", "user"}, t \in Tables : SaveGlobal(scope, t)
  \/ \E t \in Tables : SaveOwn(t)
  \/ ForgetOwn
  \/ \E who \in {"admin", "user"}, e \in Events : Notify(who, e)
  \/ \E d \in Dispatcher : Dispatch(d) \/ BeginUrl(d) \/ Die(d) \/ JobEnds(d)
  \/ \E d \in Dispatcher, t \in Tables : TestTable(d, t)
  \/ \E d \in Dispatcher, delivered \in BOOLEAN : Answered(d, delivered)
NoticeSpec == NoticeInit /\ [][NoticeNext]_noticeVars

----
NoticeTypeOK ==
  /\ \A s \in {"admin", "user", "own"} : \A i \in 1..Len(routes[s]) :
       /\ routes[s] # NotOwn => routes[s][i].event \subseteq KnownEvent /\ routes[s][i].event # {}
       /\ Cardinality(routes[s][i].event) > 1 => "all" \notin routes[s][i].event
       /\ routes[s] # NotOwn => routes[s][i].url \in Url
  /\ level \in {"unset", "info"} /\ Len(pool) \leq NotifyLimit

\* _dispatch_to_apprise: a job that comes to its end has tried every URL that the table,
\* as it was entered, has for its event, and each once; an event that has one gets a job.
EveryRouteOnce ==
  /\ ~unsent
  /\ \A d \in Dispatcher : (dispatcher[d].at = "next" /\ dispatcher[d].left = <<>>) =>
       /\ Listed(dispatcher[d].tried) = dispatcher[d].due
       /\ Len(dispatcher[d].tried) = Cardinality(dispatcher[d].due)

\* _capture_apprise_logs: the details of a failure are of the URL that failed, whoever
\* else is sending.
OwnRecordsOnly ==
  \A d \in Dispatcher : dispatcher[d].at = "sending" => dispatcher[d].records \subseteq {Head(dispatcher[d].left)}

\* The logger has its level back when nobody is sending, however the sending ended,
\* unless two dispatchers were sending at once: then each restores what it found.
LevelRestored ==
  (~overlapped /\ \A d \in Dispatcher : dispatcher[d].at # "sending") => level = "unset"

\* A dispatch does its own work, and only that, beside others.
DispatchIsOwn == EveryRouteOnce /\ OwnRecordsOnly /\ LevelRestored
====
