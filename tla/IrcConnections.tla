--------------------------- MODULE IrcConnections ---------------------------
(***************************************************************************)
(* The IRC source: searches and downloads that share one connection        *)
(* (release_sources/irc): connection_manager, the client's wait for a DCC  *)
(* offer, the transfer, and the results cache.  There is one server, port  *)
(* and nick, hence one key in the manager.                                 *)
(***************************************************************************)
EXTENDS Naturals, FiniteSets

CONSTANTS
  IrcRun,    \* searches and downloads, one request each
  IrcConn,   \* client objects; bounds the connections made
  NoConn,
  NoOffer

ASSUME IrcAssumption == IsFiniteSet(IrcRun) /\ NoConn \notin IrcConn /\ NoOffer \notin IrcRun

VARIABLES
  registered,  \* the client in _connections
  connecting,  \* the key is in _connecting
  aged,        \* nobody has marked the connection used for IDLE_TIMEOUT
  link,        \* the state of each client's connection
  inbox,       \* what each connection has received and nobody has read
  asked,       \* requests the bots have not answered
  ipc,         \* where each run is
  ikind,       \* a search or a download
  held,        \* the client a run works with
  got,         \* the request whose offer the run took
  results,     \* cached search results: whose offer they come from
  stopped,     \* cancelled runs
  oddError     \* an exception outside _IRC_CONNECTION_ERRORS was raised

ircVars == <<registered, connecting, aged, link, inbox, asked, ipc, ikind, held, got,
             results, stopped, oddError>>
manager == <<registered, connecting, aged>>
runState == <<ikind, held, got, results>>

Message == [about : IrcRun, what : {"offer", "sorry"}]
IrcEnd == {"done", "failed"}
\* is_connected: a connection the server has closed still counts.
Connected(c) == link[c] \in {"open", "broken"}

IrcInit ==
  /\ registered = NoConn /\ connecting = FALSE /\ aged = FALSE
  /\ link = [c \in IrcConn |-> "unused"] /\ inbox = [c \in IrcConn |-> {}]
  /\ asked = {} /\ stopped = {} /\ oddError = FALSE
  /\ ipc = [u \in IrcRun |-> "idle"] /\ ikind = [u \in IrcRun |-> "download"]
  /\ held = [u \in IrcRun |-> NoConn] /\ got = [u \in IrcRun |-> NoOffer]
  /\ results = [u \in IrcRun |-> "none"]

IrcAt(u, pc) == ipc[u] = pc
IrcTo(u, pc) == ipc' = [ipc EXCEPT ![u] = pc]

\* A client that is neither registered nor in use is collected and its socket
\* closed with it.
Collected(u) == LET c == held[u] IN
  IF c # NoConn /\ c # registered /\ \A v \in IrcRun \ {u} : held[v] # c
  THEN [link EXCEPT ![c] = "closed"] ELSE link
IrcEndRun(u, pc) ==
  /\ IrcTo(u, pc)
  /\ held' = [held EXCEPT ![u] = NoConn]
  /\ link' = Collected(u)

BeginIrc(u, k) ==
  /\ IrcAt(u, "idle")
  /\ ikind' = [ikind EXCEPT ![u] = k]
  /\ IrcTo(u, IF k = "search" /\ results[u] # "none" THEN "done" ELSE "get")
  /\ UNCHANGED <<manager, link, inbox, asked, held, got, results, stopped, oddError>>

CancelIrc(u) ==
  /\ ~IrcAt(u, "idle") /\ ipc[u] \notin IrcEnd /\ ikind[u] = "download"
  /\ stopped' = stopped \cup {u}
  /\ UNCHANGED <<manager, link, inbox, asked, ipc, runState, oddError>>

-----------------------------------------------------------------------------
(* get_connection *)

GetConnection(u) ==
  /\ IrcAt(u, "get") /\ ~(registered # NoConn /\ Connected(registered)) /\ ~connecting
  /\ connecting' = TRUE /\ registered' = NoConn
  /\ IrcTo(u, "connect")
  /\ UNCHANGED <<aged, link, inbox, asked, runState, stopped, oddError>>

Reuse(u) ==
  /\ IrcAt(u, "get") /\ registered # NoConn /\ Connected(registered)
  /\ held' = [held EXCEPT ![u] = registered]
  /\ aged' = FALSE
  /\ IrcTo(u, "ready")
  /\ UNCHANGED <<registered, connecting, link, inbox, asked, ikind, got, results, stopped, oddError>>

\* Waiting for the thread that connects is a recursion: its limit ends it.
WaitTooLong(u) ==
  /\ IrcAt(u, "get") /\ connecting
  /\ ~(registered # NoConn /\ Connected(registered))
  /\ IrcTo(u, "failed")
  /\ UNCHANGED <<manager, link, inbox, asked, runState, stopped, oddError>>

\* The server takes the nick once.
Connect(u) ==
  /\ IrcAt(u, "connect") /\ \A d \in IrcConn : link[d] # "open"
  /\ \E c \in IrcConn :
       /\ link[c] = "unused"
       /\ link' = [link EXCEPT ![c] = "open"]
       /\ held' = [held EXCEPT ![u] = c]
  /\ IrcTo(u, "store")
  /\ UNCHANGED <<manager, inbox, asked, ikind, got, results, stopped, oddError>>

Store(u) ==
  /\ IrcAt(u, "store")
  /\ registered' = held[u] /\ connecting' = FALSE /\ aged' = FALSE
  /\ IrcTo(u, "ready")
  /\ UNCHANGED <<link, inbox, asked, runState, stopped, oddError>>

\* Mutant: the mark is dropped by the successful path only.
ConnectFailsMarked(u) ==
  /\ IrcAt(u, "connect") \/ IrcAt(u, "store")
  /\ UNCHANGED <<connecting, oddError>>
  /\ IrcEndRun(u, "failed")
  /\ UNCHANGED <<registered, aged, inbox, asked, ikind, got, results, stopped>>

\* Refused, no welcome, nick in use, no channel; or an error of another class (a
\* port out of range), after which the mark stays.
ConnectFails(u) ==
  /\ IrcAt(u, "connect") \/ IrcAt(u, "store")
  /\ \/ connecting' = FALSE /\ UNCHANGED oddError
     \/ oddError' = TRUE /\ UNCHANGED connecting
  /\ IrcEndRun(u, "failed")
  /\ UNCHANGED <<registered, aged, inbox, asked, ikind, got, results, stopped>>

-----------------------------------------------------------------------------
(* The request and its answer *)

\* release_connection and close_connection go by the key, whichever client it has.
Release == aged' = (aged /\ registered = NoConn)
Close(u) ==
  /\ registered' = NoConn
  /\ IrcTo(u, "disconnect")

Request(u) ==
  /\ IrcAt(u, "ready") /\ u \notin stopped
  /\ \/ /\ link[held[u]] = "open" /\ asked' = asked \cup {u}
        /\ IrcTo(u, "wait") /\ UNCHANGED registered
     \/ /\ link[held[u]] = "broken"                         \* the first write succeeds
        /\ IrcTo(u, "wait") /\ UNCHANGED <<registered, asked>>
     \/ link[held[u]] # "open" /\ Close(u) /\ UNCHANGED asked
  /\ UNCHANGED <<connecting, aged, link, inbox, runState, stopped, oddError>>

RequestCancelled(u) ==
  /\ IrcAt(u, "ready") /\ u \in stopped
  /\ Close(u)
  /\ UNCHANGED <<connecting, aged, link, inbox, asked, runState, stopped, oddError>>

\* Takes: the first offer of the right kind is the run's.
Takes(u, m) == m.what = "offer" /\ ikind[m.about] = ikind[u]

\* A run that gets no answer releases the connection; a search caches "nothing".
NoAnswer(u) ==
  /\ Release
  /\ IrcEndRun(u, "failed")
  /\ results' = IF ikind[u] = "search" THEN [results EXCEPT ![u] = "empty"] ELSE results

Read(u, m) ==
  /\ IrcAt(u, "wait") /\ m \in inbox[held[u]]
  /\ inbox' = [inbox EXCEPT ![held[u]] = @ \ {m}]
  /\ \/ /\ Takes(u, m)
        /\ got' = [got EXCEPT ![u] = m.about]
        /\ IrcTo(u, "transfer")
        /\ UNCHANGED <<aged, link, held, results>>
     \/ /\ m.what = "offer" /\ ~Takes(u, m)                  \* dropped
        /\ UNCHANGED <<aged, link, held, results, got, ipc>>
     \/ /\ NoAnswer(u)                                       \* sorry, late, or not parsed
        /\ UNCHANGED got
  /\ UNCHANGED <<registered, connecting, asked, ikind, stopped, oddError>>

\* The time limit is looked at when a message comes; a connection that is gone
\* ends the wait.
WaitBreaks(u) ==
  /\ IrcAt(u, "wait") /\ link[held[u]] # "open"
  /\ NoAnswer(u)
  /\ UNCHANGED <<registered, connecting, inbox, asked, ikind, got, stopped, oddError>>

Transfer(u) ==
  /\ IrcAt(u, "transfer")
  /\ \/ /\ u \notin stopped \/ ikind[u] = "search"
        /\ Release
        /\ IrcEndRun(u, "done")
        /\ results' = IF ikind[u] = "search" THEN [results EXCEPT ![u] = "found"] ELSE results
        /\ UNCHANGED registered
     \/ /\ u \in stopped                                     \* before or during the transfer
        /\ \/ Close(u) /\ UNCHANGED <<aged, link, held>>
           \/ Release /\ IrcEndRun(u, "failed") /\ UNCHANGED registered
        /\ UNCHANGED results
     \/ Close(u) /\ UNCHANGED <<aged, link, held, results>>  \* DCCError
  /\ UNCHANGED <<connecting, inbox, asked, ikind, got, stopped, oddError>>

\* The client is disconnected after the lock is released.
Disconnect(u) ==
  /\ IrcAt(u, "disconnect")
  /\ IrcTo(u, "failed")
  /\ link' = [link EXCEPT ![held[u]] = "closed"]
  /\ held' = [held EXCEPT ![u] = NoConn]
  /\ UNCHANGED <<manager, inbox, asked, ikind, got, results, stopped, oddError>>

-----------------------------------------------------------------------------
(* The clean-up thread, the bots and the server *)

TimePasses ==
  /\ registered # NoConn /\ aged' = TRUE
  /\ UNCHANGED <<registered, connecting, link, inbox, asked, ipc, runState, stopped, oddError>>

\* Mutants: the clean-up does not look at the time of the last use; a connection
\* that a run holds is not idle.
CleanupAny ==
  /\ registered # NoConn
  /\ link' = [link EXCEPT ![registered] = "closed"]
  /\ registered' = NoConn
  /\ UNCHANGED <<connecting, aged, inbox, asked, ipc, runState, stopped, oddError>>

CleanupUnused ==
  /\ registered # NoConn /\ aged /\ \A u \in IrcRun : held[u] # registered
  /\ link' = [link EXCEPT ![registered] = "closed"]
  /\ registered' = NoConn
  /\ UNCHANGED <<connecting, aged, inbox, asked, ipc, runState, stopped, oddError>>

CleanupIdle ==
  /\ registered # NoConn /\ aged
  /\ link' = [link EXCEPT ![registered] = "closed"]
  /\ registered' = NoConn
  /\ UNCHANGED <<connecting, aged, inbox, asked, ipc, runState, stopped, oddError>>

Answer(u, c, what) ==
  /\ u \in asked /\ link[c] = "open"
  /\ asked' = asked \ {u}
  /\ inbox' = [inbox EXCEPT ![c] = @ \cup {[about |-> u, what |-> what]}]
  /\ UNCHANGED <<manager, link, ipc, runState, stopped, oddError>>

ServerCloses(c) ==
  /\ link[c] = "open"
  /\ link' = [link EXCEPT ![c] = "broken"]
  /\ UNCHANGED <<manager, inbox, asked, ipc, runState, stopped, oddError>>

IrcStep(u) ==
  \/ Reuse(u) \/ GetConnection(u) \/ WaitTooLong(u) \/ Connect(u) \/ Store(u)
  \/ ConnectFails(u) \/ Request(u) \/ RequestCancelled(u) \/ WaitBreaks(u)
  \/ Transfer(u) \/ Disconnect(u) \/ \E m \in Message : Read(u, m)

IrcNext ==
  \/ \E u \in IrcRun :
       \/ \E k \in {"search", "download"} : BeginIrc(u, k)
       \/ CancelIrc(u) \/ IrcStep(u)
       \/ \E c \in IrcConn, what \in {"offer", "sorry"} : Answer(u, c, what)
  \/ \E c \in IrcConn : ServerCloses(c)
  \/ TimePasses \/ CleanupIdle

\* The code of a run and the clean-up thread run; time passes; nobody owes an answer.
IrcFairness ==
  /\ \A u \in IrcRun : WF_ircVars(IrcStep(u))
  /\ WF_ircVars(TimePasses) /\ WF_ircVars(CleanupIdle)

IrcSpec == IrcInit /\ [][IrcNext]_ircVars /\ IrcFairness

-----------------------------------------------------------------------------
(* Properties *)

\* Types; a run holds a client from the moment it has connected or found one until
\* it ends.
IrcTypeOK ==
  /\ registered \in IrcConn \cup {NoConn}
  /\ {connecting, aged, oddError} \subseteq BOOLEAN
  /\ link \in [IrcConn -> {"unused", "open", "broken", "closed"}]
  /\ inbox \in [IrcConn -> SUBSET Message]
  /\ asked \subseteq IrcRun /\ stopped \subseteq IrcRun
  /\ ipc \in [IrcRun -> {"idle", "get", "connect", "store", "ready", "wait", "transfer",
                         "disconnect"} \cup IrcEnd]
  /\ ikind \in [IrcRun -> {"search", "download"}]
  /\ held \in [IrcRun -> IrcConn \cup {NoConn}]
  /\ \A u \in IrcRun :
       held[u] # NoConn <=> ipc[u] \in {"store", "ready", "wait", "transfer", "disconnect"}
  /\ got \in [IrcRun -> IrcRun \cup {NoOffer}]
  /\ results \in [IrcRun -> {"none", "empty", "found"}]

\* One run connects at a time, and the mark it sets is dropped with its attempt,
\* whatever becomes of it, unless the error was of no expected class.
OneConnector ==
  LET busy == {u \in IrcRun : IrcAt(u, "connect") \/ IrcAt(u, "store")} IN
  /\ Cardinality(busy) <= 1
  /\ busy # {} => connecting
  /\ connecting => busy # {} \/ oddError

\* The registered client has not been disconnected: a client leaves the registry
\* before its socket is closed, on every path and in every order.
RegisteredNotClosed == registered # NoConn => Connected(registered)

\* A run that waits or transfers loses its connection to nobody but the clean-up
\* of idle connections, the server, and a run with which it shares the client.
DisconnectedByPeers ==
  [][\A u \in IrcRun :
       /\ IrcAt(u, "wait") /\ ipc'[u] = "wait"
       /\ link[held[u]] = "open" /\ link'[held[u]] = "closed"
       => \/ aged /\ registered = held[u]
          \/ \E v \in IrcRun \ {u} : held[v] = held[u] /\ IrcAt(v, "disconnect")]_ircVars

\* Every search and download ends, even if no bot answers and no message comes by
\* which the time limit would be noticed: the clean-up of idle connections ends it.
\* It cannot for a run whose client another run's close_connection, which pops by
\* key, took out of the registry: that run waits for the server.
IrcRunEnds ==
  \A u \in IrcRun : IrcAt(u, "get") ~>
    \/ ipc[u] \in IrcEnd
    \/ IrcAt(u, "wait") /\ registered # held[u]

\* The registry and its connecting mark stand for clients that are there.
RegistrySound == OneConnector /\ RegisteredNotClosed
=============================================================================
