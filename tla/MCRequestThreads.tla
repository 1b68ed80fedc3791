------------------------- MODULE MCRequestThreads -------------------------
\* The requests under gevent, and the requests with preemptive threads. A behaviour runs
\* one of the two, named by part, and leaves the other at its initial state.
EXTENDS RequestLifecycle, TLC

CONSTANT ThreadCaller

VARIABLES part, threadRow, threadTask, threadHooks, threadCall

Threads == INSTANCE RequestLifecycle
  WITH row <- threadRow, task <- threadTask, hooks <- threadHooks, call <- threadCall,
       NativeThreads <- TRUE, LateReports <- FALSE, Caller <- ThreadCaller, Viewer <- {},
       restarts <- 0, MaxRestarts <- 0

threadSide == <<threadRow, threadTask, threadHooks, threadCall>>

ComposedInit == part \in {"requests", "threads"} /\ Init /\ Threads!Init

RequestPart == part = "requests" /\ Next /\ UNCHANGED <<part, threadSide>>
ThreadPart  == part = "threads" /\ Threads!Next /\ UNCHANGED <<part, vars>>

ComposedNext == RequestPart \/ ThreadPart

ComposedSpec == ComposedInit /\ [][ComposedNext]_<<part, vars, threadSide>>

\* Two users or administrators race on one request, each switched away from between its
\* look at the row and its write: no decision is turned into another (RequestLifecycle).
ThreadsDecideOnce == Threads!DecidedOnce

Symmetry ==
  Permutations(Caller) \cup Permutations(Viewer) \cup Permutations(ThreadCaller)
=============================================================================
