--------------------------- MODULE ComposedProofs ---------------------------
(***************************************************************************)
(* Proofs about MCRequestThreads, for any values of its constants: what    *)
(* RequestProofs proves of the requests holds of both ways to run them.    *)
(***************************************************************************)
EXTENDS MCRequestThreads, RequestProofs

\* The requests with preemptive threads again, with what RequestProofs proves of them:
\* the same steps from the same states.
Proved == INSTANCE RequestProofs
  WITH row <- threadRow, task <- threadTask, hooks <- threadHooks, call <- threadCall,
       NativeThreads <- TRUE, LateReports <- FALSE, Caller <- ThreadCaller, Viewer <- {},
       restarts <- 0, MaxRestarts <- 0

\* The two instances start alike: what one of them defines, the other one defines.
LEMMA SameInit == Threads!Init <=> Proved!Init
<1> QED BY DEF Threads!Init, Proved!Init, Threads!NoDownload, Proved!NoDownload,
      Threads!Call, Proved!Call, Threads!IdleCall, Proved!IdleCall,
      Threads!Nothing, Proved!Nothing, Threads!Unlisted, Proved!Unlisted

\* And go on alike.
LEMMA SameNext == Threads!Next <=> Proved!Next
<1> QED BY ZenonT(60)
  DEF Threads!Call, Proved!Call, Threads!Later, Proved!Later, Threads!Unfinished,
      Proved!Unfinished, Threads!Unlisted, Proved!Unlisted, Threads!Nothing, Proved!Nothing,
      Threads!IdleCall, Proved!IdleCall, Threads!NoDownload, Proved!NoDownload,
      Threads!MayBlock, Proved!MayBlock, Threads!Runs, Proved!Runs, Threads!NobodyBusy,
      Proved!NobodyBusy, Threads!Becomes, Proved!Becomes, Threads!Goes, Proved!Goes,
      Threads!Returns, Proved!Returns, Threads!Starts, Proved!Starts, Threads!SetRow,
      Proved!SetRow, Threads!Pending, Proved!Pending, Threads!Create, Proved!Create,
      Threads!Insert, Proved!Insert, Threads!Decide, Proved!Decide, Threads!Write, Proved!Write,
      Threads!CancelWrites, Proved!CancelWrites, Threads!RejectWrites, Proved!RejectWrites,
      Threads!ApproveWrites, Proved!ApproveWrites, Threads!ClaimWrites, Proved!ClaimWrites,
      Threads!Stale, Proved!Stale, Threads!Recorded, Proved!Recorded, Threads!Addable,
      Proved!Addable, Threads!AddTask, Proved!AddTask, Threads!QueueClaimed,
      Proved!QueueClaimed, Threads!RollBack, Proved!RollBack, Threads!Reopenable,
      Proved!Reopenable, Threads!Reopen, Proved!Reopen, Threads!Finalized, Proved!Finalized,
      Threads!RunHook, Proved!RunHook, Threads!CanRetry, Proved!CanRetry, Threads!Listed,
      Proved!Listed, Threads!SyncReads, Proved!SyncReads, Threads!Asked, Proved!Asked,
      Threads!WithHistory, Proved!WithHistory, Threads!Fulfilled, Proved!Fulfilled,
      Threads!Owner, Proved!Owner, Threads!Reports, Proved!Reports, Threads!LastReports,
      Proved!LastReports, Threads!View, Proved!View, Threads!Known, Proved!Known,
      Threads!PlanFor, Proved!PlanFor, Threads!Plans, Proved!Plans, Threads!SyncPlans,
      Proved!SyncPlans, Threads!Planned, Proved!Planned, Threads!SyncWrites, Proved!SyncWrites,
      Threads!SyncEnds, Proved!SyncEnds, Threads!DirectRelease, Proved!DirectRelease,
      Threads!TaskReports, Proved!TaskReports, Threads!StagedVanishes, Proved!StagedVanishes,
      Threads!Forgotten, Proved!Forgotten, Threads!TaskExpires, Proved!TaskExpires,
      Threads!RowDeleted, Proved!RowDeleted, Threads!Retry, Proved!Retry, Threads!RetryQueues,
      Proved!RetryQueues, Threads!Restart, Proved!Restart, Threads!CallStarts,
      Proved!CallStarts, Threads!CallGoesOn, Proved!CallGoesOn, Threads!QueueMoves,
      Proved!QueueMoves, Threads!Next, Proved!Next, Threads!Cardinality, Proved!Cardinality

\* Their constants are those that they are proved for.
LEMMA ThreadConstants == Proved!RequestAssumption
<1> QED BY RequestAssumption DEF Proved!RequestAssumption

(***************************************************************************)
(* The invariants of the components, together.  A step is one of a single  *)
(* component, and each invariant speaks of the variables of its own.       *)
(***************************************************************************)
ComposedInv == IInv /\ Proved!IInv

allVars == <<part, vars, threadSide>>

\* What a step is to each of the components: a step of its own, or none.
LEMMA StepOfEach ==
  ASSUME [ComposedNext]_allVars
  PROVE  [Next]_vars /\ [Proved!Next]_(Proved!vars)
<1> USE DEF allVars, vars, Proved!vars, threadSide
<1>1. CASE RequestPart BY <1>1 DEF RequestPart
<1>2. CASE ThreadPart BY <1>2, SameNext DEF ThreadPart
<1>3. CASE UNCHANGED allVars BY <1>3
<1> QED BY <1>1, <1>2, <1>3 DEF ComposedNext

\* The invariants hold at first.
LEMMA ComposedStarts == ComposedInit => ComposedInv
<1>1. Threads!Init => Proved!IInv BY SameInit, Proved!InitIInv, ThreadConstants
<1> QED BY <1>1, InitIInv DEF ComposedInit, ComposedInv

\* Every step keeps them.
LEMMA ComposedKeeps == ComposedInv /\ [ComposedNext]_allVars => ComposedInv'
<1> SUFFICES ASSUME ComposedInv, [ComposedNext]_allVars PROVE ComposedInv'
  OBVIOUS
<1>1. IInv' BY StepOfEach, NextIInv DEF ComposedInv
<1>2. Proved!IInv' BY StepOfEach, Proved!NextIInv, ThreadConstants DEF ComposedInv
<1> QED BY <1>1, <1>2 DEF ComposedInv

(***************************************************************************)
(* Each component keeps its inductive invariant beside the others.         *)
(***************************************************************************)
THEOREM ComposedInvariant == ComposedSpec => []ComposedInv
<1> QED BY ComposedStarts, ComposedKeeps, PTL DEF ComposedSpec, allVars

(***************************************************************************)
(* However many preemptive threads race on however many requests, no       *)
(* decision is turned into another (update_request with                    *)
(* expected_current_status).                                               *)
(***************************************************************************)
THEOREM ComposedThreadsDecideOnce == ComposedSpec => ThreadsDecideOnce
<1>1. ComposedInv /\ [ComposedNext]_allVars =>
        [\A r \in Request : threadRow'[r].status # threadRow[r].status =>
           "pending" \in {threadRow[r].status, threadRow'[r].status}]_(Threads!vars)
  BY StepOfEach, Proved!StepDecides, ThreadConstants DEF ComposedInv, Proved!IInv,
     Proved!vars, Threads!vars
<1> QED BY <1>1, ComposedInvariant, PTL
  DEF ComposedSpec, allVars, ThreadsDecideOnce, Threads!DecidedOnce
=============================================================================
