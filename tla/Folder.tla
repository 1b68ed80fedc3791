------------------------------- MODULE Folder -------------------------------
(***************************************************************************)
(* What workers that publish files in one folder promise: to a reader, who *)
(* sees a file whole under one name or not at all, and to their callers,   *)
(* whom a call tells that it did its work or that it can be made again,    *)
(* but for a file that could not be removed and a source that mv took.     *)
(* What two workers do to each other's names is confined to a disturbed    *)
(* folder: one where a move has begun or the ingest program took a file.   *)
(***************************************************************************)
CONSTANTS FileWorker, Nobody, Name, Calls

VARIABLES
  seen,     \* whose whole file a reader sees under each name
  called,   \* the call each worker makes, or "none"
  outcome,  \* what the call has come to
  kept,     \* workers whose source file is still there
  taken,    \* workers whose file the ingest program took
  stuck     \* workers that could not take their file back

folderVars == <<seen, called, outcome, kept, taken, stuck>>

FolderInit ==
  /\ seen = [n \in Name |-> Nobody]
  /\ called = [w \in FileWorker |-> "none"] /\ outcome = [w \in FileWorker |-> "trying"]
  /\ kept = FileWorker /\ taken = {} /\ stuck = {}

IsSeen(w) == \E n \in Name : seen[n] = w
Disturbed == taken # {} \/ \E w \in FileWorker : called[w] = "move"
Trying(w) == called[w] # "none" /\ outcome[w] = "trying"

\* Only a move takes the source along, when it succeeds or with mv before that.
Ends(w, how) ==
  /\ outcome' = [outcome EXCEPT ![w] = how]
  /\ kept' = IF how = "done" /\ called[w] = "move" THEN kept \ {w} ELSE kept
Carry(w) == called[w] = "move" /\ kept' = kept \ {w}

Begin(w) ==
  /\ called[w] = "none" /\ called'[w] \in Calls
  /\ called' = [called EXCEPT ![w] = called'[w]]
  /\ UNCHANGED <<seen, outcome, kept, taken, stuck>>

\* The name was free; the call may have more to do.
Appear(w, n) ==
  /\ ~IsSeen(w)
  /\ seen[n] = Nobody \/ Disturbed
  /\ seen' = [seen EXCEPT ![n] = w]
  /\ \/ Ends(w, "done")
     \/ UNCHANGED outcome /\ (UNCHANGED kept \/ Carry(w))
  /\ UNCHANGED <<called, taken, stuck>>

\* A call is done when its file is there, but for a write, which may come up short.
Succeed(w) ==
  /\ IsSeen(w) \/ called[w] = "write" \/ Disturbed
  /\ Ends(w, "done") /\ UNCHANGED <<seen, called, taken, stuck>>

Clear(w, n) == (seen[n] = w \/ Disturbed) /\ seen' = [seen EXCEPT ![n] = Nobody]
Sticks(w) == stuck' \in {stuck, stuck \cup {w}}

\* A call that fails takes its file back, or cannot; a move may find its source in its way.
Fail(w) ==
  /\ Ends(w, "failed")
  /\ UNCHANGED seen \/ \E n \in Name : Clear(w, n)
  /\ Sticks(w) /\ (IsSeen(w)' => called[w] = "move" \/ w \in stuck')
  /\ UNCHANGED <<called, taken>>

\* A move tries another way: a file under the name, its own or another's, is gone, or
\* cannot be removed; or its source has gone to a name that is another's by now.
Retreat(w, n) ==
  /\ called[w] = "move" /\ UNCHANGED <<called, outcome, taken>>
  /\ \/ Clear(w, n) /\ UNCHANGED <<kept, stuck>>
     \/ UNCHANGED <<seen, kept>> /\ Sticks(w)
     \/ UNCHANGED <<seen, stuck>> /\ Carry(w)

\* The ingest program.
Take(n) ==
  /\ seen[n] # Nobody
  /\ taken' = taken \cup {seen[n]} /\ seen' = [seen EXCEPT ![n] = Nobody]
  /\ UNCHANGED <<called, outcome, kept, stuck>>

FolderNext ==
  \/ \E w \in FileWorker : Begin(w)
  \/ \E w \in FileWorker :
       /\ Trying(w)
       /\ \/ Succeed(w) \/ Fail(w)
          \/ \E n \in Name : Appear(w, n) \/ Retreat(w, n)
  \/ \E n \in Name : Take(n)

FolderSpec == FolderInit /\ [][FolderNext]_folderVars
=============================================================================
