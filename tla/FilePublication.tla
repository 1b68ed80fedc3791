--------------------------- MODULE FilePublication ---------------------------
(***************************************************************************)
(* Workers that give a file its final name in one folder (download/fs.py): *)
(* atomic_copy, atomic_hardlink, atomic_move and atomic_write on the names *)
(* "b", "b_1", "b_2", ...  Every file system call is a step of its own.    *)
(* The folder may be an ingest folder, whose program takes whole files.    *)
(***************************************************************************)
EXTENDS Naturals

CONSTANTS
  FileWorker,
  Nobody,
  NameCount,   \* max_attempts
  FileOps,     \* the calls in use, a subset of AllFileOps
  Watched      \* the folder is an ingest folder

AllFileOps == {"copy", "hardlink", "move", "write"}

ASSUME FileAssumption ==
  /\ Nobody \notin FileWorker /\ NameCount \in Nat \ {0}
  /\ FileOps \subseteq AllFileOps /\ Watched \in BOOLEAN

VARIABLES
  holder,    \* whose file has the name
  whole,     \* the names whose file is complete
  fpc,       \* where each worker is
  fop,       \* its call
  attempt,   \* the counter of the name it tries
  original,  \* workers whose source file is still there
  ingested,  \* workers whose file the ingest program took
  clung      \* history: workers that could not take away what they had put under a name

fileVars == <<holder, whole, fpc, fop, attempt, original, ingested, clung>>

NameNo == 0 .. (NameCount - 1)
FilePC == {"idle", "link", "look", "temp", "claim", "publish", "verify", "retract",
           "unlink", "mlook", "probe", "rename", "replace",
           "fallback", "copyfile", "carry", "undo", "mv", "mving", "moved", "giveup",
           "create", "write", "done", "failed", "strayed"}

FileInit ==
  /\ holder = [n \in NameNo |-> Nobody] /\ whole = {}
  /\ fpc = [w \in FileWorker |-> "idle"] /\ fop = [w \in FileWorker |-> "copy"]
  /\ attempt = [w \in FileWorker |-> 0]
  /\ original = FileWorker /\ ingested = {} /\ clung = {}

FileAt(w, pc) == fpc[w] = pc
FileTo(w, pc) == fpc' = [fpc EXCEPT ![w] = pc] /\ UNCHANGED attempt
Try(w) == attempt[w]
Taken(n) == holder[n] # Nobody

FirstStep(op) == CASE op = "copy" -> "look" [] op = "hardlink" -> "link"
                   [] op = "move" -> "mlook" [] op = "write" -> "create"

\* The next counter; RuntimeError after the last one.
NextName(w, pc) ==
  IF Try(w) + 1 \in NameNo
  THEN fpc' = [fpc EXCEPT ![w] = pc] /\ attempt' = [attempt EXCEPT ![w] = @ + 1]
  ELSE FileTo(w, "failed")

\* O_CREAT | O_EXCL
Placeholder(w) == ~Taken(Try(w)) /\ holder' = [holder EXCEPT ![Try(w)] = w] /\ UNCHANGED whole
\* rename(2) puts w's file in place of whatever has the name.
Put(w) == holder' = [holder EXCEPT ![Try(w)] = w] /\ whole' = whole \cup {Try(w)}
\* open("w") for a copy in place, which readers watch grow.
PutPart(w) == holder' = [holder EXCEPT ![Try(w)] = w] /\ whole' = whole \ {Try(w)}
\* Bytes go to the open file, whatever has its name by now.
Complete(w) == IF holder[Try(w)] = w THEN Put(w) ELSE UNCHANGED <<holder, whole>>
\* unlink(missing_ok=True) takes whatever has the name.
Unlink(w) == holder' = [holder EXCEPT ![Try(w)] = Nobody] /\ whole' = whole \ {Try(w)}
\* The removal of what the worker may have put under the name: its error ends the call,
\* or the attempt, and the file stays.
Clings(w) == clung' = clung \cup {w} /\ UNCHANGED <<holder, whole>>
Remove(w) == (Unlink(w) /\ UNCHANGED clung) \/ Clings(w)

StartFile(w, op) ==
  /\ FileAt(w, "idle") /\ op \in FileOps
  /\ fop' = [fop EXCEPT ![w] = op]
  /\ FileTo(w, FirstStep(op))
  /\ UNCHANGED <<holder, whole, original, ingested, clung>>

-----------------------------------------------------------------------------
(* atomic_hardlink *)

Link(w) ==
  /\ FileAt(w, "link")
  /\ \/ ~Taken(Try(w)) /\ Put(w) /\ FileTo(w, "done")
     \/ Taken(Try(w)) /\ NextName(w, "link") /\ UNCHANGED <<holder, whole>>
     \/ /\ fpc' = [fpc EXCEPT ![w] = "look"]                  \* not supported: copy
        /\ attempt' = [attempt EXCEPT ![w] = 0]
        /\ UNCHANGED <<holder, whole>>
     \/ FileTo(w, "failed") /\ UNCHANGED <<holder, whole>>
  /\ UNCHANGED <<fop, original, ingested, clung>>

-----------------------------------------------------------------------------
(* atomic_copy, and the copy-then-publish of atomic_move across filesystems *)

RetryStep(w) == IF fop[w] = "move" THEN "mlook" ELSE "look"

Look(w) ==
  /\ FileAt(w, "look")
  /\ IF Taken(Try(w)) THEN NextName(w, "look") ELSE FileTo(w, "temp")
  /\ UNCHANGED <<holder, whole, fop, original, ingested, clung>>

\* What an exception in the copy does: a move whose copy is not permitted is
\* written straight to the name.
CopyRaises(w) == \/ FileTo(w, "failed")
                 \/ fop[w] = "move" /\ FileTo(w, "fallback")

\* The temp file is verified before anything has the final name.
CopyTemp(w) ==
  /\ FileAt(w, "temp")
  /\ FileTo(w, "claim") \/ CopyRaises(w)
  /\ UNCHANGED <<holder, whole, fop, original, ingested, clung>>

\* Mutant: the claim opens the name without O_EXCL.
ClaimLoose(w) ==
  /\ FileAt(w, "claim")
  /\ holder' = [holder EXCEPT ![Try(w)] = w] /\ whole' = whole \ {Try(w)}
  /\ FileTo(w, "publish")
  /\ UNCHANGED <<fop, original, ingested, clung>>

Claim(w) ==
  /\ FileAt(w, "claim")
  /\ \/ Placeholder(w) /\ FileTo(w, "publish")
     \/ Taken(Try(w)) /\ NextName(w, RetryStep(w)) /\ UNCHANGED <<holder, whole>>
     \/ CopyRaises(w) /\ UNCHANGED <<holder, whole>>
  /\ UNCHANGED <<fop, original, ingested, clung>>

\* Mutant: a failed publication leaves its placeholder.
PublishLeaves(w) ==
  /\ FileAt(w, "publish")
  /\ \/ Put(w) /\ FileTo(w, "verify")
     \/ UNCHANGED <<holder, whole>> /\ CopyRaises(w)
  /\ UNCHANGED <<fop, original, ingested, clung>>

\* os.replace over the placeholder, or the placeholder is removed.
Publish(w) ==
  /\ FileAt(w, "publish")
  /\ \/ Put(w) /\ UNCHANGED clung /\ FileTo(w, "verify")
     \/ Remove(w) /\ CopyRaises(w)
  /\ UNCHANGED <<fop, original, ingested>>

\* A stale handle twice is trusted; another error of the stat, or a size that does not
\* match twice, is not: it may be wrong, or of another worker's file.
Verify(w) ==
  /\ FileAt(w, "verify")
  /\ \/ FileTo(w, IF fop[w] = "move" THEN "unlink" ELSE "done")
     \/ FileTo(w, "retract")
  /\ UNCHANGED <<holder, whole, fop, original, ingested, clung>>

Retract(w) ==
  /\ FileAt(w, "retract")
  /\ Remove(w) /\ CopyRaises(w)
  /\ UNCHANGED <<fop, original, ingested>>

-----------------------------------------------------------------------------
(* atomic_move *)

MoveLook(w) ==
  /\ FileAt(w, "mlook")
  /\ FileTo(w, IF Taken(Try(w)) THEN "probe" ELSE "rename")
  /\ UNCHANGED <<holder, whole, fop, original, ingested, clung>>

\* exists() may be wrong: the name is probed with O_EXCL.
Probe(w) ==
  /\ FileAt(w, "probe")
  /\ \/ Placeholder(w) /\ FileTo(w, "replace")
     \/ Taken(Try(w)) /\ NextName(w, "mlook") /\ UNCHANGED <<holder, whole>>
     \/ FileTo(w, "failed") /\ UNCHANGED <<holder, whole>>
  /\ UNCHANGED <<fop, original, ingested, clung>>

\* os.rename over whatever came to have the name since exists(), os.replace over the
\* placeholder; or the move fails or crosses filesystems, and the placeholder is removed,
\* unless the source has no size to ask for.
Rename(w) ==
  /\ FileAt(w, "rename") \/ FileAt(w, "replace")
  /\ \/ Put(w) /\ UNCHANGED clung /\ FileTo(w, "done") /\ original' = original \ {w}
     \/ /\ FileAt(w, "rename") /\ UNCHANGED <<holder, whole, original, clung>>
        /\ \E pc \in {"temp", "failed"} : FileTo(w, pc)
     \/ /\ FileAt(w, "replace") /\ UNCHANGED original
        /\ \/ Unlink(w) /\ UNCHANGED clung /\ \E pc \in {"temp", "failed"} : FileTo(w, pc)
           \/ Clings(w) /\ FileTo(w, "failed")
  /\ UNCHANGED <<fop, ingested>>

UnlinkSource(w) ==
  /\ FileAt(w, "unlink")
  /\ \/ FileTo(w, "done") /\ original' = original \ {w}
     \/ CopyRaises(w) /\ UNCHANGED original
  /\ UNCHANGED <<holder, whole, fop, ingested, clung>>

-----------------------------------------------------------------------------
(* _perform_nfs_fallback of a move, in place under the final name: the file *)
(* is copied and its source removed, or what is there is, and mv tries; mv  *)
(* may carry the file and its verification fail, and the call with it.      *)

Fallback(w) ==
  /\ FileAt(w, "fallback")
  /\ \/ PutPart(w) /\ FileTo(w, "copyfile")
     \/ UNCHANGED <<holder, whole>> /\ \E pc \in {"undo", "failed"} : FileTo(w, pc)
  /\ UNCHANGED <<fop, original, ingested, clung>>

CopyInPlace(w) ==
  /\ FileAt(w, "copyfile")
  /\ \/ Complete(w) /\ FileTo(w, "carry")
     \/ UNCHANGED <<holder, whole>> /\ FileTo(w, "undo")
  /\ UNCHANGED <<fop, original, ingested, clung>>

\* The copy is verified, the source unlinked.
CarrySource(w) ==
  /\ FileAt(w, "carry")
  /\ \/ FileTo(w, "done") /\ original' = original \ {w}
     \/ FileTo(w, "undo") /\ UNCHANGED original
  /\ UNCHANGED <<holder, whole, fop, ingested, clung>>

\* What is there is removed before mv is tried, and after it has failed.
Undo(w) ==
  /\ FileAt(w, "undo") \/ FileAt(w, "giveup")
  /\ \/ /\ Unlink(w) /\ UNCHANGED clung
        /\ FileTo(w, IF FileAt(w, "undo") THEN "mv" ELSE "failed")
     \/ Clings(w) /\ FileTo(w, "failed")
  /\ UNCHANGED <<fop, original, ingested>>

SystemMove(w) ==
  /\ FileAt(w, "mv")
  /\ \/ PutPart(w) /\ FileTo(w, "mving")
     \/ UNCHANGED <<holder, whole>> /\ FileTo(w, "giveup")
  /\ UNCHANGED <<fop, original, ingested, clung>>

SystemMoved(w) ==
  /\ FileAt(w, "mving")
  /\ \/ Complete(w) /\ FileTo(w, "moved") /\ original' = original \ {w}
     \/ /\ Complete(w) \/ UNCHANGED <<holder, whole>>
        /\ FileTo(w, "giveup") /\ UNCHANGED original
  /\ UNCHANGED <<fop, ingested, clung>>

VerifyMoved(w) ==
  /\ FileAt(w, "moved")
  /\ \E pc \in {"done", "strayed"} : FileTo(w, pc)
  /\ UNCHANGED <<holder, whole, fop, original, ingested, clung>>

-----------------------------------------------------------------------------
(* atomic_write *)

Create(w) ==
  /\ FileAt(w, "create")
  /\ \/ Placeholder(w) /\ FileTo(w, "write")
     \/ Taken(Try(w)) /\ NextName(w, "create") /\ UNCHANGED <<holder, whole>>
     \/ FileTo(w, "failed") /\ UNCHANGED <<holder, whole>>
  /\ UNCHANGED <<fop, original, ingested, clung>>

\* os.write may fail or write less than all of it, and the file stays.
Write(w) ==
  /\ FileAt(w, "write")
  /\ \/ Complete(w) /\ FileTo(w, "done")
     \/ UNCHANGED <<holder, whole>> /\ \E pc \in {"done", "failed"} : FileTo(w, pc)
  /\ UNCHANGED <<fop, original, ingested, clung>>

-----------------------------------------------------------------------------
Ingest(n) ==
  /\ Watched /\ Taken(n) /\ n \in whole
  /\ ingested' = ingested \cup {holder[n]}
  /\ holder' = [holder EXCEPT ![n] = Nobody] /\ whole' = whole \ {n}
  /\ UNCHANGED <<fpc, fop, attempt, original, clung>>

FileStep(w) ==
  \/ Link(w) \/ Look(w) \/ CopyTemp(w) \/ Claim(w) \/ Publish(w) \/ Verify(w) \/ Retract(w)
  \/ MoveLook(w) \/ Probe(w) \/ Rename(w) \/ UnlinkSource(w)
  \/ Fallback(w) \/ CopyInPlace(w) \/ CarrySource(w) \/ Undo(w)
  \/ SystemMove(w) \/ SystemMoved(w) \/ VerifyMoved(w)
  \/ Create(w) \/ Write(w)

FileNext ==
  \/ \E w \in FileWorker : FileStep(w) \/ \E op \in FileOps : StartFile(w, op)
  \/ \E n \in NameNo : Ingest(n)

FileSpec == FileInit /\ [][FileNext]_fileVars

-----------------------------------------------------------------------------
(* Properties *)

\* Types.
FileTypeOK ==
  /\ holder \in [NameNo -> FileWorker \cup {Nobody}] /\ whole \subseteq NameNo
  /\ fpc \in [FileWorker -> FilePC] /\ fop \in [FileWorker -> AllFileOps]
  /\ attempt \in [FileWorker -> NameNo]
  /\ original \subseteq FileWorker /\ ingested \subseteq FileWorker /\ clung \subseteq FileWorker

\* What a reader of the folder sees under a final name is whole, but for the
\* placeholder of a worker that is about to replace it, a move's copy in place, what an
\* atomic_write has not finished and what could not be removed (_publish_temp_file,
\* atomic_move's probe, _perform_nfs_fallback).
InPlace == {"copyfile", "undo", "mving", "giveup"}
PartialIsAtWork ==
  \A n \in NameNo : Taken(n) /\ n \notin whole =>
    LET w == holder[n] IN
    /\ Try(w) = n
    /\ \/ FileAt(w, "publish") \/ FileAt(w, "replace")
       \/ fop[w] = "move" /\ fpc[w] \in InPlace
       \/ fop[w] = "write" \/ w \in clung

\* Workers that copy, link and write never lose a file to each other, whatever
\* their steps' order: a published file goes only by its own worker, by the ingest
\* program, or once a move (rename after exists(), fall-back) or a publication
\* taken back from a name that the ingest program had freed has disturbed the names.
LostOnlyByRace ==
  [][\A n \in NameNo, w \in FileWorker :
       /\ n \in whole /\ holder[n] = w
       /\ ~(n \in whole' /\ holder'[n] = w)
       => \/ w \in ingested' \/ fpc[w] # fpc'[w]
          \/ \E v \in FileWorker :
               v \in ingested \/ (fop[v] = "move" /\ ~FileAt(v, "idle"))]_fileVars

\* A call that raised can be made again: its source is there, and a copy or a link
\* has left no file of its own under any name, unless it could not be removed, so the
\* retry writes no second one (an atomic_write cut short and a move that cannot remove its
\* source do; a move that strayed has lost its source to mv and raised all the same).
FailedIsRetryable ==
  \A w \in FileWorker : FileAt(w, "failed") =>
    /\ w \in original
    /\ fop[w] \in {"copy", "hardlink"} /\ w \notin clung => \A n \in NameNo : holder[n] # w

\* A publication leaves the whole file under one name, or nothing.
AllOrNothing == PartialIsAtWork /\ FailedIsRetryable

\* The folder its readers and the workers' callers see (Folder).
Seen == [n \in NameNo |-> IF n \in whole THEN holder[n] ELSE Nobody]
Called == [w \in FileWorker |-> IF FileAt(w, "idle") THEN "none" ELSE fop[w]]
Outcome == [w \in FileWorker |-> IF FileAt(w, "done") THEN "done"
                                 ELSE IF fpc[w] \in {"failed", "strayed"} THEN "failed"
                                 ELSE "trying"]

Promised == INSTANCE Folder
  WITH Name <- NameNo, Calls <- FileOps, seen <- Seen, called <- Called, outcome <- Outcome,
       kept <- original, taken <- ingested, stuck <- clung

\* Every step of the calls that a reader or a caller notices is one the folder
\* promises: a whole file appears at once under a free name, a call is done when its
\* file is there, and one that fails has left its source and taken its file back where it
\* could; only a move or the ingest program lets workers undo each other's (download/fs.py).
FollowsFolder == Promised!FolderSpec
=============================================================================
