--------------------------- MODULE ServiceProofs ----------------------------
(***************************************************************************)
(* Proofs about how downloads end, what the service shows and how it is    *)
(* configured: FilePublication, for any workers, names and calls in use;   *)
(* Delivery, for any files and runs; ActivityView, for any users, downloads*)
(* and requests; LiveStatus, for any finite set of pages and any rooms and *)
(* senders; Settings, for any environments; and, with the tables' proofs,  *)
(* all of them in one process (MCService).                                 *)
(***************************************************************************)
EXTENDS MCService, TableProofs

-----------------------------------------------------------------------------
(* FilePublication *)

(***************************************************************************)
(* The inductive invariant.  A step belongs to a call that has it; a       *)
(* worker has a file under the name it tries and no other, and none before *)
(* it has claimed that name or, unless it could not be removed, after a    *)
(* copy that failed; the source goes with the last step of a call that     *)
(* succeeds, or with mv; and until a move is under way or the ingest       *)
(* program has taken a file, whoever claimed a name has it.                *)
(***************************************************************************)
MoveSteps == {"mlook", "probe", "rename", "replace", "unlink", "fallback", "copyfile", "carry",
              "undo", "mv", "mving", "moved", "giveup", "strayed"}
EmptyHanded == {"idle", "link", "look", "temp", "claim", "mlook", "probe", "rename", "create"}
Claimed == {"publish", "verify", "retract"}

CallsFit ==
  \A w \in FileWorker :
    /\ fpc[w] \in MoveSteps => fop[w] = "move"
    /\ fpc[w] \in {"create", "write"} => fop[w] = "write"
    /\ fpc[w] \in {"link", "look"} => fop[w] \in {"copy", "hardlink"}
    /\ fpc[w] \in {"temp", "claim", "publish", "verify", "retract"} => fop[w] # "write"
    /\ w \in clung => FileAt(w, "failed") \/ (fop[w] = "move" /\ ~FileAt(w, "idle"))

OneName ==
  \A w \in FileWorker, n \in NameNo :
    holder[n] = w =>
      /\ n = Try(w) /\ fpc[w] \notin EmptyHanded
      /\ FileAt(w, "failed") /\ fop[w] \in {"copy", "hardlink"} => w \in clung

SourceKept ==
  \A w \in FileWorker :
    /\ fpc[w] \notin {"done", "moved", "strayed"} => w \in original
    /\ FileAt(w, "moved") => w \notin original

FolderUndisturbed ==
  \A v \in FileWorker : v \notin ingested /\ (fop[v] = "move" => FileAt(v, "idle"))

ClaimHolds ==
  FolderUndisturbed => \A w \in FileWorker : fpc[w] \in Claimed => holder[Try(w)] = w

FileInv ==
  /\ FileTypeOK
  /\ CallsFit /\ OneName /\ SourceKept /\ ClaimHolds
  /\ PartialIsAtWork

-----------------------------------------------------------------------------
\* Every file system call of every worker, and the ingest program, keep the
\* invariant.
LEMMA FileInvStep == FileInv /\ [FileNext]_fileVars => FileInv'
<1> SUFFICES ASSUME FileInv, [FileNext]_fileVars PROVE FileInv'
  OBVIOUS
<1> USE FileAssumption DEF FileInv, FileTypeOK, FilePC, AllFileOps, FileAt, FileTo, Try, Taken, MoveSteps, EmptyHanded, Claimed
<1>1. ASSUME NEW w \in FileWorker, Link(w) PROVE FileInv'
  <2>1. FileTypeOK'
    <3>1. fpc' \in [FileWorker -> FilePC] BY <1>1 DEF Link, NextName
    <3>2. attempt' \in [FileWorker -> NameNo] BY <1>1 DEF Link, NextName, NameNo
    <3>3. holder' \in [NameNo -> FileWorker \cup {Nobody}] /\ whole' \subseteq NameNo
      BY <1>1 DEF Link, Put
    <3> QED BY <1>1, <3>1, <3>2, <3>3 DEF Link
  <2>2. CallsFit' BY <1>1 DEF Link, Put, NextName, CallsFit
  <2>3. OneName' BY <1>1 DEF Link, Put, NextName, OneName, CallsFit
  <2>4. SourceKept' BY <1>1 DEF Link, Put, NextName, SourceKept
  <2>5. ClaimHolds' BY <1>1 DEF Link, Put, NextName, ClaimHolds, FolderUndisturbed, CallsFit, OneName
  <2>6. PartialIsAtWork' BY <1>1 DEF Link, Put, NextName, PartialIsAtWork, InPlace, OneName, CallsFit
  <2> QED BY <2>1, <2>2, <2>3, <2>4, <2>5, <2>6
<1>2. ASSUME NEW w \in FileWorker, Look(w) PROVE FileInv'
  <2>1. FileTypeOK' BY <1>2 DEF Look, NextName, FileTypeOK
  <2>2. CallsFit' BY <1>2 DEF Look, NextName, CallsFit
  <2>3. OneName' BY <1>2 DEF Look, NextName, OneName, CallsFit
  <2>4. SourceKept' BY <1>2 DEF Look, NextName, SourceKept
  <2>5. ClaimHolds' BY <1>2 DEF Look, NextName, ClaimHolds, FolderUndisturbed, CallsFit, OneName
  <2>6. PartialIsAtWork' BY <1>2 DEF Look, NextName, PartialIsAtWork, InPlace, OneName, CallsFit
  <2> QED BY <2>1, <2>2, <2>3, <2>4, <2>5, <2>6
<1>3. ASSUME NEW w \in FileWorker, CopyTemp(w) PROVE FileInv'
  <2>1. FileTypeOK' BY <1>3 DEF CopyTemp, CopyRaises, FileTypeOK
  <2>2. CallsFit' BY <1>3 DEF CopyTemp, CopyRaises, CallsFit
  <2>3. OneName' BY <1>3 DEF CopyTemp, CopyRaises, OneName, CallsFit
  <2>4. SourceKept' BY <1>3 DEF CopyTemp, CopyRaises, SourceKept
  <2>5. ClaimHolds' BY <1>3 DEF CopyTemp, CopyRaises, ClaimHolds, FolderUndisturbed, CallsFit, OneName
  <2>6. PartialIsAtWork' BY <1>3 DEF CopyTemp, CopyRaises, PartialIsAtWork, InPlace, OneName, CallsFit
  <2> QED BY <2>1, <2>2, <2>3, <2>4, <2>5, <2>6
<1>4. ASSUME NEW w \in FileWorker, Claim(w) PROVE FileInv'
  <2>1. FileTypeOK' BY <1>4 DEF Claim, Placeholder, NextName, RetryStep, CopyRaises, FileTypeOK
  <2>2. CallsFit' BY <1>4 DEF Claim, Placeholder, NextName, RetryStep, CopyRaises, CallsFit
  <2>3. OneName' BY <1>4 DEF Claim, Placeholder, NextName, RetryStep, CopyRaises, OneName, CallsFit
  <2>4. SourceKept' BY <1>4 DEF Claim, Placeholder, NextName, RetryStep, CopyRaises, SourceKept
  <2>5. ClaimHolds' BY <1>4 DEF Claim, Placeholder, NextName, RetryStep, CopyRaises, ClaimHolds, FolderUndisturbed, CallsFit, OneName
  <2>6. PartialIsAtWork' BY <1>4 DEF Claim, Placeholder, NextName, RetryStep, CopyRaises, PartialIsAtWork, InPlace, OneName, CallsFit
  <2> QED BY <2>1, <2>2, <2>3, <2>4, <2>5, <2>6
<1>5. ASSUME NEW w \in FileWorker, Publish(w) PROVE FileInv'
  <2>1. FileTypeOK' BY <1>5 DEF Publish, Put, Unlink, Clings, Remove, CopyRaises, FileTypeOK
  <2>2. CallsFit' BY <1>5 DEF Publish, Put, Unlink, Clings, Remove, CopyRaises, CallsFit
  <2>3. OneName' BY <1>5 DEF Publish, Put, Unlink, Clings, Remove, CopyRaises, OneName, CallsFit
  <2>4. SourceKept' BY <1>5 DEF Publish, Put, Unlink, Clings, Remove, CopyRaises, SourceKept
  <2>5. ClaimHolds'
    BY <1>5 DEF Publish, Put, Unlink, Clings, Remove, CopyRaises, ClaimHolds, FolderUndisturbed, CallsFit, OneName
  <2>6. PartialIsAtWork'
    BY <1>5 DEF Publish, Put, Unlink, Clings, Remove, CopyRaises, PartialIsAtWork, InPlace, OneName, CallsFit
  <2> QED BY <2>1, <2>2, <2>3, <2>4, <2>5, <2>6
<1>6. ASSUME NEW w \in FileWorker, Verify(w) PROVE FileInv'
  <2>1. FileTypeOK' BY <1>6 DEF Verify, FileTypeOK
  <2>2. CallsFit' BY <1>6 DEF Verify, CallsFit
  <2>3. OneName' BY <1>6 DEF Verify, OneName, CallsFit
  <2>4. SourceKept' BY <1>6 DEF Verify, SourceKept
  <2>5. ClaimHolds'
    BY <1>6 DEF Verify, ClaimHolds, FolderUndisturbed, CallsFit, OneName
  <2>6. PartialIsAtWork'
    BY <1>6 DEF Verify, PartialIsAtWork, InPlace, OneName, CallsFit
  <2> QED BY <2>1, <2>2, <2>3, <2>4, <2>5, <2>6
<1>7. ASSUME NEW w \in FileWorker, Retract(w) PROVE FileInv'
  <2>1. FileTypeOK' BY <1>7 DEF Retract, Unlink, Clings, Remove, CopyRaises, FileTypeOK
  <2>2. CallsFit' BY <1>7 DEF Retract, Unlink, Clings, Remove, CopyRaises, CallsFit
  <2>3. OneName' BY <1>7 DEF Retract, Unlink, Clings, Remove, CopyRaises, OneName, CallsFit
  <2>4. SourceKept' BY <1>7 DEF Retract, Unlink, Clings, Remove, CopyRaises, SourceKept
  <2>5. ClaimHolds'
    BY <1>7 DEF Retract, Unlink, Clings, Remove, CopyRaises, ClaimHolds, FolderUndisturbed, CallsFit, OneName
  <2>6. PartialIsAtWork'
    BY <1>7 DEF Retract, Unlink, Clings, Remove, CopyRaises, PartialIsAtWork, InPlace, OneName, CallsFit
  <2> QED BY <2>1, <2>2, <2>3, <2>4, <2>5, <2>6
<1>8. ASSUME NEW w \in FileWorker, MoveLook(w) PROVE FileInv'
  <2>1. FileTypeOK' BY <1>8 DEF MoveLook, FileTypeOK
  <2>2. CallsFit' BY <1>8 DEF MoveLook, CallsFit
  <2>3. OneName' BY <1>8 DEF MoveLook, OneName, CallsFit
  <2>4. SourceKept' BY <1>8 DEF MoveLook, SourceKept
  <2>5. ClaimHolds'
    BY <1>8 DEF MoveLook, ClaimHolds, FolderUndisturbed, CallsFit, OneName
  <2>6. PartialIsAtWork'
    BY <1>8 DEF MoveLook, PartialIsAtWork, InPlace, OneName, CallsFit
  <2> QED BY <2>1, <2>2, <2>3, <2>4, <2>5, <2>6
<1>9. ASSUME NEW w \in FileWorker, Probe(w) PROVE FileInv'
  <2>1. FileTypeOK' BY <1>9 DEF Probe, Placeholder, NextName, FileTypeOK
  <2>2. CallsFit' BY <1>9 DEF Probe, Placeholder, NextName, CallsFit
  <2>3. OneName' BY <1>9 DEF Probe, Placeholder, NextName, OneName, CallsFit
  <2>4. SourceKept' BY <1>9 DEF Probe, Placeholder, NextName, SourceKept
  <2>5. ClaimHolds'
    BY <1>9 DEF Probe, Placeholder, NextName, ClaimHolds, FolderUndisturbed, CallsFit, OneName
  <2>6. PartialIsAtWork'
    BY <1>9 DEF Probe, Placeholder, NextName, PartialIsAtWork, InPlace, OneName, CallsFit
  <2> QED BY <2>1, <2>2, <2>3, <2>4, <2>5, <2>6
<1>10. ASSUME NEW w \in FileWorker, Rename(w) PROVE FileInv'
  <2>1. FileTypeOK' BY <1>10 DEF Rename, Put, Unlink, Clings, FileTypeOK
  <2>2. CallsFit' BY <1>10 DEF Rename, Put, Unlink, Clings, CallsFit
  <2>3. OneName' BY <1>10 DEF Rename, Put, Unlink, Clings, OneName, CallsFit
  <2>4. SourceKept' BY <1>10 DEF Rename, Put, Unlink, Clings, SourceKept
  <2>5. ClaimHolds'
    BY <1>10 DEF Rename, Put, Unlink, Clings, ClaimHolds, FolderUndisturbed, CallsFit, OneName
  <2>6. PartialIsAtWork'
    BY <1>10 DEF Rename, Put, Unlink, Clings, PartialIsAtWork, InPlace, OneName, CallsFit
  <2> QED BY <2>1, <2>2, <2>3, <2>4, <2>5, <2>6
<1>11. ASSUME NEW w \in FileWorker, UnlinkSource(w) PROVE FileInv'
  <2>1. FileTypeOK' BY <1>11 DEF UnlinkSource, CopyRaises, FileTypeOK
  <2>2. CallsFit' BY <1>11 DEF UnlinkSource, CopyRaises, CallsFit
  <2>3. OneName' BY <1>11 DEF UnlinkSource, CopyRaises, OneName, CallsFit
  <2>4. SourceKept' BY <1>11 DEF UnlinkSource, CopyRaises, SourceKept
  <2>5. ClaimHolds'
    BY <1>11 DEF UnlinkSource, CopyRaises, ClaimHolds, FolderUndisturbed, CallsFit, OneName
  <2>6. PartialIsAtWork'
    BY <1>11 DEF UnlinkSource, CopyRaises, PartialIsAtWork, InPlace, OneName, CallsFit
  <2> QED BY <2>1, <2>2, <2>3, <2>4, <2>5, <2>6
<1>12. ASSUME NEW w \in FileWorker, Fallback(w) PROVE FileInv'
  <2>1. FileTypeOK' BY <1>12 DEF Fallback, PutPart, FileTypeOK
  <2>2. CallsFit' BY <1>12 DEF Fallback, PutPart, CallsFit
  <2>3. OneName' BY <1>12 DEF Fallback, PutPart, OneName, CallsFit
  <2>4. SourceKept' BY <1>12 DEF Fallback, PutPart, SourceKept
  <2>5. ClaimHolds'
    BY <1>12 DEF Fallback, PutPart, ClaimHolds, FolderUndisturbed, CallsFit, OneName
  <2>6. PartialIsAtWork'
    BY <1>12 DEF Fallback, PutPart, PartialIsAtWork, InPlace, OneName, CallsFit
  <2> QED BY <2>1, <2>2, <2>3, <2>4, <2>5, <2>6
<1>13. ASSUME NEW w \in FileWorker, CopyInPlace(w) PROVE FileInv'
  <2>1. FileTypeOK' BY <1>13 DEF CopyInPlace, Put, Complete, FileTypeOK
  <2>2. CallsFit' BY <1>13 DEF CopyInPlace, Put, Complete, CallsFit
  <2>3. OneName' BY <1>13 DEF CopyInPlace, Put, Complete, OneName, CallsFit
  <2>4. SourceKept' BY <1>13 DEF CopyInPlace, Put, Complete, SourceKept
  <2>5. ClaimHolds'
    BY <1>13 DEF CopyInPlace, Put, Complete, ClaimHolds, FolderUndisturbed, CallsFit, OneName
  <2>6. PartialIsAtWork'
    BY <1>13 DEF CopyInPlace, Put, Complete, PartialIsAtWork, InPlace, OneName, CallsFit
  <2> QED BY <2>1, <2>2, <2>3, <2>4, <2>5, <2>6
<1>14. ASSUME NEW w \in FileWorker, CarrySource(w) PROVE FileInv'
  <2>1. FileTypeOK' BY <1>14 DEF CarrySource, FileTypeOK
  <2>2. CallsFit' BY <1>14 DEF CarrySource, CallsFit
  <2>3. OneName' BY <1>14 DEF CarrySource, OneName, CallsFit
  <2>4. SourceKept' BY <1>14 DEF CarrySource, SourceKept
  <2>5. ClaimHolds'
    BY <1>14 DEF CarrySource, ClaimHolds, FolderUndisturbed, CallsFit, OneName
  <2>6. PartialIsAtWork'
    BY <1>14 DEF CarrySource, PartialIsAtWork, InPlace, OneName, CallsFit
  <2> QED BY <2>1, <2>2, <2>3, <2>4, <2>5, <2>6
<1>15. ASSUME NEW w \in FileWorker, Undo(w) PROVE FileInv'
  <2>1. FileTypeOK' BY <1>15 DEF Undo, Unlink, Clings, FileTypeOK
  <2>2. CallsFit' BY <1>15 DEF Undo, Unlink, Clings, CallsFit
  <2>3. OneName' BY <1>15 DEF Undo, Unlink, Clings, OneName, CallsFit
  <2>4. SourceKept' BY <1>15 DEF Undo, Unlink, Clings, SourceKept
  <2>5. ClaimHolds'
    BY <1>15 DEF Undo, Unlink, Clings, ClaimHolds, FolderUndisturbed, CallsFit, OneName
  <2>6. PartialIsAtWork'
    BY <1>15 DEF Undo, Unlink, Clings, PartialIsAtWork, InPlace, OneName, CallsFit
  <2> QED BY <2>1, <2>2, <2>3, <2>4, <2>5, <2>6
<1>16. ASSUME NEW w \in FileWorker, SystemMove(w) PROVE FileInv'
  <2>1. FileTypeOK' BY <1>16 DEF SystemMove, PutPart, FileTypeOK
  <2>2. CallsFit' BY <1>16 DEF SystemMove, PutPart, CallsFit
  <2>3. OneName' BY <1>16 DEF SystemMove, PutPart, OneName, CallsFit
  <2>4. SourceKept' BY <1>16 DEF SystemMove, PutPart, SourceKept
  <2>5. ClaimHolds'
    BY <1>16 DEF SystemMove, PutPart, ClaimHolds, FolderUndisturbed, CallsFit, OneName
  <2>6. PartialIsAtWork'
    BY <1>16 DEF SystemMove, PutPart, PartialIsAtWork, InPlace, OneName, CallsFit
  <2> QED BY <2>1, <2>2, <2>3, <2>4, <2>5, <2>6
<1>17. ASSUME NEW w \in FileWorker, SystemMoved(w) PROVE FileInv'
  <2>1. FileTypeOK' BY <1>17 DEF SystemMoved, Put, Complete, FileTypeOK
  <2>2. CallsFit' BY <1>17 DEF SystemMoved, Put, Complete, CallsFit
  <2>3. OneName' BY <1>17 DEF SystemMoved, Put, Complete, OneName, CallsFit
  <2>4. SourceKept' BY <1>17 DEF SystemMoved, Put, Complete, SourceKept
  <2>5. ClaimHolds'
    BY <1>17 DEF SystemMoved, Put, Complete, ClaimHolds, FolderUndisturbed, CallsFit, OneName
  <2>6. PartialIsAtWork'
    BY <1>17 DEF SystemMoved, Put, Complete, PartialIsAtWork, InPlace, OneName, CallsFit
  <2> QED BY <2>1, <2>2, <2>3, <2>4, <2>5, <2>6
<1>18. ASSUME NEW w \in FileWorker, VerifyMoved(w) PROVE FileInv'
  <2>1. FileTypeOK' BY <1>18 DEF VerifyMoved, FileTypeOK
  <2>2. CallsFit' BY <1>18 DEF VerifyMoved, CallsFit
  <2>3. OneName' BY <1>18 DEF VerifyMoved, OneName, CallsFit
  <2>4. SourceKept' BY <1>18 DEF VerifyMoved, SourceKept
  <2>5. ClaimHolds'
    BY <1>18 DEF VerifyMoved, ClaimHolds, FolderUndisturbed, CallsFit, OneName
  <2>6. PartialIsAtWork'
    BY <1>18 DEF VerifyMoved, PartialIsAtWork, InPlace, OneName, CallsFit
  <2> QED BY <2>1, <2>2, <2>3, <2>4, <2>5, <2>6
<1>19. ASSUME NEW w \in FileWorker, Create(w) PROVE FileInv'
  <2>1. FileTypeOK' BY <1>19 DEF Create, Placeholder, NextName, FileTypeOK
  <2>2. CallsFit' BY <1>19 DEF Create, Placeholder, NextName, CallsFit
  <2>3. OneName' BY <1>19 DEF Create, Placeholder, NextName, OneName, CallsFit
  <2>4. SourceKept' BY <1>19 DEF Create, Placeholder, NextName, SourceKept
  <2>5. ClaimHolds'
    BY <1>19 DEF Create, Placeholder, NextName, ClaimHolds, FolderUndisturbed, CallsFit, OneName
  <2>6. PartialIsAtWork'
    BY <1>19 DEF Create, Placeholder, NextName, PartialIsAtWork, InPlace, OneName, CallsFit
  <2> QED BY <2>1, <2>2, <2>3, <2>4, <2>5, <2>6
<1>20. ASSUME NEW w \in FileWorker, Write(w) PROVE FileInv'
  <2>1. FileTypeOK' BY <1>20 DEF Write, Put, Complete, FileTypeOK
  <2>2. CallsFit' BY <1>20 DEF Write, Put, Complete, CallsFit
  <2>3. OneName' BY <1>20 DEF Write, Put, Complete, OneName, CallsFit
  <2>4. SourceKept' BY <1>20 DEF Write, Put, Complete, SourceKept
  <2>5. ClaimHolds'
    BY <1>20 DEF Write, Put, Complete, ClaimHolds, FolderUndisturbed, CallsFit, OneName
  <2>6. PartialIsAtWork'
    BY <1>20 DEF Write, Put, Complete, PartialIsAtWork, InPlace, OneName, CallsFit
  <2> QED BY <2>1, <2>2, <2>3, <2>4, <2>5, <2>6
<1>21. ASSUME NEW w \in FileWorker, NEW op \in FileOps, StartFile(w, op) PROVE FileInv'
  <2>1. FileTypeOK' BY <1>21 DEF StartFile, FirstStep, FileTypeOK
  <2>2. CallsFit' BY <1>21 DEF StartFile, FirstStep, CallsFit
  <2>3. OneName' BY <1>21 DEF StartFile, FirstStep, OneName, CallsFit
  <2>4. SourceKept' BY <1>21 DEF StartFile, FirstStep, SourceKept
  <2>5. ClaimHolds'
    BY <1>21 DEF StartFile, FirstStep, ClaimHolds, FolderUndisturbed, CallsFit, OneName
  <2>6. PartialIsAtWork'
    BY <1>21 DEF StartFile, FirstStep, PartialIsAtWork, InPlace, OneName, CallsFit
  <2> QED BY <2>1, <2>2, <2>3, <2>4, <2>5, <2>6
<1>22. ASSUME NEW n \in NameNo, Ingest(n) PROVE FileInv'
  <2>1. FileTypeOK' BY <1>22 DEF Ingest, FileTypeOK
  <2>2. CallsFit' BY <1>22 DEF Ingest, CallsFit
  <2>3. OneName' BY <1>22 DEF Ingest, OneName, CallsFit
  <2>4. SourceKept' BY <1>22 DEF Ingest, SourceKept
  <2>5. ClaimHolds'
    BY <1>22 DEF Ingest, ClaimHolds, FolderUndisturbed, CallsFit, OneName
  <2>6. PartialIsAtWork'
    BY <1>22 DEF Ingest, PartialIsAtWork, InPlace, OneName, CallsFit
  <2> QED BY <2>1, <2>2, <2>3, <2>4, <2>5, <2>6
<1>23. CASE UNCHANGED fileVars
  <2>1. FileTypeOK' BY <1>23 DEF fileVars, FileTypeOK
  <2>2. CallsFit' BY <1>23 DEF fileVars, CallsFit
  <2>3. OneName' BY <1>23 DEF fileVars, OneName, CallsFit
  <2>4. SourceKept' BY <1>23 DEF fileVars, SourceKept
  <2>5. ClaimHolds'
    BY <1>23 DEF fileVars, ClaimHolds, FolderUndisturbed, CallsFit, OneName
  <2>6. PartialIsAtWork'
    BY <1>23 DEF fileVars, PartialIsAtWork, InPlace, OneName, CallsFit
  <2> QED BY <2>1, <2>2, <2>3, <2>4, <2>5, <2>6
<1> QED
  BY <1>1, <1>2, <1>3, <1>4, <1>5, <1>6, <1>7, <1>8, <1>9, <1>10, <1>11, <1>12, <1>13, <1>14,
     <1>15, <1>16, <1>17, <1>18, <1>19, <1>20, <1>21, <1>22, <1>23
     DEF FileNext, FileStep

\* Initially the folder is empty and every source is there.
LEMMA FileInvInit == FileInit => FileInv
<1> SUFFICES ASSUME FileInit PROVE FileInv
  OBVIOUS
<1> USE FileAssumption DEF FileInit, FileAt
<1>1. FileTypeOK BY DEF FileTypeOK, FilePC, AllFileOps, NameNo
<1>2. CallsFit BY DEF CallsFit, MoveSteps
<1>3. OneName BY DEF OneName
<1>4. SourceKept BY DEF SourceKept
<1>5. ClaimHolds BY DEF ClaimHolds, Claimed
<1>6. PartialIsAtWork BY DEF PartialIsAtWork, InPlace, Taken
<1> QED BY <1>1, <1>2, <1>3, <1>4, <1>5, <1>6 DEF FileInv

-----------------------------------------------------------------------------
(***************************************************************************)
(* The theorems.                                                           *)
(***************************************************************************)
\* The inductive invariant holds in every reachable state.
THEOREM FileInvariant == FileSpec => []FileInv
BY FileInvInit, FileInvStep, PTL DEF FileSpec

\* Steps, operations and names stay those that the code knows.
THEOREM FileTyped == FileSpec => []FileTypeOK
<1>1. FileInv => FileTypeOK BY DEF FileInv
<1> QED BY <1>1, FileInvariant, PTL

\* However many workers give files their names in the folder, what a reader sees
\* under a final name is whole or being replaced, and a call that raised can be
\* made again.
THEOREM FileAllOrNothing == FileSpec => []AllOrNothing
<1>1. ASSUME FileInv PROVE AllOrNothing
  <2>1. FailedIsRetryable
    BY <1>1 DEF FileInv, SourceKept, OneName, FailedIsRetryable, FileAt
  <2> QED BY <1>1, <2>1 DEF FileInv, AllOrNothing
<1> QED BY <1>1, FileInvariant, PTL

\* A published file goes only by its own worker, by the ingest program, or in a
\* folder where a move or the ingest program has disturbed the names.
THEOREM FileLostOnlyByRace == FileSpec => LostOnlyByRace
<1> DEFINE Lost(n, w) ==
      /\ n \in whole /\ holder[n] = w
      /\ ~(n \in whole' /\ holder'[n] = w)
    Cause(w) ==
      \/ w \in ingested' \/ fpc[w] # fpc'[w]
      \/ \E v \in FileWorker :
           v \in ingested \/ (fop[v] = "move" /\ ~FileAt(v, "idle"))
<1>1. ASSUME FileInv, [FileNext]_fileVars, NEW n \in NameNo, NEW w \in FileWorker,
             Lost(n, w), ~Cause(w)
      PROVE  FALSE
  <2>1. FolderUndisturbed /\ fpc'[w] = fpc[w] /\ w \notin ingested'
    BY <1>1 DEF FolderUndisturbed
  <2>2. Taken(n) BY <1>1, FileAssumption DEF Taken
  <2>3. ASSUME NEW v \in FileWorker, fpc[v] \in MoveSteps PROVE FALSE
    BY <1>1, <2>1, <2>3 DEF FileInv, CallsFit, FolderUndisturbed, MoveSteps, FileAt
  <2>4. ASSUME NEW v \in FileWorker, fpc[v] \in Claimed PROVE holder[Try(v)] = v
    BY <1>1, <2>1, <2>4 DEF FileInv, ClaimHolds
  <2>5. ASSUME NEW v \in FileWorker, fpc[v] # fpc'[v], holder[Try(v)] = v,
               Put(v) \/ Unlink(v)
        PROVE  FALSE
    BY <1>1, <2>1, <2>5 DEF Put, Unlink, FileInv, FileTypeOK
  <2>6. ASSUME NEW v \in FileWorker, ~Taken(Try(v)), Put(v) \/ Placeholder(v) PROVE FALSE
    BY <1>1, <2>2, <2>6 DEF Put, Placeholder, FileInv, FileTypeOK
  <2>7. ASSUME NEW v \in FileWorker, Link(v) \/ Claim(v) \/ Create(v) PROVE FALSE
    BY <1>1, <2>6, <2>7 DEF Link, Claim, Create, Placeholder
  <2>8. ASSUME NEW v \in FileWorker, Publish(v) \/ Retract(v) PROVE FALSE
    <3>1. holder[Try(v)] = v
      BY <2>4, <2>8 DEF Publish, Retract, FileAt, Claimed
    <3>2. fpc[v] # fpc'[v]
      BY <1>1, <2>8
         DEF Publish, Retract, CopyRaises, FileAt, FileTo, FileInv, FileTypeOK
    <3>3. Put(v) \/ Unlink(v) \/ UNCHANGED <<holder, whole>>
      BY <2>8 DEF Publish, Retract, Remove, Clings
    <3> QED BY <1>1, <2>5, <3>1, <3>2, <3>3
  <2>9. ASSUME NEW v \in FileWorker, Write(v) PROVE FALSE
    <3>1. CASE UNCHANGED <<holder, whole>> BY <1>1, <3>1
    <3>2. CASE holder[Try(v)] = v /\ Put(v) /\ FileTo(v, "done")
      <4>1. fpc[v] # fpc'[v]
        BY <1>1, <2>9, <3>2 DEF Write, FileAt, FileTo, FileInv, FileTypeOK
      <4> QED BY <2>5, <3>2, <4>1
    <3> QED BY <2>9, <3>1, <3>2 DEF Write, Complete
  <2>10. ASSUME NEW v \in FileWorker,
                \/ MoveLook(v) \/ Probe(v) \/ Rename(v) \/ UnlinkSource(v)
                \/ Fallback(v) \/ CopyInPlace(v) \/ CarrySource(v) \/ Undo(v)
                \/ SystemMove(v) \/ SystemMoved(v) \/ VerifyMoved(v)
         PROVE  FALSE
    BY <2>3, <2>10
       DEF MoveLook, Probe, Rename, UnlinkSource, Fallback, CopyInPlace, CarrySource, Undo,
         SystemMove, SystemMoved, VerifyMoved, FileAt, MoveSteps
  <2>11. ASSUME NEW m \in NameNo, Ingest(m) PROVE FALSE
    <3>1. CASE m = n BY <1>1, <2>1, <2>11, <3>1 DEF Ingest
    <3>2. CASE m # n BY <1>1, <2>11, <3>2 DEF Ingest, FileInv, FileTypeOK
    <3> QED BY <3>1, <3>2
  <2>12. CASE UNCHANGED <<holder, whole>> BY <1>1, <2>12
  <2> QED
    BY <1>1, <2>7, <2>8, <2>9, <2>10, <2>11, <2>12
       DEF FileNext, FileStep, Look, CopyTemp, Verify, StartFile, fileVars
<1>2. FileInv /\ [FileNext]_fileVars
        => [\A n \in NameNo, w \in FileWorker : Lost(n, w) => Cause(w)]_fileVars
  BY <1>1
<1> QED BY <1>2, FileInvariant, PTL DEF FileSpec, LostOnlyByRace
-----------------------------------------------------------------------------
(***************************************************************************)
(* The folder that readers and callers see (Folder).  The refinement needs *)
(* one more fact: a whole file has an owner that has published it and did  *)
(* not fail, unless it could not remove it or is a move.                   *)
(***************************************************************************)
Published == {"verify", "retract", "unlink", "fallback", "carry", "undo", "moved", "giveup", "done",
              "failed", "strayed"}

WholeIsPublished ==
  \A n \in whole :
    /\ Taken(n) /\ fpc[holder[n]] \in Published
    /\ FileAt(holder[n], "failed") => fop[holder[n]] = "move" \/ holder[n] \in clung

\* What a step does to what is seen: a file put in place, one taken away, a placeholder.
LEMMA SeenChanges ==
  ASSUME FileInv, WholeIsPublished, NEW w \in FileWorker
  PROVE  /\ Put(w) => Seen' = [Seen EXCEPT ![Try(w)] = w]
         /\ Unlink(w) => Seen' = [Seen EXCEPT ![Try(w)] = Nobody]
         /\ PutPart(w) => Seen' = [Seen EXCEPT ![Try(w)] = Nobody]
         /\ Placeholder(w) => Seen' = Seen
         /\ UNCHANGED <<holder, whole>> => Seen' = Seen
<1> USE DEF FileInv, FileTypeOK, Try
<1>1. Try(w) \in NameNo
  OBVIOUS
<1>2. ASSUME Put(w) PROVE Seen' = [Seen EXCEPT ![Try(w)] = w]
  BY <1>1, <1>2 DEF Put, Seen
<1>3. ASSUME Unlink(w) PROVE Seen' = [Seen EXCEPT ![Try(w)] = Nobody]
  BY <1>1, <1>3 DEF Unlink, Seen
<1>6. ASSUME PutPart(w) PROVE Seen' = [Seen EXCEPT ![Try(w)] = Nobody]
  BY <1>1, <1>6 DEF PutPart, Seen
<1>4. ASSUME Placeholder(w) PROVE Seen' = Seen
  <2>1. Try(w) \notin whole
    BY <1>4 DEF Placeholder, WholeIsPublished
  <2> QED BY <1>1, <1>4, <2>1 DEF Placeholder, Seen
<1>5. ASSUME UNCHANGED <<holder, whole>> PROVE Seen' = Seen
  BY <1>5 DEF Seen
<1> QED BY <1>2, <1>3, <1>4, <1>5, <1>6

\* What a step of a call that is under way does to its outcome.
LEMMA OutcomeChanges ==
  ASSUME FileInv, NEW w \in FileWorker, fpc[w] \notin {"idle", "done", "failed", "strayed"},
         NEW pc \in FilePC \ {"idle"}, fpc' = [fpc EXCEPT ![w] = pc], UNCHANGED fop
  PROVE  /\ Called' = Called /\ Called[w] = fop[w] /\ Called[w] # "none"
         /\ Outcome[w] = "trying"
         /\ pc \in {"done", "failed"} => Outcome' = [Outcome EXCEPT ![w] = pc]
         /\ pc = "strayed" => Outcome' = [Outcome EXCEPT ![w] = "failed"]
         /\ pc \notin {"done", "failed", "strayed"} => Outcome' = Outcome
<1> USE DEF FileInv, FileTypeOK, FileAt
<1>1. Called' = Called /\ Called[w] = fop[w]
  BY DEF Called
<1>2. fop[w] # "none"
  BY DEF AllFileOps
<1>3. Outcome[w] = "trying"
  BY DEF Outcome
<1>4. ASSUME pc \in {"done", "failed"} PROVE Outcome' = [Outcome EXCEPT ![w] = pc]
  BY <1>4 DEF Outcome
<1>5. ASSUME pc \notin {"done", "failed", "strayed"} PROVE Outcome' = Outcome
  BY <1>5 DEF Outcome
<1>6. ASSUME pc = "strayed" PROVE Outcome' = [Outcome EXCEPT ![w] = "failed"]
  BY <1>6 DEF Outcome
<1> QED BY <1>1, <1>2, <1>3, <1>4, <1>5, <1>6

\* Who is seen, and when the folder is disturbed, in the terms of the calls.
LEMMA SeenIs ==
  ASSUME FileInv, NEW w \in FileWorker
  PROVE  /\ Promised!IsSeen(w) <=> \E n \in NameNo : n \in whole /\ holder[n] = w
         /\ \A n \in NameNo : Seen[n] = IF n \in whole THEN holder[n] ELSE Nobody
         /\ ~Promised!Disturbed => FolderUndisturbed
         /\ fop[w] = "move" /\ ~FileAt(w, "idle") => Promised!Disturbed
<1>1. \A n \in NameNo : Seen[n] = IF n \in whole THEN holder[n] ELSE Nobody
  BY DEF Seen
<1>2. Promised!IsSeen(w) <=> \E n \in NameNo : n \in whole /\ holder[n] = w
  BY <1>1, FileAssumption DEF Promised!IsSeen
<1>3. \A v \in FileWorker : Called[v] = IF FileAt(v, "idle") THEN "none" ELSE fop[v]
  BY DEF Called
<1>4. ASSUME ~Promised!Disturbed, NEW v \in FileWorker
      PROVE  v \notin ingested /\ (fop[v] = "move" => FileAt(v, "idle"))
  BY <1>3, <1>4 DEF Promised!Disturbed
<1>5. fop[w] = "move" /\ ~FileAt(w, "idle") => Promised!Disturbed
  BY <1>3 DEF Promised!Disturbed
<1> QED BY <1>1, <1>2, <1>4, <1>5 DEF FolderUndisturbed

\* Whoever has published keeps its file whole, whatever the others do.
LEMMA WholeIsPublishedStep ==
  ASSUME FileInv, WholeIsPublished, [FileNext]_fileVars
  PROVE  WholeIsPublished'
<1> USE FileAssumption DEF FileInv, FileTypeOK, FilePC, AllFileOps, FileAt, FileTo, Try, Taken,
      Published, WholeIsPublished, EmptyHanded
<1>1. ASSUME NEW w \in FileWorker, Link(w) PROVE WholeIsPublished'
  BY <1>1 DEF Link, NextName, OneName, Put
<1>2. ASSUME NEW w \in FileWorker, Publish(w) PROVE WholeIsPublished'
  BY <1>2 DEF Publish, CopyRaises, OneName, CallsFit, Put, Unlink, Remove, Clings
<1>3. ASSUME NEW w \in FileWorker, Write(w) PROVE WholeIsPublished'
  BY <1>3 DEF Write, OneName, CallsFit, Put, Complete
<1>4. ASSUME NEW w \in FileWorker, Rename(w) PROVE WholeIsPublished'
  BY <1>4 DEF Rename, OneName, CallsFit, MoveSteps, Put, Unlink, Clings
<1>5. ASSUME NEW w \in FileWorker,
             Look(w) \/ CopyTemp(w) \/ Claim(w) \/ MoveLook(w) \/ Probe(w) \/ Create(w)
      PROVE  WholeIsPublished'
  <2>1. /\ whole' = whole /\ clung' = clung /\ \A n \in whole : holder'[n] = holder[n]
        /\ fop' = fop /\ \A v \in FileWorker : v # w => fpc'[v] = fpc[v]
    BY <1>5 DEF Look, CopyTemp, Claim, MoveLook, Probe, Create, CopyRaises, NextName, Placeholder
  <2>2. \A n \in whole : holder[n] # w
    BY <1>5 DEF Look, CopyTemp, Claim, MoveLook, Probe, Create
  <2> QED BY <2>1, <2>2
<1>6. ASSUME NEW w \in FileWorker, Verify(w) PROVE WholeIsPublished'
  BY <1>6 DEF Verify, OneName
<1>7. ASSUME NEW w \in FileWorker, Retract(w) PROVE WholeIsPublished'
  BY <1>7 DEF Retract, CopyRaises, OneName, CallsFit, Unlink, Remove, Clings
<1>8. ASSUME NEW w \in FileWorker, UnlinkSource(w) PROVE WholeIsPublished'
  BY <1>8 DEF UnlinkSource, CopyRaises, CallsFit, MoveSteps
<1>9. ASSUME NEW w \in FileWorker, Fallback(w) PROVE WholeIsPublished'
  BY <1>9 DEF Fallback, OneName, CallsFit, MoveSteps, PutPart
<1>10. ASSUME NEW w \in FileWorker, CopyInPlace(w) PROVE WholeIsPublished'
  BY <1>10 DEF CopyInPlace, OneName, Put, Complete
<1>11. ASSUME NEW w \in FileWorker, CarrySource(w) \/ VerifyMoved(w) PROVE WholeIsPublished'
  BY <1>11 DEF CarrySource, VerifyMoved, OneName
<1>12. ASSUME NEW w \in FileWorker, Undo(w) PROVE WholeIsPublished'
  BY <1>12 DEF Undo, OneName, CallsFit, MoveSteps, Unlink, Clings
<1>13. ASSUME NEW w \in FileWorker, SystemMove(w) PROVE WholeIsPublished'
  BY <1>13 DEF SystemMove, OneName, PutPart
<1>14. ASSUME NEW w \in FileWorker, SystemMoved(w) PROVE WholeIsPublished'
  BY <1>14 DEF SystemMoved, OneName, Put, Complete
<1>15. ASSUME NEW w \in FileWorker, NEW op \in FileOps, StartFile(w, op) PROVE WholeIsPublished'
  <2>1. \A n \in whole : holder[n] # w
    BY <1>15 DEF StartFile
  <2> QED BY <1>15, <2>1 DEF StartFile
<1>16. ASSUME NEW n \in NameNo, Ingest(n) PROVE WholeIsPublished'
  BY <1>16 DEF Ingest
<1>17. CASE UNCHANGED fileVars
  BY <1>17 DEF fileVars
<1> QED
  BY <1>1, <1>2, <1>3, <1>4, <1>5, <1>6, <1>7, <1>8, <1>9, <1>10, <1>11, <1>12, <1>13, <1>14, <1>15,
     <1>16, <1>17
     DEF FileNext, FileStep

\* Every step of the calls is one that the folder promises, or none it notices.
LEMMA FolderStep ==
  ASSUME FileInv, WholeIsPublished, [FileNext]_fileVars
  PROVE  [Promised!FolderNext]_(Promised!folderVars)
<1> DEFINE Seems == [Promised!FolderNext]_(Promised!folderVars)
<1> USE DEF FileInv
<1>1. ASSUME NEW w \in FileWorker, FileStep(w)
      PROVE  Seems
  <2> DEFINE Goes(pc) == fpc' = [fpc EXCEPT ![w] = pc]
             Alike == Called' = Called /\ ingested' = ingested /\ Called[w] = fop[w]
                        /\ Called[w] # "none" /\ Outcome[w] = "trying"
             Same == UNCHANGED <<holder, whole>>
             EndsAs(pc) == Outcome' = [Outcome EXCEPT ![w] = pc]
             Left == original' = original \ {w}
  <2>1. fpc[w] \notin {"idle", "done", "failed", "strayed"} /\ UNCHANGED <<fop, ingested>>
    BY <1>1 DEF FileStep, Link, Look, CopyTemp, Claim, Publish, Verify, Retract, MoveLook, Probe,
      Rename, UnlinkSource, Fallback, CopyInPlace, CarrySource, Undo, SystemMove, SystemMoved,
      VerifyMoved, Create, Write, FileAt
  <2>2. Try(w) \in NameNo /\ fop[w] \in AllFileOps /\ fpc[w] \in FilePC
    BY DEF FileTypeOK, Try
  <2>3. ASSUME NEW pc \in FilePC \ {"idle"}, Goes(pc)
        PROVE  /\ Alike /\ (pc \in {"done", "failed"} => EndsAs(pc))
               /\ pc = "strayed" => EndsAs("failed")
               /\ pc \notin {"done", "failed", "strayed"} => Outcome' = Outcome
    BY <2>1, <2>3, OutcomeChanges
  <2>4. /\ Put(w) => Seen' = [Seen EXCEPT ![Try(w)] = w]
        /\ Unlink(w) \/ PutPart(w) => Seen' = [Seen EXCEPT ![Try(w)] = Nobody]
        /\ Placeholder(w) => Seen' = Seen
        /\ Same => Seen' = Seen
    BY SeenChanges
  <2>5. /\ Promised!IsSeen(w) <=> \E n \in NameNo : n \in whole /\ holder[n] = w
        /\ \A n \in NameNo : Seen[n] = IF n \in whole THEN holder[n] ELSE Nobody
        /\ ~Promised!Disturbed => FolderUndisturbed
        /\ fop[w] = "move" => Promised!Disturbed
    BY <2>1, SeenIs DEF FileAt
  <2>T. Alike => Promised!Trying(w)
    BY DEF Promised!Trying
  <2> HIDE DEF Alike
  \* A step that nobody notices.
  <2>6. ASSUME NEW pc \in FilePC \ {"idle", "done", "failed", "strayed"}, Goes(pc),
               Same \/ Placeholder(w), UNCHANGED <<original, clung>>
        PROVE  Seems
    <3>1. Seen' = Seen /\ Called' = Called /\ Outcome' = Outcome
          /\ UNCHANGED <<original, ingested, clung>>
      BY <2>3, <2>4, <2>6 DEF Alike
    <3> QED BY <3>1 DEF Promised!folderVars
  <2> HIDE DEF Seems
  <2>6a. ASSUME NEW pc \in FilePC \ {"idle", "done", "failed", "strayed"}, Goes(pc), Same,
                UNCHANGED <<original, clung>>
         PROVE  Seems
    BY <2>6, <2>6a
  <2> USE DEF Seems
  \* The file appears; mv may have taken the source with it.
  <2>7. ASSUME NEW pc \in FilePC \ {"idle", "failed", "strayed"}, Goes(pc), Put(w),
               ~Promised!IsSeen(w), Seen[Try(w)] = Nobody \/ Promised!Disturbed, UNCHANGED clung,
               pc = "done" => original' = IF fop[w] = "move" THEN original \ {w} ELSE original,
               pc # "done" => UNCHANGED original \/ (fop[w] = "move" /\ Left)
        PROVE  Seems
    <3>1. Alike /\ Seen' = [Seen EXCEPT ![Try(w)] = w]
      BY <2>3, <2>4, <2>7
    <3>2. CASE pc = "done"
      <4>1. EndsAs("done") /\ original' = IF Called[w] = "move" THEN original \ {w} ELSE original
        BY <2>3, <2>7, <3>1, <3>2 DEF Alike
      <4>2. Promised!Appear(w, Try(w))
        BY <2>7, <3>1, <4>1 DEF Promised!Appear, Promised!Ends, Alike
      <4> QED BY <2>2, <2>T, <3>1, <4>2 DEF Promised!FolderNext
    <3>3. CASE pc # "done"
      <4>1. Outcome' = Outcome /\ (original' = original \/ Promised!Carry(w))
        BY <2>3, <2>7, <3>1, <3>3 DEF Promised!Carry, Alike
      <4>2. Promised!Appear(w, Try(w))
        BY <2>7, <3>1, <4>1 DEF Promised!Appear, Alike
      <4> QED BY <2>2, <2>T, <3>1, <4>2 DEF Promised!FolderNext
    <3> QED BY <3>2, <3>3
  \* The call succeeds and its file is there already.
  <2>8. ASSUME Goes("done"), Seen' = Seen, UNCHANGED clung,
               Promised!IsSeen(w) \/ fop[w] = "write" \/ Promised!Disturbed,
               original' = IF fop[w] = "move" THEN original \ {w} ELSE original
        PROVE  Seems
    <3>1. Alike /\ EndsAs("done")
      BY <2>3, <2>8 DEF FilePC
    <3>2. Promised!Succeed(w)
      BY <2>8, <3>1 DEF Promised!Succeed, Promised!Ends, Alike
    <3> QED BY <2>T, <3>1, <3>2 DEF Promised!FolderNext
  \* The call fails.
  <2>9. ASSUME Goes("failed") \/ Goes("strayed"), UNCHANGED original,
               clung' \in {clung, clung \cup {w}},
               Same \/ (Unlink(w) /\ (Seen[Try(w)] \in {w, Nobody} \/ Promised!Disturbed)),
               fop[w] # "move" => ~Promised!IsSeen(w) \/ Unlink(w) \/ w \in clung'
        PROVE  Seems
    <3>1. Alike /\ EndsAs("failed")
      BY <2>3, <2>9 DEF FilePC
    <3>2. Seen' = Seen \/ \E n \in NameNo : Promised!Clear(w, n)
      <4>1. CASE Unlink(w) /\ Seen[Try(w)] = Nobody
        BY <2>2, <2>4, <4>1 DEF Seen
      <4> QED BY <2>2, <2>4, <2>9, <4>1 DEF Promised!Clear
    <3>3. Promised!IsSeen(w)' => fop[w] = "move" \/ w \in clung'
      <4> SUFFICES ASSUME fop[w] # "move", w \notin clung', NEW n \in NameNo, Seen'[n] = w
                   PROVE  FALSE
        BY DEF Promised!IsSeen
      <4>1. n = Try(w) \/ Seen[n] # w
        BY <2>5, FileAssumption DEF OneName
      <4>2. CASE Unlink(w)
        BY <2>2, <2>4, <4>1, <4>2, FileAssumption DEF Seen
      <4>3. CASE Same /\ ~Promised!IsSeen(w)
        BY <2>4, <4>3 DEF Promised!IsSeen
      <4> QED BY <2>9, <4>2, <4>3
    <3>4. Promised!Fail(w)
      BY <2>9, <3>1, <3>2, <3>3 DEF Promised!Fail, Promised!Ends, Promised!Sticks, Alike
    <3> QED BY <2>T, <3>1, <3>4 DEF Promised!FolderNext
  <2> HIDE DEF Seems
  <2>9a. ASSUME Goes("failed") \/ Goes("strayed"), UNCHANGED <<original, clung>>, Same,
                ~Promised!IsSeen(w) \/ fop[w] = "move"
         PROVE  Seems
    BY <2>9, <2>9a
  <2>9b. ASSUME Goes("failed"), UNCHANGED original, Clings(w)
         PROVE  Seems
    BY <2>9, <2>9b DEF Clings
  <2> USE DEF Seems
  \* A move tries another way.
  <2>10. ASSUME NEW pc \in FilePC \ {"idle", "done", "failed", "strayed"}, Goes(pc),
                fop[w] = "move",
                \/ (Unlink(w) \/ PutPart(w)) /\ UNCHANGED <<original, clung>>
                \/ Clings(w) /\ UNCHANGED original
                \/ Same /\ Left /\ UNCHANGED clung
         PROVE  Seems
    <3>1. Alike /\ Outcome' = Outcome /\ Promised!Disturbed
      BY <2>3, <2>5, <2>10
    <3>2. Promised!Retreat(w, Try(w))
      <4>1. CASE (Unlink(w) \/ PutPart(w)) /\ UNCHANGED <<original, clung>>
        BY <2>4, <2>10, <3>1, <4>1 DEF Promised!Retreat, Promised!Clear, Alike
      <4>2. CASE Clings(w) /\ UNCHANGED original
        BY <2>4, <2>10, <3>1, <4>2 DEF Promised!Retreat, Promised!Sticks, Alike, Clings
      <4>3. CASE Same /\ Left /\ UNCHANGED clung
        BY <2>4, <2>10, <3>1, <4>3 DEF Promised!Retreat, Promised!Carry, Alike
      <4> QED BY <2>10, <4>1, <4>2, <4>3
    <3> QED BY <2>2, <2>T, <3>1, <3>2 DEF Promised!FolderNext
  <2> HIDE DEF Seems
  <2>11. /\ fpc[w] \notin Published => ~Promised!IsSeen(w)
         /\ ~Taken(Try(w)) => Seen[Try(w)] = Nobody
         /\ fpc[w] \in Claimed => holder[Try(w)] = w \/ Promised!Disturbed
    BY <2>2, <2>5, FileAssumption DEF WholeIsPublished, Taken, ClaimHolds
  <2>12. CASE Link(w)
    <3>1. fop[w] # "move" /\ fpc[w] \notin Published /\ UNCHANGED <<original, clung>>
      BY <2>12 DEF Link, FileAt, CallsFit, Published, FileInv
    <3>2. CASE Put(w) /\ ~Taken(Try(w)) /\ FileTo(w, "done")
      BY <2>7, <2>11, <3>1, <3>2 DEF FileTo, FilePC
    <3>3. CASE NextName(w, "link") /\ Same
      BY <2>11, <2>9a, <2>6a, <3>1, <3>3 DEF NextName, FileTo, FilePC
    <3>4. CASE Goes("look") /\ Same
      BY <2>6a, <3>1, <3>4 DEF FilePC
    <3>5. CASE FileTo(w, "failed") /\ Same
      BY <2>11, <2>9a, <3>1, <3>5 DEF FileTo
    <3> QED BY <2>12, <3>2, <3>3, <3>4, <3>5 DEF Link
  <2>13. CASE Look(w) \/ MoveLook(w)
    <3>1. fpc[w] \notin Published /\ UNCHANGED <<original, clung>> /\ Same
      BY <2>13 DEF Look, MoveLook, FileAt, Published
    <3>2. Goes("look") \/ Goes("temp") \/ Goes("probe") \/ Goes("rename") \/ Goes("failed")
      BY <2>13 DEF Look, MoveLook, NextName, FileTo
    <3> QED BY <2>6a, <2>11, <2>9a, <3>1, <3>2 DEF FilePC
  <2>14. CASE CopyTemp(w) \/ Claim(w)
    <3>1. fpc[w] \notin Published /\ UNCHANGED <<original, clung>> /\ (Same \/ Placeholder(w))
      BY <2>14 DEF CopyTemp, Claim, FileAt, Published
    <3>2. \/ Goes("failed") /\ Same
          \/ \E pc \in {"claim", "publish", "mlook", "look", "fallback"} : Goes(pc)
      BY <2>14 DEF CopyTemp, Claim, CopyRaises, NextName, RetryStep, FileTo
    <3> QED BY <2>6, <2>11, <2>9a, <3>1, <3>2 DEF FilePC
  <2>15. CASE Publish(w)
    <3>1. fpc[w] \notin Published /\ original' = original /\ fpc[w] \in Claimed
      BY <2>15 DEF Publish, FileAt, Published, Claimed
    <3>2. Seen[Try(w)] = Nobody \/ Promised!Disturbed
      BY <2>2, <2>5, <2>11, <3>1 DEF Promised!IsSeen
    <3>3. CASE Put(w) /\ UNCHANGED clung /\ FileTo(w, "verify")
      BY <2>7, <2>11, <3>1, <3>2, <3>3 DEF FileTo, FilePC
    <3>4. CASE Unlink(w) /\ UNCHANGED clung /\ FileTo(w, "failed")
      BY <2>9, <3>1, <3>2, <3>4 DEF FileTo
    <3>5. CASE ((Unlink(w) /\ UNCHANGED clung) \/ Clings(w))
               /\ fop[w] = "move" /\ FileTo(w, "fallback")
      BY <2>10, <3>1, <3>5 DEF FileTo, FilePC
    <3>6. CASE Clings(w) /\ FileTo(w, "failed")
      BY <2>9b, <3>1, <3>6 DEF FileTo
    <3> QED BY <2>15, <3>3, <3>4, <3>5, <3>6 DEF Publish, Remove, CopyRaises
  <2>16. CASE Verify(w)
    <3>1. UNCHANGED <<original, clung>> /\ Same /\ fpc[w] = "verify" /\ fop[w] # "write"
      BY <2>16 DEF Verify, FileAt, CallsFit
    <3>2. CASE Goes("unlink") \/ Goes("retract")
      BY <2>6a, <3>1, <3>2 DEF FilePC
    <3>3. CASE fop[w] # "move" /\ Goes("done")
      <4>1. ASSUME ~Promised!Disturbed PROVE Promised!IsSeen(w)
        <5>1. holder[Try(w)] = w /\ w # Nobody
          BY <2>11, <3>1, <4>1, FileAssumption DEF Claimed
        <5>2. w \notin clung
          BY <3>1, <3>3 DEF CallsFit, FileAt
        <5>3. Try(w) \in whole
          BY <2>2, <3>1, <3>3, <5>1, <5>2 DEF PartialIsAtWork, InPlace, Taken, FileAt
        <5> QED BY <2>2, <2>5, <5>1, <5>3
      <4> QED BY <2>4, <2>8, <3>1, <3>3, <4>1
    <3> QED BY <2>16, <3>2, <3>3 DEF Verify, FileTo
  <2>17. CASE Retract(w)
    <3>1. original' = original /\ fpc[w] \in Claimed
      BY <2>17 DEF Retract, FileAt, Claimed
    <3>2. Seen[Try(w)] \in {w, Nobody} \/ Promised!Disturbed
      BY <2>2, <2>5, <2>11, <3>1
    <3>3. CASE Unlink(w) /\ UNCHANGED clung /\ Goes("failed")
      BY <2>9, <3>1, <3>2, <3>3
    <3>4. CASE fop[w] = "move" /\ Goes("fallback")
               /\ ((Unlink(w) /\ UNCHANGED clung) \/ Clings(w))
      BY <2>10, <3>1, <3>4 DEF FilePC
    <3>5. CASE Clings(w) /\ Goes("failed")
      BY <2>9b, <3>1, <3>5
    <3> QED BY <2>17, <3>3, <3>4, <3>5 DEF Retract, Remove, CopyRaises, FileTo
  <2>18. CASE Probe(w) \/ Create(w)
    <3>1. fpc[w] \notin Published /\ UNCHANGED <<original, clung>> /\ (Same \/ Placeholder(w))
      BY <2>18 DEF Probe, Create, FileAt, Published
    <3>2. \/ Goes("failed") /\ Same
          \/ \E pc \in {"replace", "mlook", "write", "create"} : Goes(pc)
      BY <2>18 DEF Probe, Create, NextName, FileTo
    <3> QED BY <2>6, <2>11, <2>9a, <3>1, <3>2 DEF FilePC
  <2>19. CASE Rename(w)
    <3>1. fpc[w] \notin Published /\ fop[w] = "move"
      BY <2>19 DEF Rename, FileAt, Published, CallsFit, MoveSteps
    <3>2. CASE Put(w) /\ UNCHANGED clung /\ Goes("done") /\ Left
      BY <2>5, <2>7, <2>11, <3>1, <3>2 DEF FilePC
    <3>3. CASE Same /\ UNCHANGED <<original, clung>> /\ (Goes("temp") \/ Goes("failed"))
      BY <2>6a, <2>9a, <3>1, <3>3 DEF FilePC
    <3>4. CASE Unlink(w) /\ UNCHANGED <<original, clung>> /\ (Goes("temp") \/ Goes("failed"))
      BY <2>5, <2>9, <2>10, <3>1, <3>4 DEF FilePC
    <3>5. CASE Clings(w) /\ UNCHANGED original /\ Goes("failed")
      BY <2>9b, <3>5
    <3> QED BY <2>19, <3>2, <3>3, <3>4, <3>5 DEF Rename, FileTo
  <2>20. CASE UnlinkSource(w)
    <3>1. Same /\ UNCHANGED clung /\ fop[w] = "move"
      BY <2>20 DEF UnlinkSource, FileAt, CallsFit, MoveSteps
    <3>2. CASE Goes("done") /\ Left
      BY <2>4, <2>5, <2>8, <3>1, <3>2
    <3>3. CASE original' = original /\ (Goes("fallback") \/ Goes("failed"))
      BY <2>9a, <2>6a, <3>1, <3>3 DEF FilePC
    <3> QED BY <2>20, <3>2, <3>3 DEF UnlinkSource, CopyRaises, FileTo
  <2>21. CASE Fallback(w) \/ SystemMove(w)
    <3>1. fop[w] = "move" /\ UNCHANGED <<original, clung>>
      BY <2>21 DEF Fallback, SystemMove, FileAt, CallsFit, MoveSteps
    <3>2. CASE PutPart(w) /\ (Goes("copyfile") \/ Goes("mving"))
      BY <2>10, <3>1, <3>2 DEF FilePC
    <3>3. CASE Same /\ (Goes("undo") \/ Goes("failed") \/ Goes("giveup"))
      BY <2>6a, <2>9a, <3>1, <3>3 DEF FilePC
    <3> QED BY <2>21, <3>2, <3>3 DEF Fallback, SystemMove, FileTo
  <2>23. CASE CopyInPlace(w)
    <3>1. fop[w] = "move" /\ UNCHANGED <<original, clung>> /\ fpc[w] \notin Published
      BY <2>23 DEF CopyInPlace, FileAt, CallsFit, MoveSteps, Published
    <3>2. CASE Put(w) /\ Goes("carry")
      BY <2>5, <2>7, <2>11, <3>1, <3>2 DEF FilePC
    <3>3. CASE Same /\ (Goes("carry") \/ Goes("undo"))
      BY <2>6a, <3>1, <3>3 DEF FilePC
    <3> QED BY <2>23, <3>2, <3>3 DEF CopyInPlace, Complete, FileTo
  <2>24. CASE CarrySource(w)
    <3>1. fop[w] = "move" /\ Same /\ UNCHANGED clung
      BY <2>24 DEF CarrySource, FileAt, CallsFit, MoveSteps
    <3>2. CASE Goes("done") /\ Left
      BY <2>4, <2>5, <2>8, <3>1, <3>2
    <3>3. CASE Goes("undo") /\ original' = original
      BY <2>6a, <3>1, <3>3 DEF FilePC
    <3> QED BY <2>24, <3>2, <3>3 DEF CarrySource, FileTo
  <2>25. CASE Undo(w)
    <3>1. fop[w] = "move" /\ original' = original
      BY <2>25 DEF Undo, FileAt, CallsFit, MoveSteps
    <3>2. CASE Unlink(w) /\ UNCHANGED clung /\ (Goes("mv") \/ Goes("failed"))
      BY <2>5, <2>9, <2>10, <3>1, <3>2 DEF FilePC
    <3>3. CASE Clings(w) /\ Goes("failed")
      BY <2>9b, <3>1, <3>3
    <3> QED BY <2>25, <3>2, <3>3 DEF Undo, FileTo
  <2>26. CASE SystemMoved(w)
    <3>1. fop[w] = "move" /\ UNCHANGED clung /\ fpc[w] \notin Published
      BY <2>26 DEF SystemMoved, FileAt, CallsFit, MoveSteps, Published
    <3>2. CASE Put(w) /\ ((Goes("moved") /\ Left) \/ (Goes("giveup") /\ original' = original))
      BY <2>5, <2>7, <2>11, <3>1, <3>2 DEF FilePC
    <3>3. CASE Same /\ Goes("moved") /\ Left
      BY <2>10, <3>1, <3>3 DEF FilePC
    <3>4. CASE Same /\ Goes("giveup") /\ original' = original
      BY <2>6a, <3>1, <3>4 DEF FilePC
    <3> QED BY <2>26, <3>2, <3>3, <3>4 DEF SystemMoved, Complete, FileTo
  <2>27. CASE VerifyMoved(w)
    <3>1. fop[w] = "move" /\ UNCHANGED <<original, clung>> /\ Same /\ w \notin original
      BY <2>27 DEF VerifyMoved, FileAt, CallsFit, MoveSteps, SourceKept
    <3>2. CASE Goes("done")
      <4>1. original' = original \ {w}
        BY <3>1
      <4> QED BY <2>4, <2>5, <2>8, <3>1, <3>2, <4>1
    <3>3. CASE Goes("strayed")
      BY <2>9a, <3>1, <3>3
    <3> QED BY <2>27, <3>2, <3>3 DEF VerifyMoved, FileTo
  <2>22. CASE Write(w)
    <3>1. fpc[w] \notin Published /\ UNCHANGED <<original, clung>> /\ fop[w] = "write"
      BY <2>22 DEF Write, FileAt, Published, CallsFit
    <3>2. CASE holder[Try(w)] = w /\ Put(w) /\ Goes("done")
      <4>1. Seen[Try(w)] = Nobody
        BY <2>2, <2>5, <2>11, <3>1, <3>2
      <4> QED BY <2>7, <2>11, <3>1, <3>2, <4>1 DEF FilePC
    <3>3. CASE Same /\ (Goes("done") \/ Goes("failed"))
      BY <2>4, <2>8, <2>11, <2>9a, <3>1, <3>3
    <3> QED BY <2>22, <3>2, <3>3 DEF Write, Complete, FileTo
  <2> QED
    BY <1>1, <2>12, <2>13, <2>14, <2>15, <2>16, <2>17, <2>18, <2>19, <2>20, <2>21, <2>22, <2>23,
       <2>24, <2>25, <2>26, <2>27
       DEF FileStep
<1>2. ASSUME NEW w \in FileWorker, NEW op \in FileOps, StartFile(w, op)
      PROVE  Seems
  <2>1. UNCHANGED <<holder, whole, original, ingested, clung>> /\ fpc[w] = "idle"
        /\ fop' = [fop EXCEPT ![w] = op] /\ fpc' = [fpc EXCEPT ![w] = FirstStep(op)]
        /\ FirstStep(op) \in {"look", "link", "mlook", "create"}
    BY <1>2, FileAssumption DEF StartFile, FileAt, FileTo, FirstStep, AllFileOps
  <2>2. Seen' = Seen /\ Called' = [Called EXCEPT ![w] = op] /\ Called[w] = "none"
    BY <2>1 DEF Seen, Called, FileAt, FileTypeOK
  <2>3. Outcome' = Outcome
    <3>1. \A v \in FileWorker \ {w} : fpc'[v] = fpc[v]
      BY <2>1 DEF FileTypeOK
    <3>2. fpc[w] = "idle" /\ fpc'[w] \in {"look", "link", "mlook", "create"}
      BY <2>1 DEF FileTypeOK
    <3> QED BY <3>1, <3>2 DEF Outcome, FileAt
  <2>4. Promised!Begin(w)
    <3>1. Called'[w] = op
      BY <2>2 DEF Called
    <3> QED BY <2>1, <2>2, <2>3, <3>1 DEF Promised!Begin
  <2> QED BY <2>4 DEF Promised!FolderNext
<1>3. ASSUME NEW n \in NameNo, Ingest(n)
      PROVE  Seems
  <2>1. Seen' = [Seen EXCEPT ![n] = Nobody] /\ Seen[n] = holder[n] /\ Seen[n] # Nobody
    BY <1>3 DEF Ingest, Seen, Taken, FileTypeOK
  <2>2. Called' = Called /\ Outcome' = Outcome
    BY <1>3 DEF Ingest, Called, Outcome, FileAt
  <2>3. Promised!Take(n)
    BY <1>3, <2>1, <2>2 DEF Ingest, Promised!Take
  <2> QED BY <2>3 DEF Promised!FolderNext
<1>4. CASE UNCHANGED fileVars
  BY <1>4 DEF fileVars, Promised!folderVars, Seen, Called, Outcome, FileAt
<1> QED BY <1>1, <1>2, <1>3, <1>4 DEF FileNext

\* The folder the calls share keeps its promise: what a reader sees appears whole
\* under a free name, a call that is done has its file there, a call that failed has
\* its source and, unless it is a move or could not remove it, nothing under any name;
\* mv alone takes a source before its call is done; workers undo each other's files only
\* where a move or the ingest program is about (download/fs.py).
THEOREM FileFollowsFolder == FileSpec => FollowsFolder
<1>1. FileInit => Promised!FolderInit
  BY DEF FileInit, Promised!FolderInit, Seen, Called, Outcome, FileAt
<1>2. FileInit => WholeIsPublished
  BY DEF FileInit, WholeIsPublished
<1>3. FileInv /\ WholeIsPublished /\ [FileNext]_fileVars => WholeIsPublished'
  BY WholeIsPublishedStep
<1>4. FileInv /\ WholeIsPublished /\ [FileNext]_fileVars
        => [Promised!FolderNext]_(Promised!folderVars)
  BY FolderStep
<1> QED BY <1>1, <1>2, <1>3, <1>4, FileInvariant, PTL DEF FileSpec, FollowsFolder, Promised!FolderSpec
-----------------------------------------------------------------------------
(***************************************************************************)
(* Delivery.  The types say too little: that a task's retries add up rests *)
(* on what each run has made and sent so far (nothing before it sends, all *)
(* at once by e-mail), on the runs that broke off late being fewer than    *)
(* those begun, on the copies of a file being counted run by run, and on   *)
(* the first run finding the workspace empty.                              *)
(***************************************************************************)

Run == {"fetched", "route", "prepare", "ready", "sending"}

\* Broken runs, run by run.
RunsCounted ==
  /\ dpc \notin Run => lateFailures <= runs /\ made = {}
  /\ dpc \in Run => lateFailures < runs

\* What a run has made, and what the first run leaves.
Tidy ==
  /\ runs = 0 => litter = {}
  /\ dpc \in Run /\ runs = 1 => litter = {}
  /\ dpc \in {"fetched", "route"} => made = {}
  /\ dpc = "prepare" => made \subseteq {"copy"}
  /\ "broken" \in made => Extracts /\ files # Book

\* What of the release is where.
SentIsFiles ==
  /\ dpc \in Run \ {"sending"} => sent = {}
  /\ dpc = "sending" /\ Output = "email" => sent = {} \/ sent = files
  /\ dpc = "new" => dresult = "none"
  /\ dresult = "done" => dpc = "queued" /\ sent = files

\* How often a file was delivered, before the run and by it.
Copies ==
  \A b \in Book :
    /\ dpc \in Run => delivered[b] <= lateFailures + IF b \in sent THEN 1 ELSE 0
    /\ dpc \notin Run => delivered[b] <= lateFailures + IF dresult = "done" THEN 1 ELSE 0
    /\ b \in sent => delivered[b] > 0

Source == dpc \in Run \/ (retryFrom /\ dresult # "cancelled") => fetched

DeliveryTypes ==
  /\ order \in Order \cup {NoOrder}
  /\ dpc \in Run \cup {"new", "queued"}
  /\ dresult \in {"none", "done", "failed", "cancelled"}
  /\ runs \in 0 .. DeliveryRuns /\ lateFailures \in Nat
  /\ made \subseteq Directory /\ litter \subseteq Directory
  /\ fetched \in BOOLEAN /\ retryFrom \in BOOLEAN /\ dcancel \in BOOLEAN
  /\ sent \subseteq files /\ files \subseteq Book
  /\ delivered \in [Book -> Nat]

DeliveryInv ==
  DeliveryTypes /\ RunsCounted /\ Tidy /\ SentIsFiles /\ Copies /\ Source /\ SuccessIsTidy

\* The end of a run.
LEMMA EndsRun ==
  ASSUME DeliveryInv, dpc \in Run, NEW result \in {"done", "failed", "cancelled"},
         EndDelivery(result), UNCHANGED <<order, runs, dcancel, delivered, sent>>,
         files' \subseteq Book, sent \subseteq files',
         made' = {}, litter' \subseteq Directory,
         retryFrom' \in BOOLEAN, fetched' \in BOOLEAN,
         result = "failed" => fetched', result = "done" => ~retryFrom',
         result = "done" => sent = files' /\ files' = files
                            /\ litter' = litter \cup (made \cap {"broken"})
  PROVE  DeliveryInv'
<1>1. /\ dpc' = "queued" /\ dresult' \in {result, "cancelled"}
      /\ lateFailures' = lateFailures + IF dresult' # "done" /\ sent # {} THEN 1 ELSE 0
  BY DEF EndDelivery, Settled
<1>2. dpc' \notin Run /\ lateFailures' \in Nat
  BY <1>1 DEF Run, DeliveryInv, DeliveryTypes
<1>3. DeliveryTypes'
  BY <1>1, <1>2 DEF DeliveryInv, DeliveryTypes
<1>4. RunsCounted'
  BY <1>1, <1>2 DEF DeliveryInv, DeliveryTypes, RunsCounted, Run
<1>5. SentIsFiles'
  BY <1>1, <1>2 DEF SentIsFiles, Run
<1>6. Copies'
  BY <1>1, <1>2 DEF DeliveryInv, DeliveryTypes, Copies
<1>7. Source'
  BY <1>1, <1>2 DEF Source
<1>8. runs # 0
  BY DEF DeliveryInv, DeliveryTypes, RunsCounted
<1>9. Tidy'
  BY <1>1, <1>2, <1>8 DEF Tidy
<1>10. Extracts' = Extracts
  BY DEF Extracts, Output
<1>11. SuccessIsTidy'
  <2> SUFFICES ASSUME dresult' = "done", runs = 1
               PROVE  litter' = {} \/ (litter' = {"broken"} /\ Extracts /\ files' # Book)
    BY <1>10 DEF SuccessIsTidy
  <2>1. litter = {} /\ litter' = made \cap {"broken"} /\ files' = files
    BY <1>1 DEF DeliveryInv, Tidy
  <2>2. "broken" \in made => Extracts /\ files # Book
    BY DEF DeliveryInv, Tidy
  <2> QED BY <2>1, <2>2
<1> QED BY <1>3, <1>4, <1>5, <1>6, <1>7, <1>9, <1>11 DEF DeliveryInv

\* A step within a run that delivers nothing.
LEMMA StepsOn ==
  ASSUME DeliveryInv, dpc \in Run, NEW pc \in Run, Step(pc),
         UNCHANGED <<order, runs, delivered, sent, fetched, litter>>, retryFrom' \in BOOLEAN,
         dcancel' \in BOOLEAN, files' \subseteq Book, sent \subseteq files',
         made' \subseteq Directory,
         pc \in {"fetched", "route"} => made' = {}, pc = "prepare" => made' \subseteq {"copy"},
         "broken" \in made' => Extracts /\ files' # Book,
         pc # "sending" => sent = {},
         pc = "sending" /\ Output = "email" => sent = {} \/ sent = files'
  PROVE  DeliveryInv'
<1>1. /\ dpc' = pc /\ UNCHANGED <<dresult, lateFailures>>
      /\ dresult # "done"
  BY DEF Step, DeliveryInv, SentIsFiles, Run
<1>2. Extracts' = Extracts /\ Output' = Output
  BY DEF Extracts, Output
<1>3. DeliveryTypes'
  BY <1>1 DEF DeliveryInv, DeliveryTypes
<1>4. RunsCounted'
  BY <1>1 DEF RunsCounted, DeliveryInv
<1>5. SentIsFiles'
  BY <1>1, <1>2 DEF SentIsFiles, Run
<1>6. Copies'
  BY <1>1 DEF DeliveryInv, Copies
<1>7. Source' /\ SuccessIsTidy'
  BY <1>1 DEF Source, DeliveryInv, SuccessIsTidy
<1>8. Tidy'
  BY <1>1, <1>2 DEF Tidy, DeliveryInv
<1> QED BY <1>3, <1>4, <1>5, <1>6, <1>7, <1>8 DEF DeliveryInv

\* What is delivered while it is sent.
LEMMA Delivers ==
  ASSUME DeliveryInv, dpc = "sending", NEW s, s \subseteq files, s \cap sent = {}, Deliver(s),
         Output = "email" => s = files
  PROVE  DeliveryInv'
<1>1. /\ sent' = sent \cup s /\ delivered' = [b \in Book |-> delivered[b] + IF b \in s THEN 1 ELSE 0]
      /\ UNCHANGED <<order, dpc, dresult, runs, fetched, retryFrom, dcancel, files, made, litter,
                     lateFailures>>
  BY DEF Deliver, FileCount
<1>2. Extracts' = Extracts /\ Output' = Output /\ dresult # "done"
  BY <1>1 DEF Extracts, Output, DeliveryInv, SentIsFiles
<1>3. DeliveryTypes'
  BY <1>1 DEF DeliveryInv, DeliveryTypes
<1>4. RunsCounted' /\ Tidy'
  BY <1>1, <1>2 DEF DeliveryInv, RunsCounted, Tidy
<1>5. SentIsFiles'
  BY <1>1, <1>2 DEF DeliveryInv, SentIsFiles, DeliveryTypes, Run
<1>6. Copies'
  <2> SUFFICES ASSUME NEW b \in Book
               PROVE  /\ delivered'[b] <= lateFailures + IF b \in sent' THEN 1 ELSE 0
                      /\ b \in sent' => delivered'[b] > 0
    BY <1>1 DEF Copies, Run
  <2>1. /\ delivered[b] \in Nat /\ lateFailures \in Nat
        /\ delivered[b] <= lateFailures + IF b \in sent THEN 1 ELSE 0
        /\ b \in sent => delivered[b] > 0
    BY DEF DeliveryInv, DeliveryTypes, Copies, Run
  <2> QED BY <1>1, <2>1
<1>7. Source' /\ SuccessIsTidy'
  BY <1>1, <1>2 DEF Source, DeliveryInv, SuccessIsTidy
<1> QED BY <1>3, <1>4, <1>5, <1>6, <1>7 DEF DeliveryInv

\* A server that took the message or a file before its error: a copy more than was sent.
LEMMA TakenAnyway ==
  ASSUME DeliveryInv, dpc = "sending", ServerFails, Sending("email") \/ Sending("booklore"),
         NEW s, s \subseteq files, s \cap sent = {}, FileCount(s),
         dpc' = "queued", dresult' = Settled("failed"), lateFailures' = lateFailures + 1
  PROVE  DeliveryInv'
<1>1. /\ delivered' = [b \in Book |-> delivered[b] + IF b \in s THEN 1 ELSE 0]
      /\ made' = {} /\ litter' \subseteq litter \cup made /\ dresult' \in {"failed", "cancelled"}
      /\ UNCHANGED <<order, runs, fetched, retryFrom, dcancel, files, sent>>
  BY DEF ServerFails, FileCount, CleanMade, Settled
<1>2. DeliveryTypes'
  BY <1>1 DEF DeliveryInv, DeliveryTypes
<1>3. RunsCounted' /\ Tidy'
  BY <1>1 DEF DeliveryInv, DeliveryTypes, RunsCounted, Tidy, Run
<1>4. SentIsFiles'
  BY <1>1 DEF SentIsFiles, Run
<1>5. Copies'
  <2> SUFFICES ASSUME NEW b \in Book
               PROVE  /\ delivered'[b] <= lateFailures + 1
                      /\ b \in sent => delivered'[b] > 0
    BY <1>1 DEF Copies, Run, DeliveryInv, DeliveryTypes
  <2>1. /\ delivered[b] \in Nat /\ lateFailures \in Nat
        /\ delivered[b] <= lateFailures + IF b \in sent THEN 1 ELSE 0
        /\ b \in sent => delivered[b] > 0
    BY DEF DeliveryInv, DeliveryTypes, Copies, Run
  <2> QED BY <1>1, <2>1
<1>6. Source' /\ SuccessIsTidy'
  BY <1>1 DEF Source, DeliveryInv, SuccessIsTidy, Run
<1> QED BY <1>2, <1>3, <1>4, <1>5, <1>6 DEF DeliveryInv

\* Before the first run, and between runs.
LEMMA OutsideRuns ==
  ASSUME DeliveryInv, QueueOrder \/ StartDelivery
  PROVE  DeliveryInv'
<1>1. CASE QueueOrder
  <2>1. /\ order' \in Order /\ dpc' = "queued" /\ dpc = "new" /\ dresult = "none"
        /\ UNCHANGED <<dresult, lateFailures, runs, fetched, retryFrom, dcancel, files, sent,
                       delivered, made, litter>>
    BY <1>1 DEF QueueOrder, Step, DeliveryAt, DeliveryInv, SentIsFiles
  <2>2. DeliveryTypes'
    BY <2>1 DEF DeliveryInv, DeliveryTypes
  <2>3. RunsCounted' /\ Tidy' /\ SentIsFiles' /\ Source' /\ SuccessIsTidy'
    BY <2>1 DEF DeliveryInv, RunsCounted, Tidy, SentIsFiles, Source, Run, SuccessIsTidy
  <2>4. Copies'
    BY <2>1 DEF DeliveryInv, Copies, Run
  <2> QED BY <2>2, <2>3, <2>4 DEF DeliveryInv
<1>2. CASE StartDelivery
  <2>1. /\ dpc = "queued" /\ dpc' = "fetched" /\ dresult # "done" /\ runs < DeliveryRuns
        /\ runs' = runs + 1 /\ ~dcancel' /\ dcancel' \in BOOLEAN /\ retryFrom' \in BOOLEAN
        /\ fetched' /\ fetched' \in BOOLEAN /\ files' = {} /\ sent' = {}
        /\ UNCHANGED <<order, delivered, made, litter, dresult, lateFailures>>
    BY <1>2 DEF StartDelivery, Step, DeliveryAt, DeliveryInv, DeliveryTypes
  <2>2. DeliveryTypes'
    BY <2>1, DeliveryAssumption DEF DeliveryInv, DeliveryTypes, Run
  <2>3. RunsCounted' /\ Tidy'
    BY <2>1, DeliveryAssumption DEF DeliveryInv, DeliveryTypes, RunsCounted, Tidy, Run
  <2>4. SentIsFiles' /\ Source' /\ SuccessIsTidy'
    BY <2>1 DEF DeliveryInv, SentIsFiles, Source, Run, SuccessIsTidy
  <2>5. Copies'
    BY <2>1 DEF DeliveryInv, Copies, Run, DeliveryTypes
  <2> QED BY <2>2, <2>3, <2>4, <2>5 DEF DeliveryInv
<1> QED BY <1>1, <1>2

\* A run, up to the delivery.
LEMMA RunSteps ==
  ASSUME DeliveryInv,
         BeginDelivery \/ RouteFolder \/ RouteMail \/ RouteUpload \/ Prepare \/ LastCheck
  PROVE  DeliveryInv'
<1> USE DEF DeliveryAt
<1>1. /\ sent \subseteq files /\ files \subseteq Book
      /\ made \subseteq Directory /\ litter \subseteq Directory
      /\ {fetched, retryFrom, dcancel} \subseteq BOOLEAN
  BY DeliveryAssumption DEF DeliveryInv, DeliveryTypes
<1>2. ASSUME dpc \in Run
      PROVE  /\ fetched
             /\ dpc # "sending" => sent = {}
             /\ dpc \in {"fetched", "route"} => made = {}
             /\ dpc = "prepare" => made \subseteq {"copy"}
             /\ "broken" \in made => Extracts /\ files # Book
  BY <1>2 DEF DeliveryInv, Source, Tidy, SentIsFiles
<1>3. CASE BeginDelivery
  <2>1. /\ dpc \in Run /\ dpc = "fetched" /\ UNCHANGED <<order, runs, dcancel, files, sent, delivered, made, litter>>
        /\ fetched' \in BOOLEAN /\ retryFrom' \in BOOLEAN /\ made = {} /\ sent = {}
    BY <1>1, <1>2, <1>3 DEF BeginDelivery, Run, DropFetched
  <2>2. CASE EndDelivery("cancelled")
    BY <1>1, <1>2, <2>1, <2>2, EndsRun
  <2>3. CASE Step("route") /\ UNCHANGED fetched
    BY <1>1, <1>2, <2>1, <2>3, StepsOn DEF Run
  <2> QED BY <1>3, <2>2, <2>3 DEF BeginDelivery
<1>4. CASE RouteFolder
  <2>1. /\ dpc \in Run /\ dpc = "route" /\ made = {} /\ sent = {} /\ fetched
        /\ UNCHANGED <<order, runs, fetched, retryFrom, dcancel, files, sent, delivered, made, litter>>
    BY <1>2, <1>4 DEF RouteFolder, Run
  <2>2. CASE Step("prepare")
    BY <1>1, <1>2, <2>1, <2>2, StepsOn DEF Run
  <2>3. CASE EndDelivery("failed")
    BY <1>1, <1>2, <2>1, <2>3, EndsRun
  <2> QED BY <1>4, <2>2, <2>3 DEF RouteFolder
<1>5. ASSUME NEW out, RouteTo(out) PROVE DeliveryInv'
  <2>1. /\ dpc \in Run /\ dpc = "route" /\ made = {} /\ sent = {} /\ fetched
        /\ UNCHANGED <<order, runs, fetched, retryFrom, dcancel, files, sent, delivered, litter>>
    BY <1>2, <1>5 DEF RouteTo, Run
  <2>2. CASE Step("prepare") /\ made' = IF Stages THEN {"copy"} ELSE {}
    <3>1. made' \subseteq {"copy"} /\ made' \subseteq Directory /\ "broken" \notin made'
      BY <2>2 DEF Directory
    <3> QED BY <1>1, <1>2, <2>1, <2>2, <3>1, StepsOn DEF Run
  <2>3. CASE EndDelivery("failed") /\ UNCHANGED made
    BY <1>1, <1>2, <2>1, <2>3, EndsRun
  <2>4. CASE EndDelivery("cancelled") /\ UNCHANGED made
    BY <1>1, <1>2, <2>1, <2>4, EndsRun
  <2> QED BY <1>5, <2>2, <2>3, <2>4 DEF RouteTo
<1>6. CASE Prepare
  <2>1. /\ dpc \in Run /\ dpc = "prepare" /\ sent = {} /\ made \subseteq {"copy"} /\ fetched
        /\ UNCHANGED <<order, runs, fetched, retryFrom, dcancel, sent, delivered>>
    BY <1>2, <1>6 DEF Prepare, Run
  <2>2. CASE files' \in Scanned /\ Step("ready") /\ UNCHANGED litter
             /\ \E dirs \in Opened(files') : made' = made \cup dirs
    <3>1. files' \subseteq Book
      BY <2>2 DEF Scanned
    <3>2. PICK dirs \in Opened(files') : made' = made \cup dirs
      BY <2>2
    <3>3. dirs \subseteq {"extracted", "broken"} /\ ("broken" \in dirs => Extracts /\ files' # Book)
      BY DEF Opened
    <3>4. made' \subseteq Directory /\ ("broken" \in made' => Extracts /\ files' # Book)
      BY <2>1, <3>2, <3>3 DEF Directory
    <3> QED BY <1>1, <1>2, <2>1, <2>2, <3>1, <3>4, StepsOn DEF Run
  <2>3. CASE /\ made' = {} /\ UNCHANGED files
             /\ \E dirs \in SUBSET Directory :
                  /\ ~Extracts => dirs = {}
                  /\ litter' = litter \cup made \cup (dirs \ {"copy"})
             /\ EndDelivery("failed")
    <3>1. litter' \subseteq Directory
      BY <1>1, <2>3
    <3> QED BY <1>1, <1>2, <2>1, <2>3, <3>1, EndsRun
  <2> QED BY <1>6, <2>2, <2>3 DEF Prepare
<1>7. CASE LastCheck
  <2>1. /\ dpc \in Run /\ dpc = "ready" /\ sent = {} /\ fetched /\ fetched' \in BOOLEAN
        /\ UNCHANGED <<order, runs, retryFrom, dcancel, files, sent, delivered>>
    BY <1>1, <1>2, <1>7 DEF LastCheck, Run, DropFetched
  <2>2. CASE EndDelivery("cancelled") /\ CleanMade
    BY <1>1, <1>2, <2>1, <2>2, EndsRun DEF CleanMade
  <2>3. CASE Step("sending") /\ UNCHANGED <<made, litter, fetched>>
    BY <1>1, <1>2, <2>1, <2>3, StepsOn DEF Run
  <2>4. CASE EndDelivery("failed") /\ CleanMade /\ UNCHANGED fetched
    BY <1>1, <1>2, <2>1, <2>4, EndsRun DEF CleanMade
  <2> QED BY <1>7, <2>2, <2>3, <2>4 DEF LastCheck
<1> QED BY <1>3, <1>4, <1>5, <1>6, <1>7 DEF RouteMail, RouteUpload

\* The delivery and its end.
LEMMA SendingSteps ==
  ASSUME DeliveryInv,
         \/ TransferFile \/ TransferFails \/ SendMail \/ UploadFile \/ UploadCancelled
         \/ ServerFails \/ ScriptFails \/ FinishDelivery
  PROVE  DeliveryInv'
<1> USE DEF DeliveryAt
<1>1. /\ sent \subseteq files /\ files \subseteq Book
      /\ made \subseteq Directory /\ litter \subseteq Directory
      /\ fetched \in BOOLEAN /\ retryFrom \in BOOLEAN
  BY DeliveryAssumption DEF DeliveryInv, DeliveryTypes
<1>2. dpc = "sending" /\ dpc \in Run
  BY DEF TransferFile, TransferFails, SendMail, UploadFile, UploadCancelled, ServerFails,
    ScriptFails, FinishDelivery, Sending, Run
<1>3. fetched /\ (Output = "email" => sent = {} \/ sent = files)
  BY <1>2 DEF DeliveryInv, Source, SentIsFiles
<1>4. ASSUME EndDelivery("failed") \/ EndDelivery("cancelled"), CleanMade \/ LeaveMade,
             UNCHANGED <<order, runs, fetched, retryFrom, dcancel, files, sent, delivered>>
      PROVE  DeliveryInv'
  <2>1. made' = {} /\ litter' \subseteq Directory
    BY <1>1, <1>3, <1>4 DEF CleanMade, LeaveMade
  <2> QED BY <1>1, <1>2, <1>3, <1>4, <2>1, EndsRun
<1>5. CASE TransferFile
  <2>1. PICK b \in files \ sent : Deliver({b})
    BY <1>5 DEF TransferFile
  <2>2. Output # "email"
    BY <1>5 DEF TransferFile, Sending
  <2> QED BY <1>2, <2>1, <2>2, Delivers
<1>6. CASE TransferFails
  BY <1>4, <1>6 DEF TransferFails
<1>7. CASE SendMail
  <2>1. sent = {} /\ Deliver(files)
    BY <1>3, <1>7 DEF SendMail, Sending
  <2> QED BY <1>2, <2>1, Delivers
<1>8. CASE UploadFile
  <2>1. PICK b \in files \ sent : Deliver({b})
    BY <1>8 DEF UploadFile
  <2>2. Output # "email"
    BY <1>8 DEF UploadFile, Sending
  <2> QED BY <1>2, <2>1, <2>2, Delivers
<1>9. CASE UploadCancelled
  BY <1>4, <1>9 DEF UploadCancelled
<1>10. CASE ServerFails
  <2>1. CASE EndDelivery("failed") /\ UNCHANGED delivered
    BY <1>4, <1>10, <2>1 DEF ServerFails
  <2>2. CASE /\ dpc' = "queued" /\ dresult' = Settled("failed") /\ lateFailures' = lateFailures + 1
             /\ IF Output = "email" THEN FileCount(files) ELSE \E b \in files \ sent : FileCount({b})
    <3>1. Sending("email") \/ Sending("booklore")
      BY <1>10 DEF ServerFails
    <3>2. CASE Output = "email"
      <4>1. sent = {}
        BY <1>3, <3>1, <3>2 DEF Sending
      <4> QED BY <1>2, <1>10, <2>2, <3>1, <3>2, <4>1, TakenAnyway
    <3>3. CASE Output # "email"
      <4>1. PICK b \in files \ sent : FileCount({b})
        BY <2>2, <3>3
      <4> QED BY <1>2, <1>10, <2>2, <3>1, <4>1, TakenAnyway
    <3> QED BY <3>2, <3>3
  <2> QED BY <1>10, <2>1, <2>2 DEF ServerFails
<1>11. CASE ScriptFails
  BY <1>4, <1>11 DEF ScriptFails
<1>12. CASE FinishDelivery
  <2>1. /\ EndDelivery("done") /\ CleanMade /\ ~retryFrom' /\ retryFrom' \in BOOLEAN
        /\ fetched' \in BOOLEAN /\ sent = files
        /\ UNCHANGED <<order, runs, dcancel, files, sent, delivered>>
    BY <1>1, <1>12 DEF FinishDelivery, DropFetched
  <2> QED BY <1>1, <1>2, <1>3, <2>1, EndsRun DEF CleanMade
<1> QED BY <1>5, <1>6, <1>7, <1>8, <1>9, <1>10, <1>11, <1>12

\* Every step keeps the invariant.
LEMMA DeliveryInvStep == DeliveryInv /\ [DeliveryNext]_deliveryVars => DeliveryInv'
<1> SUFFICES ASSUME DeliveryInv, [DeliveryNext]_deliveryVars PROVE DeliveryInv'
  OBVIOUS
<1>1. CASE CancelDelivery
  <2>1. /\ dcancel' /\ dcancel' \in BOOLEAN
        /\ UNCHANGED <<order, dpc, dresult, runs, fetched, retryFrom, files, sent, delivered,
                       made, litter, lateFailures>>
    BY <1>1 DEF CancelDelivery
  <2> QED BY <2>1 DEF DeliveryInv, DeliveryTypes, RunsCounted, SentIsFiles, Copies, Source,
        SuccessIsTidy, Tidy, Extracts, Output
<1>2. CASE UNCHANGED deliveryVars
  BY <1>2 DEF deliveryVars, DeliveryInv, DeliveryTypes, RunsCounted, SentIsFiles, Copies, Source,
        SuccessIsTidy, Tidy, Extracts, Output
<1> QED BY <1>1, <1>2, OutsideRuns, RunSteps, SendingSteps DEF DeliveryNext

\* The invariant holds at the start.
LEMMA DeliveryInvInit == DeliveryInit => DeliveryInv
<1> SUFFICES ASSUME DeliveryInit PROVE DeliveryInv
  OBVIOUS
<1>1. DeliveryTypes
  <2>1. 0 \in 0 .. DeliveryRuns
    BY DeliveryAssumption
  <2>2. delivered \in [Book -> Nat]
    BY DEF DeliveryInit
  <2>3. /\ order \in Order \cup {NoOrder} /\ dpc \in Run \cup {"new", "queued"}
        /\ dresult \in {"none", "done", "failed", "cancelled"}
        /\ sent \subseteq files /\ files \subseteq Book
    BY DEF DeliveryInit
  <2> QED BY <2>1, <2>2, <2>3 DEF DeliveryInit, DeliveryTypes
<1>2. RunsCounted /\ Tidy
  BY DEF DeliveryInit, RunsCounted, Tidy, Run
<1>3. SentIsFiles /\ Source /\ SuccessIsTidy
  BY DEF DeliveryInit, SentIsFiles, Source, SuccessIsTidy, Run
<1>4. Copies
  BY DEF DeliveryInit, Copies, Run
<1> QED BY <1>1, <1>2, <1>3, <1>4 DEF DeliveryInv

\* Copies, directories and what a retry starts from are accounted for over all runs.
THEOREM DeliveryInvariant == DeliverySpec => []DeliveryInv
<1>1. DeliveryInit => DeliveryInv
  BY DeliveryInvInit
<1>2. DeliveryInv /\ [DeliveryNext]_deliveryVars => DeliveryInv'
  BY DeliveryInvStep
<1> QED BY <1>1, <1>2, PTL DEF DeliverySpec

\* The types, and with them the bound on broken runs.
THEOREM DeliveryTyped == DeliverySpec => []DeliveryTypeOK
<1>1. DeliveryInv => DeliveryTypeOK
  <2> SUFFICES ASSUME DeliveryInv PROVE DeliveryTypeOK
    OBVIOUS
  <2>1. runs \in Nat /\ lateFailures \in Nat /\ lateFailures <= runs
    BY DeliveryAssumption DEF DeliveryInv, DeliveryTypes, RunsCounted
  <2> QED BY <2>1 DEF DeliveryInv, DeliveryTypes, Run, DeliveryTypeOK
<1> QED BY <1>1, DeliveryInvariant, PTL

\* Over all runs of a task: success is all of the release that could be read, a second copy
\* comes of a run that broke off late, what a retry starts from is there, and a first run
\* that succeeds leaves no directory but that of an archive it could not extract.
THEOREM DeliveryRetriesAddUp == DeliverySpec => []RetriesAddUp
<1>1. DeliveryInv => RetriesAddUp
  <2> SUFFICES ASSUME DeliveryInv PROVE RetriesAddUp
    OBVIOUS
  <2>1. DuplicatesFromLateFailures
    BY DEF DeliveryInv, DeliveryTypes, Copies, DuplicatesFromLateFailures
  <2>2. RetryHasItsSource
    BY DEF DeliveryInv, Source, RetryHasItsSource
  <2>3. DoneIsWhole
    BY DEF DeliveryInv, SentIsFiles, Copies, DoneIsWhole, DeliveryTypes
  <2> QED BY <2>1, <2>2, <2>3 DEF DeliveryInv, RetriesAddUp
<1> QED BY <1>1, DeliveryInvariant, PTL

-----------------------------------------------------------------------------
(* ActivityView *)

(***************************************************************************)
(* The inductive invariant: types; a request that was made, and not        *)
(* deleted with its user, has an owner who exists; and what nobody has     *)
(* asked for is hidden from nobody, nor in a dismissal under way, so that  *)
(* a new request shows. Each step is proved together with what it may do   *)
(* to a viewer's entries (EntriesFollow).                                  *)
(***************************************************************************)
Hidden == {"shown", "dismissed", "cleared"}
PanelState == [pc : {"idle", "dismiss", "snapshot"}, who : Viewer, items : SUBSET Item,
               early : SUBSET Item, row : LogRow]
ActivityTypes ==
  /\ known \subseteq Reader /\ listed \subseteq Fetched
  /\ log \in [Fetched -> LogRow] /\ wishes \in [Wish -> WishRow]
  /\ shelf \in [Viewer -> [Item -> Hidden]] /\ panel \in PanelState
OwnersKnown == \A q \in Wish : wishes[q].status \notin {"none", "gone"} <=> wishes[q].owner \in known
\* What nobody has asked for is hidden from nobody, nor about to be.
NotHiddenBeforeAsked ==
  \A q \in Wish : wishes[q].status = "none" =>
    /\ \A v \in Viewer : shelf[v][q] = "shown"
    /\ panel.pc = "dismiss" => q \notin panel.early
ActivityInv == ActivityTypes /\ OwnersKnown /\ NotHiddenBeforeAsked

\* What a step may do to a viewer's entry.
ComesHidden(v, i) ==
  Present(v)' /\ Open(i)' /\ shelf'[v][i] # "shown" /\ ~(Open(i) /\ shelf[v][i] # "shown")
ComesAstray(v, i) ==
  /\ Present(v)' /\ shelf'[v][i] = "dismissed" /\ ~Listable(v, i)'
  /\ ~(shelf[v][i] = "dismissed" /\ ~Listable(v, i))
HiddenByRace(v, i) ==
  \/ panel.pc = "dismiss" /\ panel.who = v /\ i \in panel.early
  \/ i \in Wish /\ panel.pc = "snapshot" /\ panel'.pc = "idle"
AstrayByRace(v, i) ==
  \/ i \in Fetched /\ log[i].status # "none" /\ log'[i].status = "none"
  \/ panel.pc = "dismiss" /\ panel.who = v /\ i \in panel.early
EntriesFollow ==
  \A v \in Viewer, i \in Item :
    (ComesHidden(v, i) => HiddenByRace(v, i)) /\ (ComesAstray(v, i) => AstrayByRace(v, i))

\* The rows a download, a request and the panel start from.
LEMMA RowFacts ==
  /\ NoLogRow \in LogRow /\ NoLogRow.status = "none" /\ NoLogRow.owner = NoReader
  /\ NoWishRow \in WishRow /\ GoneWishRow \in WishRow /\ GoneWishRow.status = "gone"
  /\ NoWishRow.status = "none" /\ NoWishRow.owner = NoReader /\ GoneWishRow.owner = NoReader
  /\ Resting \in PanelState /\ Resting.pc = "idle" /\ Resting.early = {} /\ Resting.items = {}
  /\ Reader \subseteq Viewer /\ Admins \in Viewer /\ NoReader \notin Viewer
BY ActivityAssumption DEF ActivityAssumption, NoLogRow, NoWishRow, GoneWishRow, LogRow, WishRow, Ended,
  Resting, PanelState, Viewer

\* The views after all of them have been shown some items again.
LEMMA ShownAgain ==
  ASSUME ActivityTypes, NEW items
  PROVE  /\ ShownToAll(items) \in [Viewer -> [Item -> Hidden]]
         /\ \A v \in Viewer, i \in Item :
              ShownToAll(items)[v][i] = IF i \in items THEN "shown" ELSE shelf[v][i]
BY DEF ActivityTypes, ShownToAll, Hidden

\* A step that hides nothing new, from nobody, and leaves every row that was listable so.
LEMMA Undisturbed ==
  ASSUME ActivityInv,
         \A v \in Viewer, i \in Item : Present(v)' => Present(v),
         \A v \in Viewer, i \in Item :
           Present(v)' => \/ shelf'[v][i] = "shown"
                          \/ /\ shelf'[v][i] = shelf[v][i] \/ (shelf[v][i] # "shown" /\ shelf'[v][i] = "cleared")
                             /\ Open(i)' => Open(i)
                             /\ Listable(v, i) => Listable(v, i)' \/ AstrayByRace(v, i)
  PROVE  EntriesFollow
<1> SUFFICES ASSUME NEW v \in Viewer, NEW i \in Item
             PROVE  ~ComesHidden(v, i) /\ (ComesAstray(v, i) => AstrayByRace(v, i))
  BY DEF EntriesFollow
<1>1. CASE ~Present(v)' BY <1>1 DEF ComesHidden, ComesAstray
<1>2. CASE shelf'[v][i] = "shown" BY <1>2 DEF ComesHidden, ComesAstray
<1>3. CASE /\ shelf'[v][i] = shelf[v][i] \/ (shelf[v][i] # "shown" /\ shelf'[v][i] = "cleared")
           /\ Open(i)' => Open(i)
           /\ Listable(v, i) => Listable(v, i)' \/ AstrayByRace(v, i)
  BY <1>3 DEF ComesHidden, ComesAstray
<1> QED BY <1>1, <1>2, <1>3

\* A download is recorded: its row is the viewers' again.
LEMMA Recorded ==
  ASSUME ActivityInv, NEW d \in Fetched, NEW u \in Reader, NEW q \in Wish \cup {NoWish},
         Record(d, u, q), Queueable(d), UNCHANGED <<known, panel>>,
         q = NoWish => UNCHANGED wishes,
         q \in Wish => /\ wishes[q].status = "pending"
                       /\ wishes' = [wishes EXCEPT ![q].status = "fulfilled", ![q].delivery = "active"]
  PROVE  ActivityInv' /\ EntriesFollow
<1>1. ActivityTypes /\ OwnersKnown /\ NotHiddenBeforeAsked
  BY DEF ActivityInv
<1>2. /\ listed' = listed \cup {d} /\ shelf' = ShownToAll({d, q})
      /\ log' = [log EXCEPT ![d] = IF @.status = "none" THEN [status |-> "active", owner |-> u, wish |-> q]
                                   ELSE [@ EXCEPT !.status = "active"]]
  BY DEF Record
<1>3. /\ shelf' \in [Viewer -> [Item -> Hidden]]
      /\ \A v \in Viewer, i \in Item : shelf'[v][i] = IF i \in {d, q} THEN "shown" ELSE shelf[v][i]
  BY <1>1, <1>2, ShownAgain
<1>4. /\ log' \in [Fetched -> LogRow] /\ \A x \in Fetched \ {d} : log'[x] = log[x]
  <2>1. log[d] \in LogRow
    BY <1>1 DEF ActivityTypes
  <2>2. [status |-> "active", owner |-> u, wish |-> q] \in LogRow /\ [log[d] EXCEPT !.status = "active"] \in LogRow
    BY <2>1 DEF LogRow, Ended
  <2> QED BY <1>1, <1>2, <2>2 DEF ActivityTypes
<1>5. /\ wishes' \in [Wish -> WishRow] /\ \A x \in Wish \ {q} : wishes'[x] = wishes[x]
      /\ \A x \in Wish : wishes'[x].owner = wishes[x].owner
      /\ q \in Wish => wishes[q].status = "pending" /\ wishes'[q].status = "fulfilled"
  <2>1. CASE q = NoWish
    BY <1>1, <2>1, ActivityAssumption DEF ActivityAssumption, ActivityTypes
  <2>2. CASE q \in Wish
    <3>1. wishes[q] \in WishRow
      BY <1>1, <2>2 DEF ActivityTypes
    <3>2. /\ wishes' = [wishes EXCEPT ![q] = [wishes[q] EXCEPT !.status = "fulfilled", !.delivery = "active"]]
          /\ wishes[q].status = "pending"
      BY <2>2
    <3> DEFINE w == [wishes[q] EXCEPT !.status = "fulfilled", !.delivery = "active"]
    <3>3. w \in WishRow /\ w.owner = wishes[q].owner /\ w.status = "fulfilled"
      BY <3>1 DEF WishRow
    <3> HIDE DEF w
    <3> QED BY <1>1, <2>2, <3>2, <3>3 DEF ActivityTypes, w
  <2> QED BY <2>1, <2>2
<1>6. ActivityTypes'
  BY <1>1, <1>2, <1>3, <1>4, <1>5 DEF ActivityTypes
<1>7. OwnersKnown'
  BY <1>1, <1>5 DEF OwnersKnown
<1>8. NotHiddenBeforeAsked'
  BY <1>1, <1>3, <1>5, ActivityAssumption DEF NotHiddenBeforeAsked, Item, ActivityAssumption
<1>9. ASSUME NEW v \in Viewer, NEW i \in Item, i \notin {d, q}
      PROVE  /\ shelf'[v][i] = shelf[v][i] /\ Open(i)' = Open(i) /\ RowOf(i)' = RowOf(i)
  <2>1. CASE i \in Fetched
    BY <1>2, <1>3, <1>4, <1>9, <2>1 DEF Open, Live, RowOf
  <2>2. CASE i \notin Fetched
    BY <1>3, <1>5, <1>9, <2>2 DEF Open, RowOf, Item
  <2> QED BY <2>1, <2>2
<1>10. EntriesFollow
  <2>1. \A v \in Viewer : Present(v)' = Present(v)
    BY DEF Present
  <2>2. ASSUME NEW v \in Viewer, NEW i \in Item
        PROVE  \/ shelf'[v][i] = "shown"
               \/ /\ shelf'[v][i] = shelf[v][i] \/ (shelf[v][i] # "shown" /\ shelf'[v][i] = "cleared")
                  /\ Open(i)' => Open(i)
                  /\ Listable(v, i) => Listable(v, i)' \/ AstrayByRace(v, i)
    BY <1>3, <1>9 DEF Listable, Owns
  <2> QED BY <2>1, <2>2, Undisturbed
<1> QED BY <1>6, <1>7, <1>8, <1>10 DEF ActivityInv

\* One row of the requests is replaced by one of the same owner, that a view shows or
\* that was open if it is open now.
LEMMA OneWish ==
  ASSUME ActivityInv, NEW q \in Wish, NEW w \in WishRow, wishes' = [wishes EXCEPT ![q] = w],
         UNCHANGED <<known, log, listed, shelf, panel>>,
         w.status \notin {"none", "gone"}, w.owner \in known,
         \/ wishes[q].status = "none"
         \/ wishes[q].owner = w.owner /\ w.status # "pending"
  PROVE  ActivityInv' /\ EntriesFollow
<1>1. ActivityTypes /\ OwnersKnown /\ NotHiddenBeforeAsked
  BY DEF ActivityInv
<1>2. wishes' \in [Wish -> WishRow] /\ wishes'[q] = w /\ \A x \in Wish \ {q} : wishes'[x] = wishes[x]
  BY <1>1 DEF ActivityTypes
<1>3. ActivityTypes'
  BY <1>1, <1>2 DEF ActivityTypes
<1>4. OwnersKnown'
  BY <1>1, <1>2 DEF OwnersKnown
<1>5. NotHiddenBeforeAsked'
  BY <1>1, <1>2 DEF NotHiddenBeforeAsked
<1>6. ASSUME NEW v \in Viewer, NEW i \in Item
      PROVE  \/ shelf'[v][i] = "shown"
             \/ /\ shelf'[v][i] = shelf[v][i]
                /\ Open(i)' => Open(i)
                /\ Listable(v, i) => Listable(v, i)'
  <2>1. CASE i \in Fetched
    BY <2>1 DEF Open, Live, RowOf, Listable, Owns
  <2>2. CASE i \notin Fetched /\ i # q
    BY <1>2, <2>2 DEF Open, RowOf, Listable, Owns, Item
  <2>3. CASE i \notin Fetched /\ i = q
    <3>1. Open(i)' <=> w.status = "pending"
      BY <1>2, <2>3 DEF Open
    <3>2. /\ Listable(v, i) <=> wishes[q].status \notin {"none", "gone"} /\ Owns(v, wishes[q])
          /\ Listable(v, i)' <=> Owns(v, w)
      BY <1>2, <2>3 DEF Listable, RowOf, Owns
    <3> QED BY <1>1, <2>3, <3>1, <3>2 DEF NotHiddenBeforeAsked, Owns
  <2> QED BY <2>1, <2>2, <2>3
<1>7. \A v \in Viewer : Present(v)' => Present(v)
  BY DEF Present
<1>8. EntriesFollow
  BY <1>6, <1>7, Undisturbed
<1> QED BY <1>3, <1>4, <1>5, <1>8 DEF ActivityInv

\* Somebody asks.
LEMMA AskStep == ASSUME ActivityInv, NEW q \in Wish, NEW u \in Reader, AskFor(q, u)
                 PROVE  ActivityInv' /\ EntriesFollow
<1> DEFINE w == [status |-> "pending", owner |-> u, delivery |-> "none"]
<1>1. w \in WishRow /\ w.status = "pending" /\ w.owner = u
  BY DEF WishRow
<1>2. /\ wishes' = [wishes EXCEPT ![q] = w] /\ UNCHANGED <<known, log, listed, shelf, panel>>
      /\ u \in known /\ wishes[q].status = "none"
  BY DEF AskFor
<1> HIDE DEF w
<1> QED BY <1>1, <1>2, OneWish

\* A request is rejected or cancelled.
LEMMA RefuseStep == ASSUME ActivityInv, NEW q \in Wish, Refuse(q)
                    PROVE  ActivityInv' /\ EntriesFollow
<1> DEFINE w == [wishes[q] EXCEPT !.status = "refused"]
<1>1. wishes[q] \in WishRow /\ wishes[q].status = "pending" /\ wishes[q].owner \in known
  BY DEF ActivityInv, ActivityTypes, OwnersKnown, Refuse
<1>2. w \in WishRow /\ w.status = "refused" /\ w.owner = wishes[q].owner
  BY <1>1 DEF WishRow
<1>3. wishes' = [wishes EXCEPT ![q] = w] /\ UNCHANGED <<known, log, listed, shelf, panel>>
  BY DEF Refuse
<1> HIDE DEF w
<1> QED BY <1>1, <1>2, <1>3, OneWish

\* A download is queued, of its own accord or for a request.
LEMMA QueueStep == ASSUME ActivityInv, NEW d \in Fetched, NEW u \in Reader, QueueDirect(d, u)
                   PROVE  ActivityInv' /\ EntriesFollow
<1>1. /\ Queueable(d) /\ Record(d, u, NoWish) /\ UNCHANGED <<known, wishes, panel>>
  BY DEF QueueDirect
<1> QED BY <1>1, Recorded, ActivityAssumption DEF ActivityAssumption

\* A request is fulfilled.
LEMMA FulfilStep == ASSUME ActivityInv, NEW d \in Fetched, NEW q \in Wish, Fulfil(q, d)
                    PROVE  ActivityInv' /\ EntriesFollow
<1>1. /\ Queueable(d) /\ Record(d, wishes[q].owner, q) /\ UNCHANGED <<known, panel>>
      /\ wishes[q].status = "pending"
      /\ wishes' = [wishes EXCEPT ![q].status = "fulfilled", ![q].delivery = "active"]
  BY DEF Fulfil
<1>2. wishes[q].owner \in Reader
  BY <1>1 DEF ActivityInv, ActivityTypes, OwnersKnown
<1>3. q # NoWish
  BY ActivityAssumption DEF ActivityAssumption
<1> QED BY <1>1, <1>2, <1>3, Recorded

\* A download ends, and a failure that cannot be retried reopens its request.
LEMMA FinishStep == ASSUME ActivityInv, NEW d \in Fetched, NEW s \in Ended, NEW retry \in BOOLEAN,
                           FinishItem(d, s, retry)
                    PROVE  ActivityInv' /\ EntriesFollow
<1> DEFINE q == log[d].wish
           again == s = "error" /\ ~retry /\ Reopens(q)
<1>1. ActivityTypes /\ OwnersKnown /\ NotHiddenBeforeAsked
  BY DEF ActivityInv
<1>2. /\ Live(d) /\ log' = [log EXCEPT ![d].status = s]
      /\ wishes' = IF again THEN [wishes EXCEPT ![q] = PendingAgain(q)] ELSE wishes
      /\ shelf' = IF again THEN ShownToAll({q}) ELSE shelf
      /\ UNCHANGED <<known, listed, panel>>
  BY DEF FinishItem
<1>3. log[d] \in LogRow /\ q \in Wish \cup {NoWish} /\ s # "none" /\ s # "active"
  BY <1>1 DEF ActivityTypes, LogRow, Ended
<1>4. again => q \in Wish /\ wishes[q].status = "fulfilled"
  BY <1>3 DEF Reopens
<1>5. /\ log' \in [Fetched -> LogRow] /\ \A x \in Fetched \ {d} : log'[x] = log[x]
      /\ log'[d].status = s /\ log'[d].owner = log[d].owner
  <2>1. [log[d] EXCEPT !.status = s] \in LogRow
    BY <1>3 DEF LogRow
  <2>2. /\ [log[d] EXCEPT !.status = s].status = s /\ [log[d] EXCEPT !.status = s].owner = log[d].owner
    BY <1>3 DEF LogRow
  <2>3. log' = [log EXCEPT ![d] = [log[d] EXCEPT !.status = s]]
    BY <1>2
  <2> DEFINE r == [log[d] EXCEPT !.status = s]
  <2> HIDE DEF r
  <2> QED BY <1>1, <2>1, <2>2, <2>3 DEF ActivityTypes, r
<1>6. /\ wishes' \in [Wish -> WishRow] /\ \A x \in Wish : ~(again /\ x = q) => wishes'[x] = wishes[x]
      /\ \A x \in Wish : wishes'[x].owner = wishes[x].owner
      /\ again => wishes'[q].status = "pending"
  <2>1. CASE ~again
    BY <1>1, <1>2, <2>1 DEF ActivityTypes
  <2>2. CASE again
    <3>1. wishes[q] \in WishRow
      BY <1>1, <1>4, <2>2 DEF ActivityTypes
    <3>2. /\ PendingAgain(q) \in WishRow /\ PendingAgain(q).owner = wishes[q].owner
          /\ PendingAgain(q).status = "pending"
      BY <3>1 DEF PendingAgain, WishRow
    <3>3. wishes' = [wishes EXCEPT ![q] = PendingAgain(q)]
      BY <1>2, <2>2
    <3> QED BY <1>1, <1>4, <2>2, <3>2, <3>3 DEF ActivityTypes
  <2> QED BY <2>1, <2>2
<1>7. /\ shelf' \in [Viewer -> [Item -> Hidden]]
      /\ \A v \in Viewer, i \in Item : shelf'[v][i] = IF again /\ i = q THEN "shown" ELSE shelf[v][i]
  <2>1. CASE again
    BY <1>1, <1>2, <2>1, ShownAgain
  <2>2. CASE ~again
    BY <1>1, <1>2, <2>2 DEF ActivityTypes
  <2> QED BY <2>1, <2>2
<1> HIDE DEF q, again
<1>8. ActivityTypes'
  BY <1>1, <1>2, <1>5, <1>6, <1>7 DEF ActivityTypes
<1>9. OwnersKnown'
  BY <1>1, <1>2, <1>4, <1>6 DEF OwnersKnown
<1>10. NotHiddenBeforeAsked'
  <2> SUFFICES ASSUME NEW x \in Wish, wishes'[x].status = "none"
               PROVE  /\ \A v \in Viewer : shelf'[v][x] = "shown"
                      /\ panel'.pc = "dismiss" => x \notin panel'.early
    BY DEF NotHiddenBeforeAsked
  <2>1. ~(again /\ x = q) /\ wishes[x].status = "none"
    BY <1>6
  <2>2. \A v \in Viewer : shelf'[v][x] = shelf[v][x]
    BY <1>7, <2>1 DEF Item
  <2> QED BY <1>1, <1>2, <2>1, <2>2 DEF NotHiddenBeforeAsked
<1>11. ASSUME NEW v \in Viewer, NEW i \in Item
       PROVE  \/ shelf'[v][i] = "shown"
              \/ /\ shelf'[v][i] = shelf[v][i]
                 /\ Open(i)' => Open(i)
                 /\ Listable(v, i) => Listable(v, i)'
  <2>1. CASE again /\ i = q
    BY <1>7, <2>1
  <2>2. CASE ~(again /\ i = q) /\ i \in Fetched /\ i = d
    <3>1. shelf'[v][i] = shelf[v][i]
      BY <1>7, <2>2
    <3>2. ~Open(i)'
      BY <1>3, <1>5, <2>2 DEF Open, Live
    <3>3. Listable(v, i) <=> log[i].status \notin {"none", "gone"} /\ Owns(v, log[i])
      BY <2>2 DEF Listable, RowOf
    <3>4. Listable(v, i)' <=> log'[i].status \notin {"none", "gone"} /\ Owns(v, log[i])
      BY <1>5, <2>2 DEF Listable, RowOf, Owns
    <3>5. s # "gone"
      BY DEF Ended
    <3> QED BY <1>3, <1>5, <2>2, <3>1, <3>2, <3>3, <3>4, <3>5
  <2>3. CASE ~(again /\ i = q) /\ i \in Fetched /\ i # d
    BY <1>2, <1>5, <1>7, <2>3 DEF Open, Live, Listable, RowOf, Owns
  <2>4. CASE ~(again /\ i = q) /\ i \notin Fetched
    BY <1>6, <1>7, <2>4 DEF Open, Listable, RowOf, Owns, Item
  <2> QED BY <2>1, <2>2, <2>3, <2>4
<1>12. EntriesFollow
  <2>1. \A v \in Viewer : Present(v)' => Present(v)
    BY <1>2 DEF Present
  <2> QED BY <1>11, <2>1, Undisturbed
<1> QED BY <1>8, <1>9, <1>10, <1>12 DEF ActivityInv

\* The queue forgets tasks: nothing becomes open.
LEMMA ForgetStep == ASSUME ActivityInv, listed' \subseteq listed, UNCHANGED <<known, log, wishes, shelf>>,
                           panel' = panel \/ panel' = Resting
                    PROVE  ActivityInv' /\ EntriesFollow
<1>1. ActivityTypes /\ OwnersKnown /\ NotHiddenBeforeAsked
  BY DEF ActivityInv
<1>2. ActivityTypes'
  BY <1>1, RowFacts DEF ActivityTypes
<1>3. OwnersKnown' /\ NotHiddenBeforeAsked'
  BY <1>1, RowFacts DEF OwnersKnown, NotHiddenBeforeAsked
<1>4. \A v \in Viewer, i \in Item :
        (Present(v)' => Present(v)) /\ (Open(i)' => Open(i)) /\ (Listable(v, i) => Listable(v, i)')
  BY DEF Present, Open, Live, Listable, RowOf, Owns
<1>5. EntriesFollow
  BY <1>4, Undisturbed
<1> QED BY <1>2, <1>3, <1>5 DEF ActivityInv

\* The library deletes a row: the one way an entry's download may go under it.
LEMMA DeleteStep == ASSUME ActivityInv, NEW d \in Fetched, LibraryDelete(d)
                    PROVE  ActivityInv' /\ EntriesFollow
<1>1. ActivityTypes /\ OwnersKnown /\ NotHiddenBeforeAsked
  BY DEF ActivityInv
<1>2. /\ log[d].status # "none" /\ log' = [log EXCEPT ![d] = NoLogRow]
      /\ UNCHANGED <<known, listed, wishes, shelf, panel>>
  BY DEF LibraryDelete
<1>3. log' \in [Fetched -> LogRow] /\ log'[d] = NoLogRow /\ \A x \in Fetched \ {d} : log'[x] = log[x]
  BY <1>1, <1>2, RowFacts DEF ActivityTypes
<1>4. ActivityTypes' /\ OwnersKnown' /\ NotHiddenBeforeAsked'
  BY <1>1, <1>2, <1>3 DEF ActivityTypes, OwnersKnown, NotHiddenBeforeAsked
<1>5. ASSUME NEW v \in Viewer, NEW i \in Item
      PROVE  (Open(i)' => Open(i)) /\ (Listable(v, i) => Listable(v, i)' \/ AstrayByRace(v, i))
  <2>1. CASE i = d
    BY <1>2, <1>3, <2>1, RowFacts DEF Open, Live, AstrayByRace
  <2>2. CASE i # d
    BY <1>2, <1>3, <2>2 DEF Open, Live, Listable, RowOf, Owns
  <2> QED BY <2>1, <2>2
<1>6. \A v \in Viewer : Present(v)' => Present(v)
  BY <1>2 DEF Present
<1>7. EntriesFollow
  BY <1>2, <1>5, <1>6, Undisturbed
<1> QED BY <1>4, <1>7 DEF ActivityInv

\* A user is deleted, with the requests and the view, and the downloads lose their owner.
LEMMA UserStep == ASSUME ActivityInv, NEW u \in Reader, DeleteUser(u)
                  PROVE  ActivityInv' /\ EntriesFollow
<1> DEFINE own == {q \in Wish : wishes[q].owner = u}
<1>1. ActivityTypes /\ OwnersKnown /\ NotHiddenBeforeAsked
  BY DEF ActivityInv
<1>2. /\ u \in known /\ known' = known \ {u} /\ UNCHANGED <<listed, panel>>
      /\ wishes' = [q \in Wish |-> IF q \in own THEN GoneWishRow ELSE wishes[q]]
      /\ log' = [d \in Fetched |-> IF log[d].owner = u THEN [log[d] EXCEPT !.owner = NoReader] ELSE log[d]]
      /\ shelf' = [ShownToAll(own) EXCEPT ![u] = [i \in Item |-> "shown"]]
  BY DEF DeleteUser
<1>3. /\ wishes' \in [Wish -> WishRow] /\ \A q \in own : wishes'[q] = GoneWishRow
      /\ \A q \in Wish \ own : wishes'[q] = wishes[q] /\ wishes[q].owner # u
  BY <1>1, <1>2, RowFacts DEF ActivityTypes
<1>4. /\ log' \in [Fetched -> LogRow]
      /\ \A d \in Fetched : /\ log'[d].status = log[d].status
                            /\ log[d].owner # u => log'[d] = log[d]
  <2>1. ASSUME NEW d \in Fetched
        PROVE  /\ log'[d] \in LogRow /\ log'[d].status = log[d].status
               /\ log[d].owner # u => log'[d] = log[d]
    <3>1. log[d] \in LogRow /\ NoReader \in Reader \cup {NoReader}
      BY <1>1 DEF ActivityTypes
    <3>2. /\ [log[d] EXCEPT !.owner = NoReader] \in LogRow
          /\ [log[d] EXCEPT !.owner = NoReader].status = log[d].status
      BY <3>1 DEF LogRow
    <3>3. log'[d] = IF log[d].owner = u THEN [log[d] EXCEPT !.owner = NoReader] ELSE log[d]
      BY <1>2
    <3> QED BY <3>1, <3>2, <3>3
  <2>2. log' = [d \in Fetched |-> log'[d]]
    BY <1>2
  <2> QED BY <2>1, <2>2
<1>5. /\ shelf' \in [Viewer -> [Item -> Hidden]]
      /\ \A v \in Viewer, i \in Item :
           shelf'[v][i] = IF v = u \/ i \in own THEN "shown" ELSE shelf[v][i]
  <2> DEFINE all == ShownToAll(own)
  <2>1. /\ all \in [Viewer -> [Item -> Hidden]]
        /\ \A v \in Viewer, i \in Item : all[v][i] = IF i \in own THEN "shown" ELSE shelf[v][i]
    BY <1>1, ShownAgain
  <2>2. shelf' = [all EXCEPT ![u] = [i \in Item |-> "shown"]] /\ [i \in Item |-> "shown"] \in [Item -> Hidden]
    BY <1>2 DEF Hidden
  <2> HIDE DEF all
  <2> QED BY <2>1, <2>2
<1> HIDE DEF own
<1>6. ActivityTypes'
  BY <1>1, <1>2, <1>3, <1>4, <1>5 DEF ActivityTypes
<1>7. OwnersKnown'
  <2> SUFFICES ASSUME NEW q \in Wish
               PROVE  wishes'[q].status \notin {"none", "gone"} <=> wishes'[q].owner \in known'
    BY DEF OwnersKnown
  <2>1. CASE q \in own
    BY <1>1, <1>2, <1>3, <2>1, RowFacts DEF ActivityTypes, Viewer
  <2>2. CASE q \notin own
    BY <1>1, <1>2, <1>3, <2>2 DEF OwnersKnown
  <2> QED BY <2>1, <2>2
<1>8. NotHiddenBeforeAsked'
  <2> SUFFICES ASSUME NEW q \in Wish, wishes'[q].status = "none"
               PROVE  /\ \A v \in Viewer : shelf'[v][q] = "shown"
                      /\ panel'.pc = "dismiss" => q \notin panel'.early
    BY DEF NotHiddenBeforeAsked
  <2>1. wishes[q].status = "none"
    BY <1>3, RowFacts
  <2> QED BY <1>1, <1>2, <1>5, <2>1 DEF NotHiddenBeforeAsked, Item
<1>9. ASSUME NEW v \in Viewer, NEW i \in Item, Present(v)'
      PROVE  \/ shelf'[v][i] = "shown"
             \/ /\ shelf'[v][i] = shelf[v][i]
                /\ Open(i)' => Open(i)
                /\ Listable(v, i) => Listable(v, i)'
  <2>1. CASE v = u \/ i \in own
    BY <1>5, <2>1
  <2>2. CASE ~(v = u \/ i \in own) /\ i \in Fetched
    BY <1>2, <1>4, <1>5, <2>2 DEF Open, Live, Listable, RowOf, Owns
  <2>3. CASE ~(v = u \/ i \in own) /\ i \notin Fetched
    BY <1>3, <1>5, <2>3 DEF Open, Listable, RowOf, Owns, Item
  <2> QED BY <2>1, <2>2, <2>3
<1>10. \A v \in Viewer : Present(v)' => Present(v)
  BY <1>2 DEF Present
<1>11. EntriesFollow
  BY <1>9, <1>10, Undisturbed
<1> QED BY <1>6, <1>7, <1>8, <1>11 DEF ActivityInv

\* What a dismissal was allowed to hide is closed and listable.
LEMMA AllowedClosed ==
  ASSUME ActivityInv, NEW v \in Viewer
  PROVE  /\ \A q \in Wish : WishAllowed(v, q) =>
              wishes[q].status \notin {"none", "gone", "pending"} /\ Owns(v, wishes[q])
         /\ \A d \in Fetched : LogAllowed(v, d, log[d]) => ~Live(d) /\ log[d].status # "none" /\ Owns(v, log[d])
BY DEF WishAllowed, Decided, LogAllowed, Effective, Ended, Live

\* The rows stay; what a viewer comes to hide is closed and listable, or excused.
LEMMA Hides ==
  ASSUME ActivityInv, UNCHANGED <<known, log, listed, wishes>>, panel' \in PanelState, panel'.pc = "idle",
         NEW v \in Viewer, NEW items \in SUBSET Item, Hide(v, items),
         \A i \in items : \/ IF i \in Fetched THEN LogAllowed(v, i, log[i]) ELSE WishAllowed(v, i)
                          \/ panel.pc = "dismiss" /\ panel.who = v /\ i \in panel.early
  PROVE  ActivityInv' /\ EntriesFollow
<1>1. ActivityTypes /\ OwnersKnown /\ NotHiddenBeforeAsked
  BY DEF ActivityInv
<1>2. /\ shelf' \in [Viewer -> [Item -> Hidden]]
      /\ \A x \in Viewer, i \in Item :
           shelf'[x][i] = IF x = v /\ i \in items THEN "dismissed" ELSE shelf[x][i]
  BY <1>1 DEF ActivityTypes, Hide, Hidden
<1>3. ActivityTypes' /\ OwnersKnown'
  BY <1>1, <1>2, RowFacts DEF ActivityTypes, OwnersKnown
<1>4. NotHiddenBeforeAsked'
  <2> SUFFICES ASSUME NEW q \in Wish, wishes[q].status = "none"
               PROVE  /\ \A x \in Viewer : shelf'[x][q] = "shown"
                      /\ panel'.pc = "dismiss" => q \notin panel'.early
    BY DEF NotHiddenBeforeAsked
  <2>1. q \in Item /\ q \notin Fetched
    BY ActivityAssumption DEF Item, ActivityAssumption
  <2>2. q \notin items
    BY <1>1, <2>1, AllowedClosed DEF NotHiddenBeforeAsked
  <2> QED BY <1>1, <1>2, <2>1, <2>2, RowFacts DEF NotHiddenBeforeAsked
<1>5. \A x \in Viewer, i \in Item : (Open(i)' <=> Open(i)) /\ (Listable(x, i)' <=> Listable(x, i))
  BY DEF Open, Live, Listable, RowOf, Owns
<1>6. ASSUME NEW x \in Viewer, NEW i \in Item
      PROVE  (ComesHidden(x, i) => HiddenByRace(x, i)) /\ (ComesAstray(x, i) => AstrayByRace(x, i))
  <2>1. CASE ~(x = v /\ i \in items)
    BY <1>2, <1>5, <2>1 DEF ComesHidden, ComesAstray
  <2>2. CASE x = v /\ i \in items /\ panel.pc = "dismiss" /\ panel.who = v /\ i \in panel.early
    BY <2>2 DEF HiddenByRace, AstrayByRace
  <2>3. CASE x = v /\ i \in Fetched /\ LogAllowed(v, i, log[i])
    <3>1. ~Open(i) /\ Listable(x, i)
      <4>1. log[i] \in LogRow
        BY <1>1, <2>3 DEF ActivityTypes
      <4>2. log[i].status # "gone"
        BY <4>1 DEF LogRow, Ended
      <4> QED BY <2>3, <4>2, AllowedClosed DEF Open, Listable, RowOf
    <3> QED BY <1>5, <3>1 DEF ComesHidden, ComesAstray
  <2>4. CASE x = v /\ i \notin Fetched /\ WishAllowed(v, i)
    <3>1. ~Open(i) /\ Listable(x, i)
      BY <2>4, AllowedClosed DEF Open, Listable, RowOf, Item
    <3> QED BY <1>5, <3>1 DEF ComesHidden, ComesAstray
  <2> QED BY <2>1, <2>2, <2>3, <2>4
<1> QED BY <1>3, <1>4, <1>6 DEF ActivityInv, EntriesFollow

\* The rows and the views stay; the panel rests, or reads on.
LEMMA PanelMoves ==
  ASSUME ActivityInv, UNCHANGED <<known, log, listed, wishes, shelf>>, panel' \in PanelState,
         \A q \in Wish : panel'.pc = "dismiss" /\ q \in panel'.early => wishes[q].status # "none"
  PROVE  ActivityInv' /\ EntriesFollow
<1>1. ActivityInv'
  BY DEF ActivityInv, ActivityTypes, OwnersKnown, NotHiddenBeforeAsked
<1>2. \A v \in Viewer, i \in Item :
        (Present(v)' => Present(v)) /\ (Open(i)' => Open(i)) /\ (Listable(v, i) => Listable(v, i)')
  BY DEF Present, Open, Live, Listable, RowOf, Owns
<1> QED BY <1>1, <1>2, Undisturbed

\* Requests are dismissed in one go.
LEMMA DismissWishesStep ==
  ASSUME ActivityInv, NEW v \in Viewer, NEW items \in SUBSET Wish, DismissWishes(v, items)
  PROVE  ActivityInv' /\ EntriesFollow
<1>1. /\ panel.pc = "idle" /\ Hide(v, items) /\ \A q \in items : WishAllowed(v, q)
      /\ UNCHANGED <<known, log, listed, wishes, panel>>
  BY DEF DismissWishes
<1>2. items \in SUBSET Item /\ \A i \in items : i \notin Fetched
  BY ActivityAssumption DEF Item, ActivityAssumption
<1>3. panel' \in PanelState /\ panel'.pc = "idle"
  BY <1>1 DEF ActivityInv, ActivityTypes
<1>4. \A i \in items : IF i \in Fetched THEN LogAllowed(v, i, log[i]) ELSE WishAllowed(v, i)
  BY <1>1, <1>2
<1> HIDE DEF ActivityInv
<1> QED BY <1>1, <1>2, <1>3, <1>4, Hides

\* A dismissal reads the first download's row, and the requests before it.
LEMMA DismissReadsStep ==
  ASSUME ActivityInv, NEW v \in Viewer, NEW items \in SUBSET Item, NEW d \in Fetched,
         NEW early \in SUBSET Wish, DismissReads(v, items, d, early)
  PROVE  ActivityInv' /\ EntriesFollow
<1>1. /\ early \subseteq items \ Fetched /\ \A q \in early : WishAllowed(v, q)
      /\ panel' = [pc |-> "dismiss", who |-> v, items |-> items, early |-> early \cup {d}, row |-> log[d]]
      /\ UNCHANGED <<known, log, listed, wishes, shelf>>
  BY DEF DismissReads
<1>2. panel' \in PanelState
  BY <1>1 DEF ActivityInv, ActivityTypes, PanelState, Item
<1>3. \A q \in Wish : q \in panel'.early => wishes[q].status # "none"
  BY <1>1, AllowedClosed, ActivityAssumption DEF ActivityAssumption
<1> QED BY <1>1, <1>2, <1>3, PanelMoves

\* It writes after the queue has answered: the rows read late are as they are now.
LEMMA DismissWritesStep ==
  ASSUME ActivityInv, NEW v \in Viewer, DismissWrites(v)
  PROVE  ActivityInv' /\ EntriesFollow
<1> DEFINE allowed == \A i \in panel.items \ panel.early :
                        IF i \in Fetched THEN LogAllowed(v, i, log[i]) ELSE WishAllowed(v, i)
<1>1. /\ panel.pc = "dismiss" /\ panel.who = v /\ panel' = Resting
      /\ UNCHANGED <<known, log, listed, wishes>>
      /\ (allowed /\ Hide(v, panel.items)) \/ UNCHANGED shelf
  BY DEF DismissWrites
<1>2. Resting \in PanelState /\ Resting.pc = "idle" /\ panel.items \in SUBSET Item
  BY RowFacts DEF ActivityInv, ActivityTypes, PanelState
<1>3. CASE UNCHANGED shelf
  BY <1>1, <1>2, <1>3, PanelMoves
<1>4. CASE allowed /\ Hide(v, panel.items)
  <2>1. \A i \in panel.items : \/ IF i \in Fetched THEN LogAllowed(v, i, log[i]) ELSE WishAllowed(v, i)
                               \/ panel.pc = "dismiss" /\ panel.who = v /\ i \in panel.early
    BY <1>1, <1>4
  <2> QED BY <1>1, <1>2, <1>4, <2>1, Hides
<1> QED BY <1>1, <1>3, <1>4

\* A viewer clears the history: what was dismissed stays hidden.
LEMMA ClearStep == ASSUME ActivityInv, NEW v \in Viewer, ClearHistory(v)
                   PROVE  ActivityInv' /\ EntriesFollow
<1>1. ActivityTypes /\ OwnersKnown /\ NotHiddenBeforeAsked
  BY DEF ActivityInv
<1>2. /\ shelf' = [shelf EXCEPT ![v] = [i \in Item |-> IF @[i] = "dismissed" THEN "cleared" ELSE @[i]]]
      /\ UNCHANGED <<known, log, listed, wishes, panel>>
  BY DEF ClearHistory
<1>3. /\ shelf' \in [Viewer -> [Item -> Hidden]]
      /\ \A x \in Viewer, i \in Item :
           shelf'[x][i] = IF x = v /\ shelf[x][i] = "dismissed" THEN "cleared" ELSE shelf[x][i]
  BY <1>1, <1>2 DEF ActivityTypes, Hidden
<1>4. ActivityTypes' /\ OwnersKnown'
  BY <1>1, <1>2, <1>3 DEF ActivityTypes, OwnersKnown
<1>5. NotHiddenBeforeAsked'
  <2> SUFFICES ASSUME NEW q \in Wish, wishes[q].status = "none"
               PROVE  /\ \A x \in Viewer : shelf'[x][q] = "shown"
                      /\ panel'.pc = "dismiss" => q \notin panel'.early
    BY <1>2 DEF NotHiddenBeforeAsked
  <2>1. q \in Item
    BY DEF Item
  <2> QED BY <1>1, <1>2, <1>3, <2>1 DEF NotHiddenBeforeAsked
<1>6. \A x \in Viewer, i \in Item :
        (Present(x)' => Present(x)) /\ (Open(i)' => Open(i)) /\ (Listable(x, i) => Listable(x, i)')
  BY <1>2 DEF Present, Open, Live, Listable, RowOf, Owns
<1>7. \A x \in Viewer, i \in Item :
        shelf'[x][i] = shelf[x][i] \/ (shelf[x][i] # "shown" /\ shelf'[x][i] = "cleared")
  BY <1>3
<1>8. EntriesFollow
  BY <1>6, <1>7, Undisturbed
<1> QED BY <1>4, <1>5, <1>8 DEF ActivityInv

\* A snapshot reads what is hidden.
LEMMA SnapshotReadsStep == ASSUME ActivityInv, NEW v \in Viewer, SnapshotReads(v)
                           PROVE  ActivityInv' /\ EntriesFollow
<1>1. /\ panel' = [Resting EXCEPT !.pc = "snapshot", !.who = v, !.items = {i \in Item : shelf[v][i] # "shown"}]
      /\ UNCHANGED <<known, log, listed, wishes, shelf>>
  BY DEF SnapshotReads
<1>2. panel' \in PanelState /\ panel'.pc = "snapshot"
  BY <1>1, RowFacts DEF PanelState
<1> QED BY <1>1, <1>2, PanelMoves

\* Its sync changes requests that were fulfilled, and may reopen some.
LEMMA SnapshotSyncsStep ==
  ASSUME ActivityInv, NEW v \in Viewer, NEW told \in [Wish -> Fetched], NEW lost \in SUBSET Fetched,
         SnapshotSyncs(v, told, lost)
  PROVE  ActivityInv' /\ EntriesFollow
<1> DEFINE seen == {d \in Fetched \ panel.items : log[d].status # "none" /\ Owns(v, log[d])}
           spokenFor == {q \in Wish : /\ wishes[q].status = "fulfilled" /\ Owns(v, wishes[q])
                                      /\ \E d \in seen : log[d].wish = q}
           synced(q) == LET s == Effective(told[q], log[told[q]]) IN
                        IF s = "error" /\ told[q] \in lost /\ Reopens(q) THEN PendingAgain(q)
                        ELSE [wishes[q] EXCEPT !.delivery = s]
<1>1. ActivityTypes /\ OwnersKnown /\ NotHiddenBeforeAsked
  BY DEF ActivityInv
<1>2. /\ panel.pc = "snapshot" /\ panel' = Resting /\ UNCHANGED <<known, log, listed, shelf>>
      /\ \A q \in spokenFor : told[q] \in seen
      /\ wishes' = [q \in Wish |-> IF q \in spokenFor THEN synced(q) ELSE wishes[q]]
  BY DEF SnapshotSyncs
<1>3. ASSUME NEW q \in Wish
      PROVE  /\ wishes'[q] \in WishRow /\ wishes'[q].owner = wishes[q].owner
             /\ wishes'[q] # wishes[q] => /\ wishes[q].status = "fulfilled"
                                          /\ wishes'[q].status \in {"pending", "fulfilled"}
  <2>1. CASE q \notin spokenFor
    BY <1>1, <1>2, <2>1 DEF ActivityTypes
  <2>2. CASE q \in spokenFor
    <3> DEFINE s == Effective(told[q], log[told[q]])
    <3>1. wishes[q] \in WishRow /\ wishes[q].status = "fulfilled"
      BY <1>1, <2>2 DEF ActivityTypes
    <3>2. told[q] \in Fetched /\ log[told[q]] \in LogRow /\ log[told[q]].status # "none"
      BY <1>1, <1>2, <2>2 DEF ActivityTypes
    <3>3. s \in {"none", "active"} \cup Ended
      BY <3>2 DEF Effective, LogRow, Ended
    <3>4. /\ PendingAgain(q) \in WishRow /\ PendingAgain(q).owner = wishes[q].owner
          /\ PendingAgain(q).status = "pending"
      BY <3>1 DEF PendingAgain, WishRow
    <3>5. /\ [wishes[q] EXCEPT !.delivery = s] \in WishRow
          /\ [wishes[q] EXCEPT !.delivery = s].owner = wishes[q].owner
          /\ [wishes[q] EXCEPT !.delivery = s].status = "fulfilled"
      BY <3>1, <3>3 DEF WishRow
    <3>6. wishes'[q] = PendingAgain(q) \/ wishes'[q] = [wishes[q] EXCEPT !.delivery = s]
      BY <1>2, <2>2
    <3> HIDE DEF s
    <3> QED BY <3>1, <3>4, <3>5, <3>6
  <2> QED BY <2>1, <2>2
<1>4. wishes' \in [Wish -> WishRow]
  <2>1. wishes' = [q \in Wish |-> wishes'[q]]
    BY <1>2
  <2> QED BY <1>3, <2>1
<1> HIDE DEF seen, spokenFor, synced
<1>5. ActivityTypes'
  BY <1>1, <1>2, <1>4, RowFacts DEF ActivityTypes
<1>6. OwnersKnown'
  BY <1>1, <1>2, <1>3 DEF OwnersKnown
<1>7. NotHiddenBeforeAsked'
  <2> SUFFICES ASSUME NEW q \in Wish, wishes'[q].status = "none"
               PROVE  /\ \A x \in Viewer : shelf'[x][q] = "shown"
                      /\ panel'.pc = "dismiss" => q \notin panel'.early
    BY DEF NotHiddenBeforeAsked
  <2>1. wishes[q].status = "none"
    BY <1>3
  <2> QED BY <1>1, <1>2, <2>1, RowFacts DEF NotHiddenBeforeAsked
<1>8. ASSUME NEW x \in Viewer, NEW i \in Item
      PROVE  (ComesHidden(x, i) => HiddenByRace(x, i)) /\ (ComesAstray(x, i) => AstrayByRace(x, i))
  <2>1. Listable(x, i) => Listable(x, i)'
    <3>1. CASE i \in Fetched
      BY <1>2, <3>1 DEF Listable, RowOf, Owns
    <3>2. CASE i \notin Fetched
      BY <1>3, <3>2 DEF Listable, RowOf, Owns, Item
    <3> QED BY <3>1, <3>2
  <2>2. ~ComesAstray(x, i)
    BY <1>2, <2>1 DEF ComesAstray
  <2>3. i \in Fetched => (Open(i)' <=> Open(i))
    BY <1>2 DEF Open, Live
  <2>4. CASE i \in Fetched
    BY <1>2, <2>2, <2>3, <2>4 DEF ComesHidden
  <2>5. CASE i \notin Fetched
    BY <1>2, <2>2, <2>5, RowFacts DEF HiddenByRace, Item
  <2> QED BY <2>4, <2>5
<1> QED BY <1>5, <1>6, <1>7, <1>8 DEF ActivityInv, EntriesFollow

\* Every step.
LEMMA ActivityStep == ASSUME ActivityInv, ActivityNext PROVE ActivityInv' /\ EntriesFollow
<1>1. ASSUME NEW d \in Fetched,
             \/ \E u \in Reader : QueueDirect(d, u)
             \/ \E q \in Wish : Fulfil(q, d)
             \/ \E s \in Ended, retry \in BOOLEAN : FinishItem(d, s, retry)
             \/ Forget(d) \/ LibraryDelete(d)
      PROVE  ActivityInv' /\ EntriesFollow
  <2>1. CASE \E u \in Reader : QueueDirect(d, u) BY <2>1, QueueStep
  <2>2. CASE \E q \in Wish : Fulfil(q, d) BY <2>2, FulfilStep
  <2>3. CASE \E s \in Ended, retry \in BOOLEAN : FinishItem(d, s, retry) BY <2>3, FinishStep
  <2>4. CASE Forget(d) BY <2>4, ForgetStep DEF Forget
  <2>5. CASE LibraryDelete(d) BY <2>5, DeleteStep
  <2> QED BY <1>1, <2>1, <2>2, <2>3, <2>4, <2>5
<1>2. ASSUME NEW q \in Wish, Refuse(q) \/ \E u \in Reader : AskFor(q, u)
      PROVE  ActivityInv' /\ EntriesFollow
  BY <1>2, RefuseStep, AskStep
<1>3. CASE RestartService BY <1>3, ForgetStep DEF RestartService
<1>4. CASE \E u \in Reader : DeleteUser(u) BY <1>4, UserStep
<1>5. ASSUME NEW v \in Viewer,
             \/ \E items \in SUBSET Wish : DismissWishes(v, items)
             \/ \E items \in SUBSET Item, d \in Fetched, early \in SUBSET Wish : DismissReads(v, items, d, early)
             \/ DismissWrites(v) \/ ClearHistory(v) \/ SnapshotReads(v)
             \/ \E told \in [Wish -> Fetched], lost \in SUBSET Fetched : SnapshotSyncs(v, told, lost)
      PROVE  ActivityInv' /\ EntriesFollow
  <2>1. CASE \E items \in SUBSET Wish : DismissWishes(v, items) BY <2>1, DismissWishesStep
  <2>2. CASE \E items \in SUBSET Item, d \in Fetched, early \in SUBSET Wish : DismissReads(v, items, d, early)
    BY <2>2, DismissReadsStep
  <2>3. CASE DismissWrites(v) BY <2>3, DismissWritesStep
  <2>4. CASE ClearHistory(v) BY <2>4, ClearStep
  <2>5. CASE SnapshotReads(v) BY <2>5, SnapshotReadsStep
  <2>6. CASE \E told \in [Wish -> Fetched], lost \in SUBSET Fetched : SnapshotSyncs(v, told, lost)
    BY <2>6, SnapshotSyncsStep
  <2> QED BY <1>5, <2>1, <2>2, <2>3, <2>4, <2>5, <2>6
<1> QED BY <1>1, <1>2, <1>3, <1>4, <1>5 DEF ActivityNext

\* Nothing is asked for, queued or hidden at first.
LEMMA ActivityInitInv == ASSUME ActivityInit PROVE ActivityInv
<1>1. ActivityTypes
  BY RowFacts DEF ActivityInit, ActivityTypes, Hidden
<1>2. OwnersKnown /\ NotHiddenBeforeAsked
  BY RowFacts DEF ActivityInit, OwnersKnown, NotHiddenBeforeAsked, Item, Viewer
<1> QED BY <1>1, <1>2 DEF ActivityInv

\* The inductive invariant of the activity panel.
THEOREM ActivityInvariant == ActivitySpec => []ActivityInv
<1>1. ActivityInit => ActivityInv
  BY ActivityInitInv
<1>2. ActivityInv /\ [ActivityNext]_activityVars => ActivityInv'
  <2>1. CASE ActivityInv /\ UNCHANGED activityVars
    BY <2>1 DEF activityVars, ActivityInv, ActivityTypes, OwnersKnown, NotHiddenBeforeAsked
  <2> QED BY <2>1, ActivityStep
<1> QED BY <1>1, <1>2, PTL DEF ActivitySpec

\* Types; a request that was made and not deleted with its user has an owner who exists.
THEOREM ActivityTyped == ActivitySpec => []ActivityTypeOK
<1>1. ActivityInv => ActivityTypeOK
  BY DEF ActivityInv, ActivityTypes, OwnersKnown, ActivityTypeOK, PanelState, Hidden
<1> QED BY <1>1, ActivityInvariant, PTL

\* A viewer's entries follow the rows they are about, whatever the viewers, the
\* downloads and the requests: nothing open comes to be hidden, and no dismissed entry
\* to refer to a row that is gone, but by a race the property names.
THEOREM ActivityViewsFollowRows == ActivitySpec => ViewsFollowRows
<1> DEFINE OpenStep == \A v \in Viewer, i \in Item : ComesHidden(v, i) => HiddenByRace(v, i)
           AstrayStep == \A v \in Viewer, i \in Item : ComesAstray(v, i) => AstrayByRace(v, i)
<1>1. ActivityInv /\ [ActivityNext]_activityVars => [OpenStep]_activityVars /\ [AstrayStep]_activityVars
  BY ActivityStep DEF EntriesFollow
<1>2. OpenItemsShown <=> [][OpenStep]_activityVars
  BY DEF OpenItemsShown, ComesHidden, HiddenByRace
<1>3. HistoryBreaks <=> [][AstrayStep]_activityVars
  BY DEF HistoryBreaks, ComesAstray, AstrayByRace
<1> QED BY <1>1, <1>2, <1>3, ActivityInvariant, PTL DEF ActivitySpec, ViewsFollowRows

-----------------------------------------------------------------------------
(* LiveStatus *)

(***************************************************************************)
(* The inductive invariant.  A page in a room that no older status has     *)
(* overtaken shows the queue as it is, or somebody will bring it that:     *)
(* whoever changed the queue last, a handler of the page, or a broadcast   *)
(* that has yet to read for the page's room.  A page whose handlers did    *)
(* not cross shows its own room, or a handler that read for that room has  *)
(* yet to answer.                                                          *)
(***************************************************************************)
SenderRecord == [job : {"none", "changed", "page", "cast"}, page : Page \cup {NoRoom},
                 room : Room \cup {NoRoom}, version : Nat, rest : SUBSET PageUser]
LiveTypes ==
  /\ identity \in [Page -> Room \cup {NoRoom}] /\ opened \in [Page -> {"new", "open", "closed"}]
  /\ sidRoom \in [Page -> Room \cup {NoRoom}] /\ userRooms \in [PageUser -> Nat]
  /\ connectionCount \in Nat /\ change \in Nat /\ sender \in [Sender -> SenderRecord]
  /\ shown \in [Page -> Nat] /\ view \in [Page -> Room \cup {NoRoom}]
  /\ overtaken \in [Page -> BOOLEAN] /\ crossed \in [Page -> BOOLEAN] /\ authOff \in BOOLEAN

\* A status is never newer than the queue; only open pages are in rooms.
Bounded ==
  /\ \A p \in Page : shown[p] <= change /\ (sidRoom[p] # NoRoom => opened[p] = "open")
  /\ \A s \in Sender : /\ sender[s].version <= change
                       /\ sender[s].job = "none" => sender[s] = Unused
                       /\ sender[s].job = "cast" => sender[s].room # NoRoom

RoomsCounted ==
  /\ \A u \in PageUser : userRooms[u] = Cardinality({p \in Page : sidRoom[p] = u})
  /\ connectionCount = Cardinality({p \in Page : opened[p] = "open"})

\* Who is about to show a page the queue as it is: whoever changed it last, a handler of the
\* page, or a broadcast that has read for the page's room or will.
Later(r) == IF r.room = "admins" THEN PageUser ELSE r.rest
PageAnswers(s, p) == sender[s].job = "page" /\ sender[s].page = p
Casts(s, p) ==
  /\ sender[s].job = "cast"
  /\ \/ sender[s].room = sidRoom[p] /\ sender[s].version = change
     \/ sidRoom[p] \in Later(sender[s])
Brings(s, p) ==
  sender[s].job = "changed" \/ (PageAnswers(s, p) /\ sender[s].version = change) \/ Casts(s, p)

FreshAt(p) ==
  sidRoom[p] # NoRoom /\ ~overtaken[p] => shown[p] = change \/ \E s \in Sender : Brings(s, p)
OwnAt(p) ==
  sidRoom[p] # NoRoom /\ ~crossed[p] =>
    /\ \A s \in Sender : PageAnswers(s, p) => sender[s].room = sidRoom[p]
    /\ view[p] = sidRoom[p] \/ \E s \in Sender : PageAnswers(s, p)
Followed == \A p \in Page : FreshAt(p) /\ OwnAt(p)

LiveInv == LiveTypes /\ Bounded /\ RoomsCounted /\ Followed

\* The count of each room follows a page that moves.
LEMMA CountedMoves ==
  ASSUME LiveInv, NEW p \in Page, NEW room \in Room \cup {NoRoom},
         sidRoom' = [sidRoom EXCEPT ![p] = room], userRooms' = Counted(sidRoom[p], room)
  PROVE  /\ userRooms' \in [PageUser -> Nat]
         /\ \A u \in PageUser : userRooms'[u] = Cardinality({q \in Page : sidRoom'[q] = u})
<1> DEFINE Was(u) == {q \in Page : sidRoom[q] = u}
           Is(u) == {q \in Page : sidRoom'[q] = u}
<1>1. sidRoom \in [Page -> Room \cup {NoRoom}] /\ userRooms \in [PageUser -> Nat]
  BY DEF LiveInv, LiveTypes
<1>2. ASSUME NEW u \in PageUser
      PROVE  /\ IsFiniteSet(Was(u)) /\ Cardinality(Was(u)) \in Nat
             /\ userRooms[u] = Cardinality(Was(u))
  <2>1. IsFiniteSet(Was(u))
    BY LiveAssumption, FS_Subset DEF LiveAssumption
  <2> QED BY <2>1, FS_CardinalityType DEF LiveInv, RoomsCounted
<1>3. ASSUME NEW u \in PageUser
      PROVE  userRooms'[u] \in Nat /\ userRooms'[u] = Cardinality(Is(u))
  <2>1. CASE sidRoom[p] = room
    <3>1. Is(u) = Was(u) /\ userRooms'[u] = userRooms[u]
      BY <1>1, <2>1 DEF Counted
    <3> QED BY <1>2, <3>1
  <2>2. CASE sidRoom[p] # room /\ u = sidRoom[p]
    <3>1. Is(u) = Was(u) \ {p} /\ p \in Was(u) /\ userRooms'[u] = userRooms[u] - 1
      BY <1>1, <2>2 DEF Counted
    <3> HIDE DEF Is, Was
    <3>2. Cardinality(Is(u)) = Cardinality(Was(u)) - 1 /\ IsFiniteSet(Is(u))
      BY <1>2, <3>1, FS_RemoveElement
    <3>3. Cardinality(Is(u)) \in Nat
      BY <3>2, FS_CardinalityType
    <3> QED BY <1>2, <3>1, <3>2, <3>3
  <2>3. CASE sidRoom[p] # room /\ u # sidRoom[p] /\ u = room
    <3>1. Is(u) = Was(u) \cup {p} /\ p \notin Was(u) /\ userRooms'[u] = userRooms[u] + 1
      BY <1>1, <2>3 DEF Counted
    <3>2. Cardinality(Is(u)) = Cardinality(Was(u)) + 1
      BY <1>2, <3>1, FS_AddElement
    <3> HIDE DEF Is, Was
    <3> QED BY <1>2, <3>1, <3>2
  <2>4. CASE sidRoom[p] # room /\ u # sidRoom[p] /\ u # room
    <3>1. Is(u) = Was(u) /\ userRooms'[u] = userRooms[u]
      BY <1>1, <2>4 DEF Counted
    <3> QED BY <1>2, <3>1
  <2> QED BY <2>1, <2>2, <2>3, <2>4
<1>4. userRooms' \in [PageUser -> Nat]
  BY <1>1, <1>3 DEF Counted
<1> QED BY <1>3, <1>4

\* A page that joins or leaves the pages that are open.
LEMMA OpenedCounted ==
  ASSUME LiveInv, NEW p \in Page, NEW o \in {"open", "closed"},
         opened' = [opened EXCEPT ![p] = o]
  PROVE  LET n == Cardinality({q \in Page : opened'[q] = "open"}) IN
         /\ opened[p] # "open" /\ o = "open" => n = connectionCount + 1
         /\ opened[p] = "open" /\ o = "closed" => n = connectionCount - 1 /\ connectionCount > 0
<1> DEFINE Was == {q \in Page : opened[q] = "open"}
           Is == {q \in Page : opened'[q] = "open"}
<1>1. opened \in [Page -> {"new", "open", "closed"}] /\ connectionCount = Cardinality(Was)
  BY DEF LiveInv, LiveTypes, RoomsCounted
<1>2. IsFiniteSet(Was)
  BY LiveAssumption, FS_Subset DEF LiveAssumption
<1>3. ASSUME opened[p] # "open", o = "open" PROVE Cardinality(Is) = connectionCount + 1
  <2>1. Is = Was \cup {p} /\ p \notin Was
    BY <1>1, <1>3
  <2> QED BY <1>1, <1>2, <2>1, FS_AddElement
<1>4. ASSUME opened[p] = "open", o = "closed"
      PROVE  Cardinality(Is) = connectionCount - 1 /\ connectionCount > 0
  <2>1. Is = Was \ {p} /\ p \in Was
    BY <1>1, <1>4
  <2>2. Cardinality(Is) = Cardinality(Was) - 1 /\ IsFiniteSet(Is)
    BY <1>2, <2>1, FS_RemoveElement
  <2>3. Cardinality(Is) \in Nat /\ Cardinality(Was) \in Nat
    BY <1>2, <2>2, FS_CardinalityType
  <2> HIDE DEF Is, Was
  <2> QED BY <1>1, <2>2, <2>3
<1> QED BY <1>3, <1>4

\* What a step leaves to a page it does not concern.
LEMMA FollowedFrame ==
  ASSUME LiveInv, NEW p \in Page, FreshAt(p) /\ OwnAt(p), NEW s \in Sender,
         UNCHANGED <<change, sidRoom[p], shown[p], view[p], overtaken[p], crossed[p]>>,
         \A t \in Sender \ {s} : sender'[t] = sender[t],
         ~Brings(s, p), PageAnswers(s, p)' <=> PageAnswers(s, p),
         PageAnswers(s, p) => sender'[s].room = sender[s].room
  PROVE  (FreshAt(p) /\ OwnAt(p))'
<1>1. \A t \in Sender \ {s} : (Brings(t, p)' <=> Brings(t, p)) /\ (PageAnswers(t, p)' <=> PageAnswers(t, p))
  BY DEF Brings, Casts, PageAnswers, Later
<1>2. FreshAt(p)'
  BY <1>1 DEF FreshAt
<1>3. OwnAt(p)'
  BY <1>1 DEF OwnAt
<1> QED BY <1>2, <1>3

\* A handler of a page moves it to its room and reads for it.
LEMMA PageAsks ==
  ASSUME LiveInv, NEW s \in Sender, NEW p \in Page, NEW room \in Room \cup {NoRoom},
         sender[s] = Unused, SetRoom(p, room), Answering(s, p, room),
         UNCHANGED <<change, overtaken>>
  PROVE  /\ Followed' /\ sender' \in [Sender -> SenderRecord]
         /\ sidRoom' = [sidRoom EXCEPT ![p] = room]
         /\ sidRoom' \in [Page -> Room \cup {NoRoom}]
         /\ shown' \in [Page -> Nat] /\ view' \in [Page -> Room \cup {NoRoom}]
         /\ crossed' \in [Page -> BOOLEAN]
         /\ \A q \in Page : shown'[q] <= change
         /\ \A t \in Sender : /\ sender'[t].version <= change
                              /\ sender'[t].job = "none" => sender'[t] = Unused
                              /\ sender'[t].job = "cast" => sender'[t].room # NoRoom
         /\ userRooms' \in [PageUser -> Nat]
         /\ \A u \in PageUser : userRooms'[u] = Cardinality({q \in Page : sidRoom'[q] = u})
<1>1. LiveTypes /\ Bounded /\ Followed
  BY DEF LiveInv
<1>2. /\ sidRoom' = [sidRoom EXCEPT ![p] = room] /\ userRooms' = Counted(sidRoom[p], room)
      /\ crossed' = [crossed EXCEPT ![p] = @ \/ (\E t \in Sender : /\ sender[t].job = "page"
                                                                   /\ sender[t].page = p
                                                                   /\ sender[t].room # room)]
  BY DEF SetRoom
<1>3. /\ sidRoom' \in [Page -> Room \cup {NoRoom}] /\ crossed' \in [Page -> BOOLEAN]
      /\ sidRoom'[p] = room
      /\ \A q \in Page \ {p} : UNCHANGED <<sidRoom[q], crossed[q]>>
      /\ ~crossed'[p] => \A t \in Sender : PageAnswers(t, p) => sender[t].room = room
  BY <1>1, <1>2 DEF LiveTypes, PageAnswers
<1>4. ~PageAnswers(s, p) /\ \A q \in Page : ~Brings(s, q) /\ ~PageAnswers(s, q)
  BY DEF Brings, Casts, PageAnswers, Unused
<1>5. /\ userRooms' \in [PageUser -> Nat]
      /\ \A u \in PageUser : userRooms'[u] = Cardinality({q \in Page : sidRoom'[q] = u})
  BY <1>2, CountedMoves
<1>6. CASE room = NoRoom
  <2>1. /\ shown' = [shown EXCEPT ![p] = 0] /\ view' = [view EXCEPT ![p] = NoRoom]
        /\ UNCHANGED sender
    BY <1>6 DEF Answering
  <2>2. /\ shown' \in [Page -> Nat] /\ view' \in [Page -> Room \cup {NoRoom}]
        /\ \A q \in Page \ {p} : UNCHANGED <<shown[q], view[q]>>
        /\ \A q \in Page : shown'[q] <= change
    BY <1>1, <2>1 DEF LiveTypes, Bounded
  <2>3. (FreshAt(p) /\ OwnAt(p))'
    BY <1>3, <1>6 DEF FreshAt, OwnAt
  <2>4. ASSUME NEW q \in Page \ {p} PROVE (FreshAt(q) /\ OwnAt(q))'
    <3>1. FreshAt(q) /\ OwnAt(q) /\ UNCHANGED <<sidRoom[q], crossed[q], shown[q], view[q], overtaken[q]>>
      BY <1>1, <1>3, <2>2, <2>4 DEF Followed
    <3>2. ~Brings(s, q) /\ ~PageAnswers(s, q) /\ ~PageAnswers(s, q)'
      BY <1>4, <2>1 DEF PageAnswers
    <3>3. \A t \in Sender \ {s} : sender'[t] = sender[t]
      BY <2>1
    <3>4. q \in Page /\ UNCHANGED change
      OBVIOUS
    <3> QED BY <3>1, <3>2, <3>3, <3>4, FollowedFrame
  <2>5. Followed'
    BY <2>3, <2>4 DEF Followed
  <2> QED BY <1>1, <1>2, <1>3, <1>5, <2>1, <2>2, <2>5 DEF LiveTypes, Bounded
<1>7. CASE room # NoRoom
  <2> DEFINE asked == [job |-> "page", page |-> p, room |-> room, version |-> change, rest |-> {}]
  <2>1. sender' = [sender EXCEPT ![s] = asked] /\ UNCHANGED <<shown, view>>
    BY <1>7 DEF Answering, Reads
  <2>2. asked \in SenderRecord
    BY <1>1 DEF LiveTypes, SenderRecord
  <2>3. /\ asked.job = "page" /\ asked.page = p /\ asked.room = room /\ asked.version = change
    OBVIOUS
  <2> HIDE DEF asked
  <2>4. /\ sender' \in [Sender -> SenderRecord] /\ sender'[s] = asked
        /\ \A t \in Sender \ {s} : sender'[t] = sender[t]
    BY <1>1, <2>1, <2>2 DEF LiveTypes
  <2>5. PageAnswers(s, p)' /\ Brings(s, p)' /\ \A t \in Sender \ {s} : PageAnswers(t, p)' <=> PageAnswers(t, p)
    BY <2>3, <2>4 DEF PageAnswers, Brings
  <2>6. (FreshAt(p) /\ OwnAt(p))'
    <3>1. FreshAt(p)'
      BY <2>5 DEF FreshAt
    <3>2. ASSUME ~crossed'[p], NEW t \in Sender, PageAnswers(t, p)' PROVE sender'[t].room = room
      <4>1. CASE t = s BY <2>3, <2>4, <4>1
      <4>2. CASE t # s BY <1>3, <2>4, <2>5, <3>2, <4>2
      <4> QED BY <4>1, <4>2
    <3>3. OwnAt(p)'
      BY <1>3, <2>5, <3>2 DEF OwnAt
    <3> QED BY <3>1, <3>3
  <2>7. ASSUME NEW q \in Page \ {p} PROVE (FreshAt(q) /\ OwnAt(q))'
    <3>1. FreshAt(q) /\ OwnAt(q) /\ UNCHANGED <<sidRoom[q], crossed[q], shown[q], view[q], overtaken[q]>>
      BY <1>1, <1>3, <2>1, <2>7 DEF Followed
    <3>2. ~Brings(s, q) /\ ~PageAnswers(s, q) /\ ~PageAnswers(s, q)'
      BY <1>4, <2>3, <2>4, <2>7 DEF PageAnswers
    <3>3. q \in Page /\ UNCHANGED change
      OBVIOUS
    <3> QED BY <2>4, <3>1, <3>2, <3>3, FollowedFrame
  <2>8. Followed'
    BY <2>6, <2>7 DEF Followed
  <2>9. \A t \in Sender : /\ sender'[t].version <= change
                          /\ sender'[t].job = "none" => sender'[t] = Unused
                          /\ sender'[t].job = "cast" => sender'[t].room # NoRoom
    BY <1>1, <2>3, <2>4 DEF Bounded, LiveTypes
  <2> QED BY <1>1, <1>2, <1>3, <1>5, <2>1, <2>4, <2>8, <2>9 DEF LiveTypes, Bounded
<1> QED BY <1>6, <1>7

\* A page connects, or asks for the status.
LEMMA Handlers ==
  ASSUME LiveInv, NEW s \in Sender, NEW p \in Page,
         (\E i \in Room \cup {NoRoom} : Connect(s, p, i)) \/ RequestStatus(s, p)
  PROVE  LiveInv'
<1>1. LiveTypes /\ Bounded /\ RoomsCounted
  BY DEF LiveInv
<1>2. CASE RequestStatus(s, p)
  <2>1. Scope(identity[p]) \in Room \cup {NoRoom}
    BY <1>1 DEF Scope, LiveTypes, Room
  <2> DEFINE room == Scope(identity[p])
  <2>2. /\ sender[s] = Unused /\ opened[p] = "open" /\ SetRoom(p, room) /\ Answering(s, p, room)
        /\ UNCHANGED <<authOff, identity, opened, connectionCount, toggles, overtaken, change>>
    BY <1>2 DEF RequestStatus
  <2> HIDE DEF room
  <2>3. room \in Room \cup {NoRoom}
    BY <2>1 DEF room
  <2>4. UNCHANGED <<change, overtaken>>
    BY <2>2
  <2>5. /\ Followed' /\ sender' \in [Sender -> SenderRecord]
        /\ sidRoom' = [sidRoom EXCEPT ![p] = room]
        /\ sidRoom' \in [Page -> Room \cup {NoRoom}]
        /\ shown' \in [Page -> Nat] /\ view' \in [Page -> Room \cup {NoRoom}]
        /\ crossed' \in [Page -> BOOLEAN]
        /\ \A q \in Page : shown'[q] <= change
        /\ \A t \in Sender : /\ sender'[t].version <= change
                             /\ sender'[t].job = "none" => sender'[t] = Unused
                             /\ sender'[t].job = "cast" => sender'[t].room # NoRoom
        /\ userRooms' \in [PageUser -> Nat]
        /\ \A u \in PageUser : userRooms'[u] = Cardinality({q \in Page : sidRoom'[q] = u})
    BY <2>2, <2>3, <2>4, PageAsks
  <2>6. LiveTypes'
    BY <1>1, <2>2, <2>5 DEF LiveTypes
  <2>7. Bounded'
    BY <1>1, <2>2, <2>5 DEF Bounded, LiveTypes
  <2>8. RoomsCounted'
    BY <1>1, <2>2, <2>5 DEF RoomsCounted
  <2> QED BY <2>5, <2>6, <2>7, <2>8 DEF LiveInv
<1>3. ASSUME NEW i \in Room \cup {NoRoom}, Connect(s, p, i) PROVE LiveInv'
  <2>1. Scope(i) \in Room \cup {NoRoom}
    BY DEF Scope, Room
  <2> DEFINE room == Scope(i)
  <2>2. /\ sender[s] = Unused /\ opened[p] = "new" /\ SetRoom(p, room) /\ Answering(s, p, room)
        /\ opened' = [opened EXCEPT ![p] = "open"] /\ identity' = [identity EXCEPT ![p] = i]
        /\ connectionCount' = connectionCount + 1
        /\ UNCHANGED <<authOff, toggles, overtaken, change>>
    BY <1>3 DEF Connect
  <2> HIDE DEF room
  <2>3. room \in Room \cup {NoRoom}
    BY <2>1 DEF room
  <2>4. UNCHANGED <<change, overtaken>>
    BY <2>2
  <2>5. /\ Followed' /\ sender' \in [Sender -> SenderRecord]
        /\ sidRoom' = [sidRoom EXCEPT ![p] = room]
        /\ sidRoom' \in [Page -> Room \cup {NoRoom}]
        /\ shown' \in [Page -> Nat] /\ view' \in [Page -> Room \cup {NoRoom}]
        /\ crossed' \in [Page -> BOOLEAN]
        /\ \A q \in Page : shown'[q] <= change
        /\ \A t \in Sender : /\ sender'[t].version <= change
                             /\ sender'[t].job = "none" => sender'[t] = Unused
                             /\ sender'[t].job = "cast" => sender'[t].room # NoRoom
        /\ userRooms' \in [PageUser -> Nat]
        /\ \A u \in PageUser : userRooms'[u] = Cardinality({q \in Page : sidRoom'[q] = u})
    BY <2>2, <2>3, <2>4, PageAsks
  <2>6. LiveTypes'
    BY <1>1, <2>2, <2>5 DEF LiveTypes
  <2>7. Bounded'
    BY <1>1, <2>2, <2>5 DEF Bounded, LiveTypes
  <2>8. Cardinality({q \in Page : opened'[q] = "open"}) = connectionCount + 1
    BY <2>2, OpenedCounted
  <2>9. RoomsCounted'
    BY <2>2, <2>5, <2>8 DEF RoomsCounted
  <2> QED BY <2>5, <2>6, <2>7, <2>9 DEF LiveInv
<1> QED BY <1>2, <1>3

\* A page leaves.
LEMMA Leaves ==
  ASSUME LiveInv, NEW p \in Page, Disconnect(p)
  PROVE  LiveInv'
<1>1. LiveTypes /\ Bounded /\ RoomsCounted /\ Followed
  BY DEF LiveInv
<1>2. /\ opened[p] = "open" /\ opened' = [opened EXCEPT ![p] = "closed"]
      /\ sidRoom' = [sidRoom EXCEPT ![p] = NoRoom] /\ userRooms' = Counted(sidRoom[p], NoRoom)
      /\ connectionCount' = IF connectionCount = 0 THEN 0 ELSE connectionCount - 1
      /\ shown' = [shown EXCEPT ![p] = 0] /\ view' = [view EXCEPT ![p] = NoRoom]
      /\ overtaken' = [overtaken EXCEPT ![p] = FALSE] /\ crossed' = [crossed EXCEPT ![p] = FALSE]
      /\ UNCHANGED <<authOff, identity, change, sender, toggles>>
  BY DEF Disconnect
<1>3. /\ userRooms' \in [PageUser -> Nat]
      /\ \A u \in PageUser : userRooms'[u] = Cardinality({q \in Page : sidRoom'[q] = u})
  BY <1>2, CountedMoves
<1>4. /\ connectionCount' = connectionCount - 1 /\ connectionCount' \in Nat
      /\ Cardinality({q \in Page : opened'[q] = "open"}) = connectionCount'
  <2>1. /\ Cardinality({q \in Page : opened'[q] = "open"}) = connectionCount - 1
        /\ connectionCount > 0
    BY <1>2, OpenedCounted
  <2> QED BY <1>1, <1>2, <2>1 DEF LiveTypes
<1>5. LiveTypes'
  BY <1>1, <1>2, <1>3, <1>4 DEF LiveTypes
<1>6. Bounded'
  BY <1>1, <1>2 DEF Bounded, LiveTypes
<1>7. RoomsCounted'
  BY <1>3, <1>4 DEF RoomsCounted
<1>8. ASSUME NEW q \in Page PROVE (FreshAt(q) /\ OwnAt(q))'
  <2>1. CASE q = p
    BY <1>1, <1>2, <2>1 DEF FreshAt, OwnAt, LiveTypes
  <2>2. CASE q # p
    <3>1. UNCHANGED <<change, sidRoom[q], shown[q], view[q], overtaken[q], crossed[q], sender>>
      BY <1>1, <1>2, <2>2 DEF LiveTypes
    <3>2. FreshAt(q) /\ OwnAt(q)
      BY <1>1 DEF Followed
    <3> QED BY <3>1, <3>2 DEF FreshAt, OwnAt, Brings, Casts, PageAnswers, Later
  <2> QED BY <2>1, <2>2
<1> QED BY <1>5, <1>6, <1>7, <1>8 DEF LiveInv, Followed

\* The queue changes, and whoever changed it reads it for the administrators.
LEMMA Broadcasts ==
  ASSUME LiveInv, NEW s \in Sender, QueueMoves(s) \/ CastReads(s)
  PROVE  LiveInv'
<1>1. LiveTypes /\ Bounded /\ RoomsCounted /\ Followed
  BY DEF LiveInv
<1>2. /\ UNCHANGED <<authOff, identity, opened, sidRoom, userRooms, connectionCount, shown,
                     view, toggles, overtaken, crossed>>
      /\ change' \in Nat /\ change <= change'
  BY <1>1 DEF QueueMoves, CastReads, LiveTypes
<1>3. PICK r \in SenderRecord :
        /\ sender' = [sender EXCEPT ![s] = r] /\ r.version <= change' /\ r.job \in {"changed", "cast"}
        /\ r.job = "cast" => r.room = "admins" /\ r.version = change'
  <2>1. CASE QueueMoves(s)
    <3> DEFINE r == [sender[s] EXCEPT !.job = "changed"]
    <3>1. r \in SenderRecord /\ r.version = sender[s].version /\ r.job = "changed"
      BY <1>1 DEF LiveTypes, SenderRecord
    <3>2. sender' = [sender EXCEPT ![s] = r]
      BY <2>1 DEF QueueMoves
    <3> HIDE DEF r
    <3>3. r.version <= change'
      BY <1>1, <1>2, <3>1 DEF Bounded, LiveTypes, SenderRecord
    <3> QED BY <3>1, <3>2, <3>3
  <2>2. CASE CastReads(s)
    <3> DEFINE r == [job |-> "cast", page |-> NoRoom, room |-> "admins", version |-> change', rest |-> {}]
    <3>1. r \in SenderRecord /\ r.version = change' /\ r.job = "cast" /\ r.room = "admins"
      BY <1>2 DEF SenderRecord, Room
    <3>2. sender' = [sender EXCEPT ![s] = r]
      BY <2>2 DEF CastReads, Reads
    <3> HIDE DEF r
    <3>3. r.version <= change' /\ r.job \in {"changed", "cast"}
      BY <1>2, <3>1
    <3> QED BY <3>1, <3>2, <3>3
  <2> QED BY <2>1, <2>2
<1>4. sender[s].job \in {"none", "changed"} /\ (QueueMoves(s) => sender[s] = Unused)
  BY DEF QueueMoves, CastReads, Unused
<1>5. /\ sender' \in [Sender -> SenderRecord] /\ sender'[s] = r
      /\ \A t \in Sender \ {s} : sender'[t] = sender[t]
  BY <1>1, <1>3 DEF LiveTypes
<1>6. LiveTypes'
  BY <1>1, <1>2, <1>5 DEF LiveTypes
<1>7. Bounded'
  <2>1. \A p \in Page : shown'[p] <= change'
    BY <1>1, <1>2 DEF Bounded, LiveTypes
  <2>2. \A t \in Sender : sender'[t].version <= change'
    <3> SUFFICES ASSUME NEW t \in Sender PROVE sender'[t].version <= change'
      OBVIOUS
    <3>1. CASE t = s BY <1>3, <1>5, <3>1
    <3>2. CASE t # s
      <4>1. sender'[t].version = sender[t].version /\ sender[t].version \in Nat
        BY <1>1, <1>5, <3>2 DEF LiveTypes, SenderRecord
      <4>2. sender[t].version <= change
        BY <1>1 DEF Bounded
      <4> QED BY <1>1, <1>2, <4>1, <4>2 DEF LiveTypes
    <3> QED BY <3>1, <3>2
  <2>3. "admins" # NoRoom
    BY LiveAssumption DEF LiveAssumption
  <2>4. \A t \in Sender : /\ sender'[t].job = "none" => sender'[t] = Unused
                          /\ sender'[t].job = "cast" => sender'[t].room # NoRoom
    BY <1>1, <1>3, <1>5, <2>3 DEF Bounded
  <2> QED BY <1>1, <1>2, <2>1, <2>2, <2>4 DEF Bounded
<1>8. RoomsCounted'
  BY <1>1, <1>2 DEF RoomsCounted
<1>9. \A p \in Page, t \in Sender : PageAnswers(t, p)' <=> PageAnswers(t, p)
  BY <1>3, <1>4, <1>5 DEF PageAnswers
<1>10. ASSUME NEW p \in Page PROVE FreshAt(p)'
  <2>1. CASE sidRoom'[p] = NoRoom
    BY <2>1 DEF FreshAt
  <2>2. CASE sidRoom'[p] # NoRoom
    <3>1. sidRoom'[p] = "admins" \/ sidRoom'[p] \in PageUser
      BY <1>6, <2>2 DEF LiveTypes, Room
    <3>2. Brings(s, p)'
      BY <1>3, <1>5, <3>1 DEF Brings, Casts, Later
    <3> QED BY <3>2 DEF FreshAt
  <2> QED BY <2>1, <2>2
<1>11. ASSUME NEW p \in Page PROVE OwnAt(p)'
  <2>1. OwnAt(p)
    BY <1>1 DEF Followed
  <2>2. \A t \in Sender : PageAnswers(t, p) => sender'[t] = sender[t]
    BY <1>4, <1>5 DEF PageAnswers
  <2> QED BY <1>2, <1>9, <2>1, <2>2 DEF OwnAt
<1> QED BY <1>6, <1>7, <1>8, <1>10, <1>11 DEF LiveInv, Followed

\* A status arrives: it is up to date, or it clears no page of being behind.
LEMMA Arrives ==
  ASSUME LiveInv, NEW pages \in SUBSET Page, NEW room \in Room \cup {NoRoom}, NEW version \in Nat,
         version <= change, Received(pages, room, version), change' = change
  PROVE  /\ shown' \in [Page -> Nat] /\ view' \in [Page -> Room \cup {NoRoom}]
         /\ overtaken' \in [Page -> BOOLEAN] /\ \A p \in Page : shown'[p] <= change
         /\ \A p \in Page \ pages : UNCHANGED <<shown[p], view[p], overtaken[p]>>
         /\ \A p \in pages : /\ view'[p] = room
                             /\ ~overtaken'[p] => \/ shown'[p] = change
                                                  \/ ~overtaken[p] /\ shown[p] # change
<1>1. LiveTypes /\ Bounded
  BY DEF LiveInv
<1>2. /\ shown' = [p \in Page |-> IF p \in pages THEN version ELSE shown[p]]
      /\ view' = [p \in Page |-> IF p \in pages THEN room ELSE view[p]]
      /\ overtaken' = [p \in Page |->
                         IF p \in pages THEN version < shown[p] \/ (overtaken[p] /\ version < change)
                         ELSE overtaken[p]]
  BY DEF Received
<1>3. shown' \in [Page -> Nat] /\ view' \in [Page -> Room \cup {NoRoom}]
  BY <1>1, <1>2 DEF LiveTypes
<1>4. overtaken' \in [Page -> BOOLEAN]
  <2>1. \A p \in Page : overtaken[p] \in BOOLEAN
    BY <1>1 DEF LiveTypes
  <2>2. \A p \in Page : overtaken'[p] \in BOOLEAN
    BY <1>2, <2>1
  <2> QED BY <1>2, <2>2
<1>5. \A p \in Page : shown'[p] <= change
  BY <1>1, <1>2 DEF Bounded
<1>6. \A p \in Page \ pages : UNCHANGED <<shown[p], view[p], overtaken[p]>>
  BY <1>2
<1>7. ASSUME NEW p \in pages, ~overtaken'[p], shown'[p] # change
      PROVE  ~overtaken[p] /\ shown[p] # change
  <2>1. p \in Page /\ shown[p] \in Nat /\ change \in Nat /\ shown'[p] = version
    BY <1>1, <1>2 DEF LiveTypes
  <2>2. ~(version < shown[p]) /\ ~(overtaken[p] /\ version < change)
    BY <1>2, <1>7, <2>1
  <2>3. version < change
    BY <1>7, <2>1
  <2> QED BY <2>1, <2>2, <2>3
<1>8. \A p \in pages : view'[p] = room
  BY <1>2
<1> QED BY <1>3, <1>4, <1>5, <1>6, <1>7, <1>8

\* A handler sends the page what it has read.
LEMMA AnswerSent ==
  ASSUME LiveInv, NEW s \in Sender, PageSends(s)
  PROVE  LiveInv'
<1>1. LiveTypes /\ Bounded /\ RoomsCounted /\ Followed
  BY DEF LiveInv
<1> DEFINE r == sender[s]
           p == r.page
           pages == {p} \cap {q \in Page : opened[q] = "open"}
<1>2. /\ r.job = "page" /\ Received(pages, r.room, r.version)
      /\ sender' = [sender EXCEPT ![s] = Unused]
      /\ UNCHANGED <<authOff, identity, opened, sidRoom, userRooms, connectionCount, change,
                     toggles, crossed>>
  BY DEF PageSends
<1>3. r \in SenderRecord /\ r.version <= change
  BY <1>1 DEF LiveTypes, Bounded
<1>4. r.room \in Room \cup {NoRoom} /\ r.version \in Nat /\ pages \subseteq Page
  BY <1>3 DEF SenderRecord
<1>5. /\ \A q \in pages : q = p /\ opened[q] = "open"
      /\ \A q \in Page \ pages : q = p => sidRoom[q] = NoRoom
  BY <1>1 DEF Bounded
<1>6. /\ PageAnswers(s, p) /\ \A q \in Page : PageAnswers(s, q) => q = p
      /\ \A q \in Page : Brings(s, q) => q = p /\ r.version = change
  BY <1>2 DEF PageAnswers, Brings, Casts
<1>7. /\ sender' \in [Sender -> SenderRecord] /\ sender'[s] = Unused
      /\ \A t \in Sender \ {s} : sender'[t] = sender[t]
  <2>1. Unused \in SenderRecord
    BY DEF Unused, SenderRecord
  <2> QED BY <1>1, <1>2, <2>1 DEF LiveTypes
<1> HIDE DEF pages, p, r
<1>8. /\ shown' \in [Page -> Nat] /\ view' \in [Page -> Room \cup {NoRoom}]
      /\ overtaken' \in [Page -> BOOLEAN] /\ \A q \in Page : shown'[q] <= change
      /\ \A q \in Page \ pages : UNCHANGED <<shown[q], view[q], overtaken[q]>>
      /\ \A q \in pages : /\ view'[q] = r.room
                          /\ ~overtaken'[q] => \/ shown'[q] = change
                                               \/ ~overtaken[q] /\ shown[q] # change
  BY <1>2, <1>3, <1>4, Arrives
<1>9. \A q \in pages : shown'[q] = r.version
  BY <1>2, <1>4 DEF Received
<1>10. LiveTypes'
  BY <1>1, <1>2, <1>7, <1>8 DEF LiveTypes
<1>11. Bounded'
  <2>1. Unused.version = 0 /\ Unused.job = "none"
    BY DEF Unused
  <2>2. \A t \in Sender : /\ sender'[t].version <= change
                          /\ sender'[t].job = "none" => sender'[t] = Unused
                          /\ sender'[t].job = "cast" => sender'[t].room # NoRoom
    BY <1>1, <1>7, <2>1 DEF Bounded, LiveTypes
  <2> QED BY <1>1, <1>2, <1>8, <2>2 DEF Bounded
<1>12. RoomsCounted'
  BY <1>1, <1>2 DEF RoomsCounted
<1>13. \A t \in Sender \ {s}, q \in Page :
          (PageAnswers(t, q)' <=> PageAnswers(t, q)) /\ (Brings(t, q)' <=> Brings(t, q))
  BY <1>2, <1>7 DEF PageAnswers, Brings, Casts, Later
<1>14. \A q \in Page : ~PageAnswers(s, q)'
  BY <1>7 DEF PageAnswers, Unused
<1>15. ASSUME NEW q \in Page \ pages PROVE (FreshAt(q) /\ OwnAt(q))'
  <2>1. CASE sidRoom[q] = NoRoom
    BY <1>2, <2>1 DEF FreshAt, OwnAt
  <2>2. CASE sidRoom[q] # NoRoom
    <3>1. q # p /\ q \in Page
      BY <1>5, <2>2
    <3>2. FreshAt(q) /\ OwnAt(q) /\ ~Brings(s, q) /\ ~PageAnswers(s, q) /\ ~PageAnswers(s, q)'
      BY <1>1, <1>6, <1>14, <3>1 DEF Followed
    <3>3. UNCHANGED <<change, sidRoom[q], shown[q], view[q], overtaken[q], crossed[q]>>
      BY <1>2, <1>8
    <3> QED BY <1>7, <3>1, <3>2, <3>3, FollowedFrame
  <2> QED BY <2>1, <2>2
<1>16. ASSUME NEW q \in pages PROVE (FreshAt(q) /\ OwnAt(q))'
  <2>1. q \in Page /\ q = p /\ FreshAt(q) /\ OwnAt(q) /\ UNCHANGED <<sidRoom[q], crossed[q], change>>
    BY <1>1, <1>2, <1>4, <1>5 DEF Followed
  <2>2. FreshAt(q)'
    <3> SUFFICES ASSUME sidRoom[q] # NoRoom, ~overtaken'[q], shown'[q] # change
                 PROVE  \E t \in Sender : Brings(t, q)'
      BY <2>1 DEF FreshAt
    <3>1. ~overtaken[q] /\ shown[q] # change /\ r.version # change
      BY <1>8, <1>9
    <3>2. PICK t \in Sender : Brings(t, q)
      BY <2>1, <3>1 DEF FreshAt
    <3>3. t # s
      BY <1>6, <2>1, <3>1, <3>2
    <3> QED BY <1>13, <2>1, <3>2, <3>3
  <2>3. OwnAt(q)'
    <3> SUFFICES ASSUME sidRoom[q] # NoRoom, ~crossed[q]
                 PROVE  /\ \A t \in Sender : PageAnswers(t, q)' => sender'[t].room = sidRoom[q]
                        /\ view'[q] = sidRoom[q]
      BY <2>1 DEF OwnAt
    <3>1. \A t \in Sender : PageAnswers(t, q) => sender[t].room = sidRoom[q]
      BY <2>1 DEF OwnAt
    <3>2. \A t \in Sender : PageAnswers(t, q)' => sender'[t].room = sidRoom[q]
      BY <1>7, <1>13, <1>14, <2>1, <3>1
    <3>3. view'[q] = sidRoom[q]
      BY <1>6, <1>8, <2>1, <3>1 DEF r
    <3> QED BY <3>2, <3>3
  <2> QED BY <2>2, <2>3
<1> QED BY <1>10, <1>11, <1>12, <1>15, <1>16 DEF LiveInv, Followed

\* A broadcast serves a room and reads for the next.
LEMMA CastSent ==
  ASSUME LiveInv, NEW s \in Sender, CastSends(s)
  PROVE  LiveInv'
<1>1. LiveTypes /\ Bounded /\ RoomsCounted /\ Followed
  BY DEF LiveInv
<1> DEFINE r == sender[s]
           pages == {q \in Page : sidRoom[q] = r.room}
           rest == Remaining(r)
<1>2. /\ r.job = "cast" /\ Received(pages, r.room, r.version)
      /\ UNCHANGED <<authOff, identity, opened, sidRoom, userRooms, connectionCount, change,
                     toggles, crossed>>
      /\ IF rest = {} THEN sender' = [sender EXCEPT ![s] = Unused]
         ELSE \E u \in rest : Reads(s, "cast", NoRoom, u, rest \ {u})
  BY DEF CastSends
<1>3. r \in SenderRecord /\ r.version <= change /\ r.room # NoRoom
  BY <1>1, <1>2 DEF LiveTypes, Bounded
<1>4. /\ r.room \in Room \cup {NoRoom} /\ r.version \in Nat /\ pages \subseteq Page
      /\ rest \subseteq PageUser
  BY <1>3 DEF SenderRecord, Remaining
\* Whoever is to be served later is in a room that counts.
<1>5. \A q \in Page : sidRoom[q] \in Later(r) => sidRoom[q] \in rest
  <2> SUFFICES ASSUME NEW q \in Page, sidRoom[q] \in Later(r) PROVE sidRoom[q] \in rest
    OBVIOUS
  <2>1. CASE r.room # "admins"
    BY <2>1 DEF Later, Remaining
  <2>2. CASE r.room = "admins"
    <3>1. sidRoom[q] \in PageUser
      BY <2>2 DEF Later
    <3> DEFINE here == {x \in Page : sidRoom[x] = sidRoom[q]}
    <3>2. IsFiniteSet(here) /\ q \in here
      BY LiveAssumption, FS_Subset DEF LiveAssumption
    <3>3. userRooms[sidRoom[q]] = Cardinality(here)
      BY <1>1, <3>1 DEF RoomsCounted
    <3> HIDE DEF here
    <3>4. Cardinality(here) \in Nat /\ Cardinality(here) # 0
      BY <3>2, FS_CardinalityType, FS_EmptySet
    <3>5. userRooms[sidRoom[q]] > 0
      BY <3>3, <3>4
    <3> QED BY <2>2, <3>1, <3>5 DEF Remaining
  <2> QED BY <2>1, <2>2
<1>6. PICK n \in SenderRecord :
        /\ sender' = [sender EXCEPT ![s] = n] /\ n.version <= change
        /\ n.job \in {"none", "cast"} /\ (n.job = "none" => n = Unused)
        /\ n.job = "cast" => n.room # NoRoom
        /\ \A q \in Page : sidRoom[q] \in rest =>
             n.job = "cast" /\ ((n.room = sidRoom[q] /\ n.version = change) \/ sidRoom[q] \in Later(n))
  <2>1. CASE rest = {}
    <3>1. Unused \in SenderRecord /\ Unused.version = 0 /\ Unused.job = "none"
      BY DEF Unused, SenderRecord
    <3>2. Unused.version <= change
      BY <1>1, <3>1 DEF LiveTypes
    <3> QED BY <1>2, <2>1, <3>1, <3>2
  <2>2. CASE rest # {}
    <3>1. PICK u \in rest : Reads(s, "cast", NoRoom, u, rest \ {u})
      BY <1>2, <2>2
    <3> DEFINE n == [job |-> "cast", page |-> NoRoom, room |-> u, version |-> change, rest |-> rest \ {u}]
    <3>2. sender' = [sender EXCEPT ![s] = n]
      BY <1>2, <3>1 DEF Reads
    <3>3. /\ n \in SenderRecord /\ n.job = "cast" /\ n.room = u /\ n.version = change
          /\ n.rest = rest \ {u}
      BY <1>1, <1>4, <3>1 DEF SenderRecord, LiveTypes, Room
    <3> HIDE DEF n, rest
    <3>4. u # NoRoom /\ u # "admins"
      BY <1>4, <3>1, LiveAssumption DEF LiveAssumption
    <3>5. Later(n) = rest \ {u}
      BY <3>3, <3>4 DEF Later
    <3>6. n.version <= change
      BY <1>1, <3>3 DEF LiveTypes
    <3>7. \A q \in Page : sidRoom[q] \in rest =>
            n.job = "cast" /\ ((n.room = sidRoom[q] /\ n.version = change) \/ sidRoom[q] \in Later(n))
      BY <3>3, <3>5
    <3> QED BY <3>2, <3>3, <3>4, <3>6, <3>7
  <2> QED BY <2>1, <2>2
<1>7. /\ sender' \in [Sender -> SenderRecord] /\ sender'[s] = n
      /\ \A t \in Sender \ {s} : sender'[t] = sender[t]
  BY <1>1, <1>6 DEF LiveTypes
<1>8. \A q \in Page : Brings(s, q) => (q \in pages /\ r.version = change) \/ sidRoom[q] \in rest
  BY <1>2, <1>5 DEF Brings, Casts, PageAnswers
<1> HIDE DEF r, rest
<1>9. /\ shown' \in [Page -> Nat] /\ view' \in [Page -> Room \cup {NoRoom}]
      /\ overtaken' \in [Page -> BOOLEAN] /\ \A q \in Page : shown'[q] <= change
      /\ \A q \in Page \ pages : UNCHANGED <<shown[q], view[q], overtaken[q]>>
      /\ \A q \in pages : /\ view'[q] = r.room
                          /\ ~overtaken'[q] => \/ shown'[q] = change
                                               \/ ~overtaken[q] /\ shown[q] # change
  <2> HIDE DEF pages
  <2> QED BY <1>2, <1>3, <1>4, Arrives
<1>10. \A q \in pages : shown'[q] = r.version
  BY <1>2, <1>4 DEF Received
<1>11. LiveTypes'
  BY <1>1, <1>2, <1>7, <1>9 DEF LiveTypes
<1>12. Bounded'
  <2>1. \A t \in Sender : /\ sender'[t].version <= change
                          /\ sender'[t].job = "none" => sender'[t] = Unused
                          /\ sender'[t].job = "cast" => sender'[t].room # NoRoom
    BY <1>1, <1>6, <1>7 DEF Bounded
  <2> QED BY <1>1, <1>2, <1>9, <2>1 DEF Bounded
<1>13. RoomsCounted'
  BY <1>1, <1>2 DEF RoomsCounted
<1>14. \A t \in Sender \ {s}, q \in Page : Brings(t, q)' <=> Brings(t, q)
  BY <1>2, <1>7 DEF PageAnswers, Brings, Casts, Later
<1>15. \A t \in Sender, q \in Page :
          (PageAnswers(t, q)' <=> PageAnswers(t, q)) /\ (PageAnswers(t, q) => sender'[t] = sender[t])
  BY <1>2, <1>6, <1>7 DEF PageAnswers, r
<1>16. \A q \in Page : sidRoom[q] \in rest => Brings(s, q)'
  BY <1>2, <1>6, <1>7 DEF Brings, Casts
<1>17. ASSUME NEW q \in Page PROVE FreshAt(q)'
  <2>1. FreshAt(q)
    BY <1>1 DEF Followed
  <2> SUFFICES ASSUME sidRoom[q] # NoRoom, ~overtaken'[q], shown'[q] # change
               PROVE  \E t \in Sender : Brings(t, q)'
    BY <1>2 DEF FreshAt
  <2>2. ~overtaken[q] /\ shown[q] # change /\ (q \in pages => r.version # change)
    BY <1>9, <1>10
  <2>3. PICK t \in Sender : Brings(t, q)
    BY <2>1, <2>2 DEF FreshAt
  <2>4. CASE t = s BY <1>8, <1>16, <2>2, <2>3, <2>4
  <2>5. CASE t # s BY <1>14, <2>3, <2>5
  <2> QED BY <2>4, <2>5
<1>18. ASSUME NEW q \in Page PROVE OwnAt(q)'
  <2>1. OwnAt(q)
    BY <1>1 DEF Followed
  <2>2. view'[q] = view[q] \/ view'[q] = sidRoom[q]
    BY <1>9
  <2> QED BY <1>2, <1>15, <2>1, <2>2 DEF OwnAt
<1> QED BY <1>11, <1>12, <1>13, <1>17, <1>18 DEF LiveInv, Followed

\* Every step keeps the invariant.
LEMMA LiveInvStep == LiveInv /\ [LiveNext]_liveVars => LiveInv'
<1> SUFFICES ASSUME LiveInv, [LiveNext]_liveVars PROVE LiveInv'
  OBVIOUS
<1>1. CASE ToggleAuth \/ UNCHANGED liveVars
  <2>1. /\ authOff' \in BOOLEAN
        /\ UNCHANGED <<identity, opened, sidRoom, userRooms, connectionCount, change, sender,
                       shown, view, overtaken, crossed>>
    BY <1>1 DEF ToggleAuth, liveVars, LiveInv, LiveTypes
  <2>2. LiveTypes' /\ Bounded' /\ RoomsCounted'
    BY <2>1 DEF LiveInv, LiveTypes, Bounded, RoomsCounted
  <2>3. Followed'
    BY <2>1 DEF LiveInv, Followed, FreshAt, OwnAt, Brings, Casts, PageAnswers, Later
  <2> QED BY <2>2, <2>3 DEF LiveInv
<1> QED BY <1>1, Handlers, Leaves, Broadcasts, AnswerSent, CastSent DEF LiveNext

\* The invariant holds at the start.
LEMMA LiveInvInit == LiveInit => LiveInv
<1> SUFFICES ASSUME LiveInit PROVE LiveInv
  OBVIOUS
<1>1. Unused \in SenderRecord /\ Unused.version = 0 /\ Unused.job = "none"
  BY DEF Unused, SenderRecord
<1>2. LiveTypes
  BY <1>1 DEF LiveInit, LiveTypes
<1>3. Bounded
  BY <1>1 DEF LiveInit, Bounded
<1>4. RoomsCounted
  <2>1. ASSUME NEW u \in PageUser PROVE {p \in Page : sidRoom[p] = u} = {}
    BY LiveAssumption DEF LiveInit, LiveAssumption
  <2>2. {p \in Page : opened[p] = "open"} = {}
    BY DEF LiveInit
  <2> QED BY <2>1, <2>2, FS_EmptySet DEF LiveInit, RoomsCounted
<1>5. Followed
  BY DEF LiveInit, Followed, FreshAt, OwnAt
<1> QED BY <1>2, <1>3, <1>4, <1>5 DEF LiveInv

\* Whoever is behind is about to be told, and rooms count the pages in them.
THEOREM LiveInvariant == LiveSpec => []LiveInv
<1>1. LiveInit => LiveInv
  BY LiveInvInit
<1>2. LiveInv /\ [LiveNext]_liveVars => LiveInv'
  BY LiveInvStep
<1> QED BY <1>1, <1>2, PTL DEF LiveSpec

\* The types, and the counts of the rooms and of the connections, however pages connect, move
\* and leave.
THEOREM LiveTyped == LiveSpec => []LiveTypeOK
<1>1. LiveInv => LiveTypeOK
  <2> SUFFICES ASSUME LiveInv PROVE LiveTypeOK
    OBVIOUS
  <2>1. \A p \in Page : shown[p] \in 0 .. change
    BY DEF LiveInv, LiveTypes, Bounded
  <2>2. \A s \in Sender : sender[s].version \in 0 .. change /\ sender[s].rest \subseteq PageUser
    <3> SUFFICES ASSUME NEW s \in Sender
                 PROVE  sender[s].version \in 0 .. change /\ sender[s].rest \subseteq PageUser
      OBVIOUS
    <3>1. sender[s] \in SenderRecord /\ sender[s].version <= change /\ change \in Nat
      BY DEF LiveInv, LiveTypes, Bounded
    <3> QED BY <3>1 DEF SenderRecord
  <2> QED BY <2>1, <2>2 DEF LiveInv, LiveTypes, RoomsCounted, LiveTypeOK
<1> QED BY <1>1, LiveInvariant, PTL

\* A page shows the queue as it is, in its own view, when nobody is sending, unless an older
\* status reached it after a newer one or it changed rooms while a handler was reading.
THEOREM LivePagesUpToDate == LiveSpec => []PagesUpToDate
<1>1. LiveInv => PagesUpToDate
  <2> SUFFICES ASSUME LiveInv PROVE PagesUpToDate
    OBVIOUS
  <2>1. StaleOnlyByOvertaking
    <3>1. \A s \in Sender, p \in Page : sender[s] = Unused => ~Brings(s, p)
      BY DEF Unused, Brings, Casts, PageAnswers
    <3> QED BY <3>1 DEF LiveInv, Followed, FreshAt, StaleOnlyByOvertaking
  <2>2. OwnView
    BY DEF LiveInv, Followed, OwnAt, PageAnswers, OwnView
  <2> QED BY <2>1, <2>2 DEF PagesUpToDate
<1> QED BY <1>1, LiveInvariant, PTL

-----------------------------------------------------------------------------
(* Settings *)

(***************************************************************************)
(* The inductive invariant.  While no cooldown has made a refresh miss,    *)
(* the cache is what the files hold; and until a write fails, somebody     *)
(* saves, or a stop or the environment comes between the migrations, what  *)
(* the legacy settings say is carried over as a whole, an installation     *)
(* with download_sources.json keeps its direct downloads, and any other    *)
(* has what the defaults say.                                              *)
(***************************************************************************)
Boots == {"defaults", "environment", "environment2", "environment3", "environment4", "legacy",
          "legacy sources", "direct", "load"}
Serving == {"up", "onboard1", "onboard2", "onboard3", "onboard4", "onboard5"}

\* What a file does not hold reads as nothing, so a load gives what is stored.
SettingTypes ==
  /\ shape \in [SettingFile -> {"absent", "whole", "torn"}]
  /\ stored \in SettingState /\ cache \in SettingState /\ env \in SettingState
  /\ phase \in {"new", "down"} \cup Boots \cup Serving /\ tears \in Nat
  /\ existing \in BOOLEAN /\ cut \in BOOLEAN
  /\ \A k \in SettingKey \ Registered : env[k] = "none"
  /\ \A k \in SettingKey : shape[FileOf[k]] # "whole" => stored[k] = "none"
  /\ phase = "new" => stored = Unset
  /\ phase \in Serving \ {"up"} => touched

CacheCurrent == phase \in Serving /\ ~missed => cache = Reading(shape, stored)

\* No write has failed, nobody has saved anything, and nothing came between the migrations.
Untroubled == ~touched /\ ~cut /\ tears = 0
NoDirectVariable == \A e \in Environments : e["direct"] = "none"
Origin == {"fresh", "partial", "old"}
LegacyKept ==
  stored["legacy"] = "on" =>
    /\ stored["organization"] \in {"none", "on"}
    /\ stored["organization"] = "on" => stored["routing"] = "on" \/ phase = "legacy sources"
    /\ phase \in {"legacy sources", "direct", "load"} \cup Serving => stored["organization"] = "on"
OldKept ==
  /\ shape["sources"] = "whole" /\ (phase \notin {"new", "down"} => existing)
  /\ NoDirectVariable => /\ stored["direct"] \in {"none", "on"}
                         /\ phase \in {"load"} \cup Serving => stored["direct"] = "on"
DefaultKept ==
  NoDirectVariable => /\ shape["sources"] = "whole" => stored["direct"] = "off"
                      /\ phase \notin {"new", "down", "defaults"} => shape["sources"] = "whole"
MigrationsKept == LegacyKept /\ (origin = "old" => OldKept) /\ (origin # "old" => DefaultKept)
Installed ==
  Untroubled =>
    /\ \A f \in SettingFile : shape[f] # "torn"
    /\ phase = "new" => origin = "none" /\ \A f \in SettingFile : shape[f] = "absent"
    /\ phase # "new" => origin \in Origin
    /\ MigrationsKept
    /\ (NoDirectVariable => env["direct"] = "none")

SettingInv == SettingTypes /\ CacheCurrent /\ Installed

\* The settings, and the file each of them is in.
LEMMA SettingFacts ==
  /\ SettingKey = {"organization", "legacy", "routing", "direct", "selected", "enabled", "onboarded"}
  /\ SettingFile = {"downloads", "sources", "general", "hardcover"}
  /\ Registered = SettingKey \ {"legacy", "onboarded"}
  /\ \A k \in SettingKey : FileOf[k] \in SettingFile
  /\ FileOf["organization"] = "downloads" /\ FileOf["legacy"] = "downloads"
  /\ FileOf["routing"] = "sources" /\ FileOf["direct"] = "sources"
  /\ FileOf["selected"] = "general" /\ FileOf["enabled"] = "hardcover"
  /\ FileOf["onboarded"] = "general"
<1>1. SettingKey = {"organization", "legacy", "routing", "direct", "selected", "enabled", "onboarded"}
  BY DEF SettingKey, FileOf
<1>2. /\ FileOf["organization"] = "downloads" /\ FileOf["legacy"] = "downloads"
      /\ FileOf["routing"] = "sources" /\ FileOf["direct"] = "sources"
      /\ FileOf["selected"] = "general" /\ FileOf["enabled"] = "hardcover"
      /\ FileOf["onboarded"] = "general"
  BY DEF FileOf
<1>3. SettingFile = {"downloads", "sources", "general", "hardcover"}
  BY <1>1, <1>2 DEF SettingFile
<1>4. \A k \in SettingKey : FileOf[k] \in SettingFile
  BY DEF SettingFile
<1> QED BY <1>1, <1>2, <1>3, <1>4 DEF Registered

\* What a write leaves in the files that were read for it.
LEMMA SavedTyped ==
  ASSUME NEW sh \in [SettingFile -> {"absent", "whole", "torn"}], NEW st \in SettingState,
         NEW f \in SettingFile, NEW vals \in SettingState,
         \A k \in SettingKey : sh[FileOf[k]] # "whole" => st[k] = "none"
  PROVE  LET new == Saved(sh, st, f, vals) IN
         /\ new \in SettingState
         /\ \A k \in SettingKey :
              /\ new[k] = IF FileOf[k] = f /\ vals[k] # "none" THEN vals[k] ELSE st[k]
              /\ [sh EXCEPT ![f] = "whole"][FileOf[k]] # "whole" => new[k] = "none"
<1> DEFINE new == Saved(sh, st, f, vals)
<1>1. \A k \in SettingKey : Loaded(sh, st, k) = st[k]
  BY DEF Loaded
<1>2. new = [k \in SettingKey |-> IF FileOf[k] # f THEN st[k]
                                  ELSE IF vals[k] # "none" THEN vals[k] ELSE Loaded(sh, st, k)]
  BY DEF Saved
<1>3. \A k \in SettingKey : new[k] = IF FileOf[k] = f /\ vals[k] # "none" THEN vals[k] ELSE st[k]
  BY <1>1, <1>2
<1>4. new \in SettingState
  BY <1>2, <1>3 DEF SettingState
<1> HIDE DEF new
<1>5. \A k \in SettingKey : [sh EXCEPT ![f] = "whole"][FileOf[k]] # "whole" => new[k] = "none"
  BY <1>3, SettingFacts
<1> QED BY <1>3, <1>4, <1>5 DEF new

\* A write that is not torn adds its values to the file; no write is forgotten as torn.
LEMMA Writes ==
  ASSUME SettingTypes, NEW f \in SettingFile, NEW vals \in SettingState, WriteOrTear(f, vals)
  PROVE  /\ shape' \in [SettingFile -> {"absent", "whole", "torn"}] /\ stored' \in SettingState
         /\ \A k \in SettingKey : shape'[FileOf[k]] # "whole" => stored'[k] = "none"
         /\ tears' \in Nat
         /\ tears' = 0 =>
              /\ tears = 0
              /\ \A g \in SettingFile : shape'[g] = IF g = f THEN "whole" ELSE shape[g]
              /\ \A k \in SettingKey :
                   stored'[k] = IF FileOf[k] = f /\ vals[k] # "none" THEN vals[k] ELSE stored[k]
<1>1. /\ shape \in [SettingFile -> {"absent", "whole", "torn"}] /\ stored \in SettingState
      /\ tears \in Nat /\ \A k \in SettingKey : shape[FileOf[k]] # "whole" => stored[k] = "none"
  BY DEF SettingTypes
<1>2. CASE WriteFile(f, vals) /\ UNCHANGED tears
  <2>1. shape' = [shape EXCEPT ![f] = "whole"] /\ stored' = Saved(shape, stored, f, vals)
    BY <1>2 DEF WriteFile
  <2> QED BY <1>1, <1>2, <2>1, SavedTyped
<1>3. CASE TearFile(f)
  <2>1. /\ tears' = tears + 1 /\ shape' = [shape EXCEPT ![f] = "torn"]
        /\ stored' = [k \in SettingKey |-> IF FileOf[k] = f THEN "none" ELSE stored[k]]
    BY <1>3 DEF TearFile
  <2>2. tears' \in Nat /\ tears' # 0
    BY <1>1, <2>1
  <2>3. stored' \in SettingState
    BY <1>1, <2>1 DEF SettingState
  <2>4. \A k \in SettingKey : shape'[FileOf[k]] # "whole" => stored'[k] = "none"
    BY <1>1, <2>1, SettingFacts
  <2> QED BY <1>1, <2>1, <2>2, <2>3, <2>4
<1> QED BY <1>2, <1>3 DEF WriteOrTear

\* What the program reads is a value for every setting.
LEMMA ReadingTyped ==
  ASSUME NEW sh, NEW st \in SettingState, env \in SettingState
  PROVE  Reading(sh, st) \in SettingState
BY DEF Reading, SettingState, SettingValue, Loaded, Registered

\* One setting's value.
LEMMA OneTyped ==
  ASSUME NEW k \in SettingKey, NEW v \in {"on", "off", "none"}
  PROVE  /\ One(k, v) \in SettingState /\ One(k, v)[k] = v
         /\ \A x \in SettingKey \ {k} : One(k, v)[x] = "none"
         /\ Unset \in SettingState
BY DEF One, Unset, SettingState

\* A step that writes nothing.
LEMMA NothingWritten ==
  ASSUME SettingInv, UNCHANGED <<shape, stored, env, existing, tears>>, touched => touched',
         cut => cut', cut' \in BOOLEAN, cache' \in SettingState, CacheCurrent',
         phase \in {"new", "down"} \cup Boots \cup Serving,
         phase' \in {"down"} \cup Boots \cup Serving, phase # "new", origin' = origin,
         phase' \in Serving \ {"up"} => touched',
         phase' \in Boots \cup Serving => phase \in Boots \cup Serving,
         Untroubled' => /\ phase = "legacy sources" => phase' = "legacy sources"
                        /\ stored["legacy"] = "on"
                             /\ phase' \in {"legacy sources", "direct", "load"} \cup Serving
                             => stored["organization"] = "on"
                        /\ phase' \in {"load"} \cup Serving =>
                             phase \in {"load"} \cup Serving \/ ~(existing /\ stored["direct"] = "none")
                        /\ phase' \notin {"new", "down", "defaults"} =>
                             phase \notin {"new", "down", "defaults"}
                               \/ \A f \in SettingFile : shape[f] # "absent"
  PROVE  SettingInv'
<1>1. SettingTypes /\ Installed
  BY DEF SettingInv
<1>2. SettingTypes'
  BY <1>1 DEF SettingTypes, Boots, Serving
<1>3. Installed'
  <2> SUFFICES ASSUME Untroubled'
               PROVE  /\ \A f \in SettingFile : shape[f] # "torn"
                      /\ phase' # "new" /\ origin \in Origin
                      /\ LegacyKept'
                      /\ origin = "old" => OldKept'
                      /\ origin # "old" => DefaultKept'
                      /\ (NoDirectVariable => env["direct"] = "none")
    BY DEF Installed, MigrationsKept, Boots, Serving
  <2>1. Untroubled
    BY DEF Untroubled
  <2>2. /\ \A f \in SettingFile : shape[f] # "torn"
        /\ origin \in Origin
        /\ LegacyKept
        /\ origin = "old" => OldKept
        /\ origin # "old" => DefaultKept
        /\ (NoDirectVariable => env["direct"] = "none")
    BY <1>1, <2>1 DEF Installed, MigrationsKept
  <2>3. ASSUME origin = "old" PROVE OldKept'
    BY <2>2, <2>3 DEF OldKept, Boots, Serving, NoDirectVariable
  <2>4. ASSUME origin # "old" PROVE DefaultKept'
    <3>1. shape["sources"] \in {"absent", "whole", "torn"} /\ "sources" \in SettingFile
      BY <1>1, SettingFacts DEF SettingTypes
    <3> QED BY <2>2, <2>4, <3>1 DEF DefaultKept, NoDirectVariable
  <2>5. LegacyKept'
    BY <2>2 DEF LegacyKept
  <2> QED BY <2>2, <2>3, <2>4, <2>5 DEF Boots, Serving
<1> QED BY <1>2, <1>3 DEF SettingInv

\* A write of the start-up.
LEMMA BootWrite ==
  ASSUME SettingInv, NEW f \in SettingFile, NEW vals \in SettingState, WriteOrTear(f, vals),
         UNCHANGED <<env, existing, origin, cache, touched>>, cut => cut', cut' \in BOOLEAN,
         phase \in Boots, phase' \in Boots, vals["legacy"] = "none",
         Untroubled' /\ stored["legacy"] = "on" =>
           /\ stored'["organization"] \in {"none", "on"}
           /\ stored'["organization"] = "on" => stored'["routing"] = "on" \/ phase' = "legacy sources"
           /\ phase' \in {"legacy sources", "direct", "load"} => stored'["organization"] = "on",
         Untroubled' /\ origin = "old" /\ NoDirectVariable =>
           /\ stored'["direct"] \in {"none", "on"}
           /\ phase' = "load" => stored'["direct"] = "on",
         Untroubled' /\ origin # "old" /\ NoDirectVariable =>
           /\ shape'["sources"] = "whole" => stored'["direct"] = "off"
           /\ phase' # "defaults" => shape'["sources"] = "whole"
  PROVE  SettingInv'
<1>1. SettingTypes /\ Installed
  BY DEF SettingInv
<1>2. /\ shape' \in [SettingFile -> {"absent", "whole", "torn"}] /\ stored' \in SettingState
      /\ \A k \in SettingKey : shape'[FileOf[k]] # "whole" => stored'[k] = "none"
      /\ tears' \in Nat
      /\ tears' = 0 =>
           /\ tears = 0
           /\ \A g \in SettingFile : shape'[g] = IF g = f THEN "whole" ELSE shape[g]
           /\ \A k \in SettingKey :
                stored'[k] = IF FileOf[k] = f /\ vals[k] # "none" THEN vals[k] ELSE stored[k]
  BY ONLY <1>1, Writes, f \in SettingFile, vals \in SettingState, WriteOrTear(f, vals)
<1>3. phase' \notin Serving /\ phase' \notin {"new", "down"} /\ phase \notin {"new", "down"}
  BY DEF Boots, Serving
<1>4. SettingTypes'
  BY <1>1, <1>2, <1>3 DEF SettingTypes
<1>5. CacheCurrent'
  BY <1>3 DEF CacheCurrent
<1>6. Installed'
  <2> SUFFICES ASSUME Untroubled'
               PROVE  /\ \A g \in SettingFile : shape'[g] # "torn"
                      /\ origin \in Origin
                      /\ LegacyKept'
                      /\ origin = "old" => OldKept'
                      /\ origin # "old" => DefaultKept'
                      /\ (NoDirectVariable => env["direct"] = "none")
    BY <1>3 DEF Installed, MigrationsKept
  <2>1. Untroubled /\ tears' = 0
    BY <1>2 DEF Untroubled
  <2>2. /\ \A g \in SettingFile : shape[g] # "torn"
        /\ origin \in Origin
        /\ LegacyKept
        /\ origin = "old" => OldKept
        /\ origin # "old" => DefaultKept
        /\ (NoDirectVariable => env["direct"] = "none")
    BY <1>1, <1>3, <2>1 DEF Installed, MigrationsKept
  <2>3. stored'["legacy"] = stored["legacy"]
    BY <1>2, <2>1, SettingFacts
  <2>4. ASSUME origin = "old" PROVE OldKept'
    <3>1. shape'["sources"] = "whole" /\ existing
      BY <1>2, <1>3, <2>1, <2>2, <2>4, SettingFacts DEF OldKept
    <3> QED BY <1>3, <2>4, <3>1 DEF OldKept, NoDirectVariable
  <2>5. ASSUME origin # "old" PROVE DefaultKept'
    BY <1>3, <2>2, <2>5 DEF DefaultKept, NoDirectVariable
  <2>6. \A g \in SettingFile : shape'[g] # "torn"
    BY <1>2, <2>1, <2>2
  <2>7. LegacyKept'
    BY <1>3, <2>3 DEF LegacyKept
  <2> QED BY <2>2, <2>4, <2>5, <2>6, <2>7
<1> QED BY <1>4, <1>5, <1>6 DEF SettingInv

\* What the start-up of an untroubled installation finds.
LEMMA BootFinds ==
  ASSUME SettingInv, phase \in Boots, Untroubled
  PROVE  /\ origin \in Origin /\ \A f \in SettingFile : shape[f] # "torn"
         /\ LegacyKept
         /\ origin = "old" => OldKept
         /\ origin # "old" => DefaultKept
         /\ (NoDirectVariable => env["direct"] = "none")
BY DEF SettingInv, Installed, MigrationsKept, Boots

\* The defaults of the files that are not there.
LEMMA DefaultsStep ==
  ASSUME SettingInv, WriteDefaults
  PROVE  SettingInv'
<1> DEFINE defaults == [k \in SettingKey |-> IF k \in Registered THEN "off" ELSE "none"]
<1>1. /\ SettingTypes /\ phase = "defaults"
      /\ UNCHANGED <<env, existing, cache, cooling, origin, stops, missed, touched, cut>>
  BY DEF WriteDefaults, SettingInv
<1>2. CASE \E f \in SettingFile : shape[f] = "absent"
  <2>1. PICK f \in SettingFile : /\ shape[f] = "absent" /\ WriteOrTear(f, defaults)
                                 /\ UNCHANGED phase
    BY <1>2 DEF WriteDefaults
  <2>2. /\ defaults \in SettingState /\ defaults["legacy"] = "none" /\ defaults["direct"] = "off"
    BY SettingFacts DEF SettingState
  <2> HIDE DEF defaults
  <2>3. tears' = 0 =>
           /\ tears = 0
           /\ \A g \in SettingFile : shape'[g] = IF g = f THEN "whole" ELSE shape[g]
           /\ \A k \in SettingKey :
                stored'[k] = IF FileOf[k] = f /\ defaults[k] # "none" THEN defaults[k] ELSE stored[k]
    BY <1>1, <2>1, <2>2, Writes
  <2>4. ASSUME Untroubled'
        PROVE  Untroubled /\ tears' = 0
    BY <1>1, <2>3, <2>4 DEF Untroubled
  <2>5. ASSUME Untroubled', origin = "old", NoDirectVariable
        PROVE  stored'["direct"] \in {"none", "on"}
    <3>1. OldKept
      BY <1>1, <2>4, <2>5, BootFinds DEF Boots
    <3> QED BY <2>1, <2>3, <2>4, <2>5, <3>1, SettingFacts DEF OldKept
  <2>6. ASSUME Untroubled', origin # "old", NoDirectVariable, shape'["sources"] = "whole"
        PROVE  stored'["direct"] = "off"
    <3>1. DefaultKept
      BY <1>1, <2>4, <2>6, BootFinds DEF Boots
    <3> QED BY <2>2, <2>3, <2>4, <2>6, <3>1, SettingFacts DEF DefaultKept
  <2>7. phase' = "defaults" /\ phase \in Boots
    BY <1>1, <2>1 DEF Boots
  <2>8. ASSUME Untroubled', stored["legacy"] = "on"
        PROVE  /\ stored'["organization"] \in {"none", "on"}
               /\ stored'["organization"] = "on" => stored'["routing"] = "on"
    <3>1. LegacyKept
      BY <2>4, <2>7, <2>8, BootFinds
    <3>2. f # "downloads" /\ (stored["routing"] = "on" => f # "sources")
      BY <1>1, <2>1, <2>8, SettingFacts DEF SettingTypes
    <3>3. stored'["organization"] = stored["organization"]
      BY <2>3, <2>4, <2>8, <3>2, SettingFacts
    <3>4. stored["routing"] = "on" => stored'["routing"] = "on"
      BY <2>3, <2>4, <2>8, <3>2, SettingFacts
    <3> QED BY <1>1, <2>8, <3>1, <3>3, <3>4 DEF LegacyKept
  <2>9. cut \in BOOLEAN /\ cut' \in BOOLEAN
    BY <1>1 DEF SettingTypes
  <2> QED BY <1>1, <2>1, <2>2, <2>5, <2>6, <2>7, <2>8, <2>9, BootWrite
<1>3. CASE \A f \in SettingFile : shape[f] # "absent"
  <2>1. phase' = "environment" /\ UNCHANGED <<shape, stored, tears>>
    BY <1>3 DEF WriteDefaults
  <2> QED BY <1>1, <1>3, <2>1, NothingWritten DEF Boots, Serving, SettingTypes, CacheCurrent
<1> QED BY <1>2, <1>3

\* A step with the environment's variables goes through the files in turn.
LEMMA SyncFacts ==
  ASSUME phase \in DOMAIN SyncStep
  PROVE  /\ phase \in {"environment", "environment2", "environment3", "environment4"}
         /\ SyncStep[phase].file \in SettingFile
         /\ SyncStep[phase].next \in {"environment2", "environment3", "environment4", "legacy"}
<1>1. DOMAIN SyncStep = {"environment", "environment2", "environment3", "environment4"}
  BY DEF SyncStep
<1>2. /\ SyncStep["environment"].file = "general" /\ SyncStep["environment"].next = "environment2"
      /\ SyncStep["environment2"].file = "downloads" /\ SyncStep["environment2"].next = "environment3"
      /\ SyncStep["environment3"].file = "sources" /\ SyncStep["environment3"].next = "environment4"
      /\ SyncStep["environment4"].file = "hardcover" /\ SyncStep["environment4"].next = "legacy"
  BY DEF SyncStep
<1> QED BY <1>1, <1>2, SettingFacts

\* The environment's variables of one file.
LEMMA SyncStepKeeps ==
  ASSUME SettingInv, SyncEnvironment
  PROVE  SettingInv'
<1> DEFINE f == SyncStep[phase].file
<1>1. /\ phase \in DOMAIN SyncStep /\ phase' = SyncStep[phase].next
      /\ (\E k \in Registered : FileOf[k] = f /\ env[k] # "none") \/ UNCHANGED <<shape, stored, tears>>
      /\ (\E k \in Registered : FileOf[k] = f /\ env[k] # "none") => WriteOrTear(f, env)
      /\ ~(\E k \in Registered : FileOf[k] = f /\ env[k] # "none") => UNCHANGED <<shape, stored, tears>>
      /\ cut' = (cut \/ \E k \in {"organization", "routing"} : FileOf[k] = f /\ env[k] # "none")
      /\ UNCHANGED <<env, existing, cache, cooling, origin, stops, missed, touched>>
  BY DEF SyncEnvironment
<1>2. /\ SettingTypes /\ f \in SettingFile
      /\ phase \in {"environment", "environment2", "environment3", "environment4"}
      /\ phase' \in {"environment2", "environment3", "environment4", "legacy"}
  BY <1>1, SyncFacts DEF SettingInv
<1> HIDE DEF f
<1>3. phase \in Boots /\ phase' \in Boots /\ phase' \notin Serving /\ cut' \in BOOLEAN
  BY <1>1, <1>2 DEF Boots, Serving, SettingTypes
<1>4. CASE UNCHANGED <<shape, stored, tears>>
  <2>1. /\ phase # "new" /\ phase # "legacy sources" /\ phase \notin {"new", "down", "defaults"}
        /\ phase' \notin {"legacy sources", "direct", "load"} \cup Serving
    BY <1>2, <1>3 DEF Boots, Serving
  <2>2. cache' \in SettingState /\ CacheCurrent'
    BY <1>1, <1>2, <1>3 DEF SettingTypes, CacheCurrent
  <2>3. /\ UNCHANGED <<shape, stored, env, existing, tears>> /\ (touched => touched')
        /\ (cut => cut') /\ origin' = origin
    BY <1>1, <1>4
  <2> QED BY <1>3, <2>1, <2>2, <2>3, NothingWritten
<1>5. CASE WriteOrTear(f, env)
  <2>1. env \in SettingState /\ env["legacy"] = "none"
    BY <1>2, SettingFacts DEF SettingTypes
  <2>2. tears' = 0 =>
           /\ tears = 0
           /\ \A g \in SettingFile : shape'[g] = IF g = f THEN "whole" ELSE shape[g]
           /\ \A k \in SettingKey :
                stored'[k] = IF FileOf[k] = f /\ env[k] # "none" THEN env[k] ELSE stored[k]
    BY <1>2, <1>5, <2>1, Writes
  <2>3. ASSUME Untroubled'
        PROVE  /\ Untroubled /\ tears' = 0
               /\ \A k \in {"organization", "routing"} : stored'[k] = stored[k]
    BY <1>1, <2>2, <2>3, SettingFacts DEF Untroubled
  <2>4. ASSUME Untroubled', NoDirectVariable
        PROVE  stored'["direct"] = stored["direct"]
    <3>1. env["direct"] = "none"
      BY <1>3, <2>3, <2>4, BootFinds
    <3> QED BY <2>2, <2>3, <2>4, <3>1, SettingFacts
  <2>5. ASSUME Untroubled', stored["legacy"] = "on"
        PROVE  /\ stored'["organization"] \in {"none", "on"}
               /\ stored'["organization"] = "on" => stored'["routing"] = "on"
    <3>1. LegacyKept
      BY <1>3, <2>3, <2>5, BootFinds
    <3> QED BY <1>2, <2>3, <2>5, <3>1 DEF LegacyKept
  <2>8. ASSUME Untroubled', origin = "old", NoDirectVariable
        PROVE  stored'["direct"] \in {"none", "on"}
    <3>1. OldKept
      BY <1>3, <2>3, <2>8, BootFinds
    <3> QED BY <2>4, <2>8, <3>1 DEF OldKept
  <2>6. ASSUME Untroubled', origin # "old", NoDirectVariable
        PROVE  shape'["sources"] = "whole" /\ stored'["direct"] = "off"
    <3>1. DefaultKept
      BY <1>3, <2>3, <2>6, BootFinds
    <3>2. shape["sources"] = "whole" /\ stored["direct"] = "off"
      BY <1>2, <2>6, <3>1 DEF DefaultKept
    <3> QED BY <2>2, <2>3, <2>4, <2>6, <3>2, SettingFacts
  <2>7. phase' \notin {"legacy sources", "direct", "load"}
    BY <1>2
  <2> QED BY <1>1, <1>2, <1>3, <1>5, <2>1, <2>5, <2>6, <2>7, <2>8, BootWrite
<1> QED BY <1>1, <1>4, <1>5

\* The migrations of an old installation.
LEMMA MigrationSteps ==
  ASSUME SettingInv, MigrateDownloads \/ MigrateSources \/ MigrateDirect
  PROVE  SettingInv'
<1>1. /\ SettingTypes
      /\ UNCHANGED <<env, existing, cache, cooling, origin, stops, missed, touched, cut>>
  BY DEF MigrateDownloads, MigrateSources, MigrateDirect, SettingInv
<1>2. \A k \in SettingKey : Loaded(shape, stored, k) = stored[k]
  BY <1>1 DEF Loaded, SettingTypes
<1>3. \A k \in SettingKey : One(k, "on") \in SettingState /\ One(k, "on")[k] = "on"
                            /\ \A x \in SettingKey \ {k} : One(k, "on")[x] = "none"
  BY OneTyped
<1>4. ASSUME tears' = 0 => tears = 0, Untroubled'
      PROVE  Untroubled
  BY <1>1, <1>4 DEF Untroubled
<1>5. cut \in BOOLEAN /\ cut' \in BOOLEAN /\ (cut => cut') /\ (touched => touched')
  BY <1>1 DEF SettingTypes
<1>6. ASSUME phase \in Boots, phase' \in Boots, phase # "legacy sources",
             UNCHANGED <<shape, stored, tears>>,
             Untroubled' /\ stored["legacy"] = "on" /\ phase' \in {"legacy sources", "direct", "load"}
               => stored["organization"] = "on",
             Untroubled' /\ phase' = "load" => ~(existing /\ stored["direct"] = "none"),
             phase # "defaults"
      PROVE  SettingInv'
  <2>1. /\ phase # "new" /\ phase \notin {"new", "down", "defaults"} /\ phase' \notin Serving
    BY <1>6 DEF Boots, Serving
  <2>2. cache' \in SettingState /\ CacheCurrent'
    BY <1>1, <2>1 DEF SettingTypes, CacheCurrent
  <2> QED BY <1>1, <1>5, <1>6, <2>1, <2>2, NothingWritten
<1>7. ASSUME phase \in Boots, phase' \in Boots, NEW f \in SettingFile, NEW k \in SettingKey \ {"legacy"},
             WriteOrTear(f, One(k, "on")), FileOf[k] = f,
             k = "organization" => phase' = "legacy sources",
             k = "routing" => phase = "legacy sources" /\ phase' = "direct",
             k = "direct" => phase = "direct" /\ phase' = "load" /\ existing /\ stored["direct"] = "none",
             k \in {"organization", "routing", "direct"}, phase # "defaults",
             k = "organization" => stored["legacy"] = "on"
      PROVE  SettingInv'
  <2> DEFINE vals == One(k, "on")
  <2>1. vals \in SettingState /\ vals["legacy"] = "none"
    BY <1>3, <1>7, SettingFacts
  <2>8. WriteOrTear(f, vals) /\ SettingTypes
    BY <1>1, <1>7
  <2>9. vals[k] = "on" /\ \A x \in SettingKey \ {k} : vals[x] = "none"
    BY <1>3
  <2> HIDE DEF vals
  <2>2. tears' = 0 =>
           /\ tears = 0
           /\ \A g \in SettingFile : shape'[g] = IF g = f THEN "whole" ELSE shape[g]
           /\ \A x \in SettingKey :
                stored'[x] = IF FileOf[x] = f /\ vals[x] # "none" THEN vals[x] ELSE stored[x]
    BY ONLY <2>1, <2>8, Writes, f \in SettingFile
  <2>3. ASSUME Untroubled'
        PROVE  /\ Untroubled /\ tears' = 0
               /\ \A x \in SettingKey : stored'[x] = IF x = k THEN "on" ELSE stored[x]
    <3>1. tears' = 0 /\ Untroubled
      BY <1>4, <2>2, <2>3 DEF Untroubled
    <3>2. \A x \in SettingKey : stored'[x] = IF FileOf[x] = f /\ vals[x] # "none" THEN vals[x] ELSE stored[x]
      BY <2>2, <3>1
    <3> QED BY <1>7, <2>9, <3>1, <3>2
  <2>4. ASSUME Untroubled', stored["legacy"] = "on"
        PROVE  /\ stored'["organization"] \in {"none", "on"}
               /\ stored'["organization"] = "on" => stored'["routing"] = "on" \/ phase' = "legacy sources"
               /\ phase' \in {"legacy sources", "direct", "load"} => stored'["organization"] = "on"
    <3>1. LegacyKept
      BY <1>7, <2>3, <2>4, BootFinds
    <3>2. \A x \in {"organization", "routing", "direct"} :
             stored'[x] = IF x = k THEN "on" ELSE stored[x]
      BY <2>3, <2>4, SettingFacts
    <3>3. CASE k = "organization" BY <1>7, <2>4, <3>1, <3>2, <3>3 DEF LegacyKept
    <3>4. CASE k = "routing" BY <1>7, <2>4, <3>1, <3>2, <3>4 DEF LegacyKept
    <3>5. CASE k = "direct" BY <1>7, <2>4, <3>1, <3>2, <3>5 DEF LegacyKept
    <3> QED BY <1>7, <3>3, <3>4, <3>5
  <2>6. ASSUME Untroubled', origin = "old", NoDirectVariable
        PROVE  /\ stored'["direct"] \in {"none", "on"}
               /\ phase' = "load" => stored'["direct"] = "on"
    <3>1. OldKept
      BY <1>7, <2>3, <2>6, BootFinds
    <3>2. stored'["direct"] = IF "direct" = k THEN "on" ELSE stored["direct"]
      BY <2>3, <2>6, SettingFacts
    <3>3. phase' = "load" => k = "direct"
      BY <1>7
    <3> QED BY <2>6, <3>1, <3>2, <3>3 DEF OldKept
  <2>5. ASSUME Untroubled', origin # "old", NoDirectVariable
        PROVE  shape'["sources"] = "whole" /\ stored'["direct"] = "off"
    <3>1. DefaultKept
      BY <1>7, <2>3, <2>5, BootFinds
    <3>2. shape["sources"] = "whole" /\ stored["direct"] = "off"
      BY <1>7, <2>5, <3>1 DEF DefaultKept, Boots
    <3>3. k # "direct"
      BY <1>7, <3>2
    <3> QED BY <2>2, <2>3, <2>5, <3>2, <3>3, SettingFacts
  <2> QED BY <1>1, <1>5, <1>7, <2>1, <2>4, <2>5, <2>6, BootWrite DEF vals
<1>8. CASE MigrateDownloads
  <2>1. phase = "legacy" /\ phase \in Boots
    BY <1>8 DEF MigrateDownloads, Boots
  <2>2. CASE Migrating
    <3>1. /\ WriteOrTear("downloads", One("organization", "on")) /\ phase' = "legacy sources"
          /\ stored["legacy"] = "on" /\ phase' \in Boots
      BY <1>2, <1>8, <2>2, SettingFacts DEF MigrateDownloads, Migrating, Boots
    <3> QED BY <1>7, <2>1, <3>1, SettingFacts
  <2>3. CASE ~Migrating
    <3>1. phase' = "direct" /\ UNCHANGED <<shape, stored, tears>> /\ phase' \in Boots
      BY <1>8, <2>3 DEF MigrateDownloads, Boots
    <3>2. ASSUME Untroubled', stored["legacy"] = "on" PROVE stored["organization"] = "on"
      <4>1. LegacyKept
        BY <1>4, <2>1, <3>1, <3>2, BootFinds
      <4> QED BY <1>2, <2>3, <3>2, <4>1, SettingFacts DEF LegacyKept, Migrating
    <3> QED BY <1>6, <2>1, <3>1, <3>2
  <2> QED BY <2>2, <2>3
<1>9. CASE MigrateSources
  <2>1. /\ phase = "legacy sources" /\ WriteOrTear("sources", One("routing", "on")) /\ phase' = "direct"
        /\ phase \in Boots /\ phase' \in Boots
    BY <1>9 DEF MigrateSources, Boots
  <2> QED BY <1>7, <2>1, SettingFacts
<1>10. CASE MigrateDirect
  <2>1. phase = "direct" /\ phase' = "load" /\ phase \in Boots /\ phase' \in Boots
    BY <1>10 DEF MigrateDirect, Boots
  <2>2. CASE existing /\ Loaded(shape, stored, "direct") = "none"
    <3>1. WriteOrTear("sources", One("direct", "on")) /\ stored["direct"] = "none"
      BY <1>2, <1>10, <2>2, SettingFacts DEF MigrateDirect
    <3> QED BY <1>7, <2>1, <2>2, <3>1, SettingFacts
  <2>3. CASE ~(existing /\ Loaded(shape, stored, "direct") = "none")
    <3>1. UNCHANGED <<shape, stored, tears>> /\ ~(existing /\ stored["direct"] = "none")
      BY <1>2, <1>10, <2>3, SettingFacts DEF MigrateDirect
    <3>2. ASSUME Untroubled', stored["legacy"] = "on" PROVE stored["organization"] = "on"
      <4>1. LegacyKept
        BY <1>4, <2>1, <3>1, <3>2, BootFinds
      <4> QED BY <2>1, <3>2, <4>1 DEF LegacyKept
    <3> QED BY <1>6, <2>1, <3>1, <3>2
  <2> QED BY <2>2, <2>3
<1> QED BY <1>8, <1>9, <1>10

\* The installation is there, new or of an earlier version, and a process begins.
LEMMA BeginSteps ==
  ASSUME SettingInv, InstallFresh \/ (\E left \in Installations : Install(left)) \/ Boot
  PROVE  SettingInv'
<1>1. SettingTypes /\ Installed
  BY DEF SettingInv
<1>2. CASE InstallFresh
  <2>1. /\ phase = "new" /\ phase' = "down" /\ origin' = "fresh" /\ UNCHANGED <<shape, stored>>
        /\ UNCHANGED <<env, existing, cache, cooling, stops, tears, missed, touched, cut>>
    BY <1>2 DEF InstallFresh
  <2>2. stored = Unset /\ stored["legacy"] = "none" /\ "sources" \in SettingFile
    BY <1>1, <2>1, SettingFacts DEF SettingTypes, Unset
  <2>3. SettingTypes' /\ CacheCurrent'
    BY <1>1, <2>1, <2>2 DEF SettingTypes, CacheCurrent, Serving
  <2>4. ASSUME Untroubled PROVE DefaultKept' /\ LegacyKept'
    <3>1. shape["sources"] = "absent"
      BY <1>1, <2>1, <2>2, <2>4 DEF Installed
    <3> QED BY <2>1, <2>2, <3>1 DEF DefaultKept, LegacyKept
  <2>5. Untroubled' => Untroubled
    BY <2>1 DEF Untroubled
  <2>6. Installed'
    BY <1>1, <2>1, <2>4, <2>5 DEF Installed, MigrationsKept, Origin, NoDirectVariable
  <2> QED BY <2>3, <2>6 DEF SettingInv
<1>4. ASSUME NEW left \in Installations, Install(left) PROVE SettingInv'
  <2>1. /\ phase = "new" /\ phase' = "down"
        /\ origin' = IF "sources" \in left THEN "old" ELSE "partial"
        /\ shape' = [f \in SettingFile |-> IF f \in left THEN "whole" ELSE "absent"]
        /\ stored' = IF "downloads" \in left THEN One("legacy", "on") ELSE Unset
        /\ UNCHANGED <<env, existing, cache, cooling, stops, tears, missed, touched, cut>>
    BY <1>4 DEF Install
  <2>2. /\ stored' \in SettingState
        /\ \A x \in SettingKey \ {"legacy"} : stored'[x] = "none"
        /\ "downloads" \notin left => stored'["legacy"] = "none"
    BY <2>1, OneTyped, SettingFacts DEF Unset
  <2>3. shape' \in [SettingFile -> {"absent", "whole", "torn"}]
    BY <2>1
  <2>4. \A k \in SettingKey : shape'[FileOf[k]] # "whole" => stored'[k] = "none"
    BY <2>1, <2>2, SettingFacts
  <2>5. SettingTypes' /\ CacheCurrent'
    BY <1>1, <2>1, <2>2, <2>3, <2>4 DEF SettingTypes, CacheCurrent, Serving
  <2>6. LegacyKept'
    BY <2>1, <2>2, SettingFacts DEF LegacyKept, Serving
  <2>7. ASSUME "sources" \in left PROVE OldKept'
    BY <2>1, <2>2, <2>7, SettingFacts DEF OldKept, Serving
  <2>8. ASSUME "sources" \notin left PROVE DefaultKept'
    BY <2>1, <2>2, <2>8, SettingFacts DEF DefaultKept
  <2>9. (Untroubled' => Untroubled) /\ \A f \in SettingFile : shape'[f] # "torn"
    BY <2>1 DEF Untroubled
  <2>10. Installed'
    <3>1. MigrationsKept' /\ origin' \in Origin
      BY <2>1, <2>6, <2>7, <2>8 DEF MigrationsKept, Origin
    <3> QED BY <1>1, <2>1, <2>9, <3>1 DEF Installed, NoDirectVariable
  <2> QED BY <2>5, <2>10 DEF SettingInv
<1>3. CASE Boot
  <2>1. /\ phase = "down" /\ phase' = "defaults" /\ env' \in Environments
        /\ existing' = (origin # "fresh" \/ \E f \in SettingFile : shape[f] # "absent")
        /\ UNCHANGED <<shape, stored, cache, cooling, origin, stops, tears, missed, touched, cut>>
    BY <1>3 DEF Boot
  <2>2. /\ env' \in SettingState /\ \A k \in SettingKey \ Registered : env'[k] = "none"
        /\ (NoDirectVariable => env'["direct"] = "none")
    BY <2>1, SettingsAssumption DEF SettingsAssumption, NoDirectVariable
  <2>3. SettingTypes' /\ CacheCurrent'
    BY <1>1, <2>1, <2>2 DEF SettingTypes, CacheCurrent, Boots, Serving
  <2>4. Installed'
    <3> SUFFICES ASSUME Untroubled'
                 PROVE  /\ \A f \in SettingFile : shape[f] # "torn"
                        /\ origin \in Origin
                        /\ LegacyKept'
                        /\ origin = "old" => OldKept'
                        /\ origin # "old" => DefaultKept'
      BY <2>1, <2>2 DEF Installed, MigrationsKept, NoDirectVariable
    <3>1. /\ \A f \in SettingFile : shape[f] # "torn"
          /\ origin \in Origin
          /\ LegacyKept
          /\ origin = "old" => OldKept
          /\ origin # "old" => DefaultKept
      <4>1. Untroubled
        BY <2>1 DEF Untroubled
      <4> QED BY <1>1, <2>1, <4>1 DEF Installed, MigrationsKept
    <3>2. ASSUME origin = "old" PROVE OldKept'
      <4>1. existing'
        BY <2>1, <3>2
      <4> QED BY <2>1, <3>1, <3>2, <4>1 DEF OldKept, NoDirectVariable, Serving
    <3>3. ASSUME origin # "old" PROVE DefaultKept'
      BY <2>1, <3>1, <3>3 DEF DefaultKept, NoDirectVariable
    <3>4. LegacyKept'
      BY <2>1, <3>1 DEF LegacyKept, Serving
    <3> QED BY <3>1, <3>2, <3>3, <3>4
  <2> QED BY <2>3, <2>4 DEF SettingInv
<1> QED BY <1>2, <1>3, <1>4

\* The cache is loaded, refreshed, or goes with the process.
LEMMA CacheSteps ==
  ASSUME SettingInv,
         FirstLoad \/ CooldownPasses \/ BeginOnboarding \/ EndOnboarding \/ Stop
           \/ \E forced \in BOOLEAN : Refresh(forced)
  PROVE  SettingInv'
<1>1. SettingTypes /\ Installed /\ CacheCurrent
  BY DEF SettingInv
<1>2. Reading(shape, stored) \in SettingState /\ Unset \in SettingState /\ cache \in SettingState
  BY <1>1, ReadingTyped, OneTyped, SettingFacts DEF SettingTypes
<1>3. /\ UNCHANGED <<shape, stored, env, existing, tears, origin>> /\ (touched => touched')
      /\ (cut => cut') /\ cut' \in BOOLEAN
  BY <1>1 DEF FirstLoad, CooldownPasses, BeginOnboarding, EndOnboarding, Stop, Refresh, SettingTypes
<1>4. UNCHANGED <<shape, stored, env>> => UNCHANGED Reading(shape, stored)
  BY DEF Reading, SettingValue, Loaded
<1>5. CASE FirstLoad
  <2>1. phase = "load" /\ phase' = "up" /\ cache' = Reading(shape, stored) /\ ~missed'
    BY <1>5 DEF FirstLoad
  <2>2. CacheCurrent' /\ cache' \in SettingState
    BY <1>2, <1>3, <1>4, <2>1 DEF CacheCurrent
  <2>3. Untroubled' => Untroubled
    BY <1>3 DEF Untroubled
  <2>4. Untroubled' /\ stored["legacy"] = "on" => stored["organization"] = "on"
    BY <1>1, <2>1, <2>3 DEF Installed, MigrationsKept, LegacyKept
  <2> QED BY <1>3, <2>1, <2>2, <2>4, NothingWritten DEF Boots, Serving
<1>6. CASE CooldownPasses
  <2>1. UNCHANGED <<phase, cache, missed>> /\ (Untroubled' => Untroubled)
    BY <1>6 DEF CooldownPasses, Untroubled
  <2>2. CacheCurrent'
    BY <1>1, <1>3, <1>4, <2>1 DEF CacheCurrent
  <2>3. SettingTypes'
    BY <1>1, <1>6, <2>1 DEF CooldownPasses, SettingTypes
  <2>4. Installed'
    BY <1>1, <1>6 DEF CooldownPasses, Installed, MigrationsKept, LegacyKept, OldKept, DefaultKept, Untroubled, NoDirectVariable
  <2> QED BY <2>2, <2>3, <2>4 DEF SettingInv
<1>7. CASE BeginOnboarding
  <2>1. phase = "up" /\ phase' = "onboard1" /\ UNCHANGED <<cache, missed>> /\ touched'
    BY <1>7 DEF BeginOnboarding
  <2>2. CacheCurrent' /\ cache' \in SettingState
    BY <1>1, <1>2, <1>3, <1>4, <2>1 DEF CacheCurrent, Serving
  <2>3. ~Untroubled'
    BY <2>1 DEF Untroubled
  <2> QED BY <1>3, <2>1, <2>2, <2>3, NothingWritten DEF Boots, Serving
<1>8. CASE EndOnboarding
  <2>1. /\ phase = "onboard5" /\ phase' = "up" /\ cache' = Refreshed(FALSE, cache, shape, stored)
        /\ missed' = (missed /\ cooling) /\ UNCHANGED touched
    BY <1>8 DEF EndOnboarding
  <2>2. cache' = IF ~cooling THEN Reading(shape, stored) ELSE cache
    BY <2>1 DEF Refreshed
  <2>3. CacheCurrent' /\ cache' \in SettingState
    BY <1>1, <1>2, <1>3, <1>4, <2>1, <2>2 DEF CacheCurrent, Serving
  <2>4. ~Untroubled'
    BY <1>1, <2>1 DEF Untroubled, SettingTypes, Serving
  <2> QED BY <1>3, <2>1, <2>3, <2>4, NothingWritten DEF Boots, Serving
<1>9. CASE Stop
  <2>1. /\ phase \notin {"new", "down"} /\ phase' = "down" /\ cache' = Unset
        /\ cut' = (cut \/ phase = "legacy sources")
    BY <1>9 DEF Stop
  <2>2. CacheCurrent' /\ cache' \in SettingState
    BY <1>2, <2>1 DEF CacheCurrent, Serving
  <2>3. Untroubled' => phase # "legacy sources"
    BY <2>1 DEF Untroubled
  <2>4. phase \in Boots \cup Serving
    BY <1>1, <2>1 DEF SettingTypes
  <2> QED BY <1>3, <2>1, <2>2, <2>3, <2>4, NothingWritten DEF Boots, Serving
<1>10. ASSUME NEW forced \in BOOLEAN, Refresh(forced) PROVE SettingInv'
  <2>1. /\ phase = "up" /\ UNCHANGED <<phase, touched>> /\ ~missed'
        /\ cache' = Reading(shape, stored)
    BY <1>10 DEF Refresh, Refreshed
  <2>2. CacheCurrent' /\ cache' \in SettingState
    BY <1>2, <1>3, <1>4, <2>1 DEF CacheCurrent
  <2>3. Untroubled' => Untroubled
    BY <1>3, <2>1 DEF Untroubled
  <2>4. Untroubled' /\ stored["legacy"] = "on" => stored["organization"] = "on"
    BY <1>1, <2>1, <2>3 DEF Installed, MigrationsKept, LegacyKept, Serving
  <2> QED BY <1>3, <2>1, <2>2, <2>4, NothingWritten DEF Boots, Serving
<1> QED BY <1>5, <1>6, <1>7, <1>8, <1>9, <1>10

\* A user's save, one that fails, and the set-up dialog's writes.
LEMMA UserSteps ==
  ASSUME SettingInv,
         (\E k \in Changed, v \in {"on", "off"} : Save(k, v)) \/ (\E k \in Changed : SaveFails(k)) \/ Onboard
  PROVE  SettingInv'
<1>1. SettingTypes /\ CacheCurrent /\ Changed \subseteq SettingKey
  BY SettingsAssumption DEF SettingInv, SettingsAssumption, Registered
<1>2. ASSUME touched', SettingTypes', CacheCurrent' PROVE SettingInv'
  BY <1>2 DEF SettingInv, Installed, Untroubled
<1>3. ASSUME NEW k \in Changed, NEW v \in {"on", "off"}, Save(k, v) PROVE SettingInv'
  <2> DEFINE f == FileOf[k]
             sh == [shape EXCEPT ![f] = "whole"]
             st == Saved(shape, stored, f, One(k, v))
             c == Refreshed(FALSE, cache, sh, st)
             again == Reselect(f, c, sh, st)
  <2>1. /\ phase = "up" /\ touched'
        /\ IF again = Unset
           THEN /\ shape' = sh /\ stored' = st /\ cache' = c /\ missed' = cooling
           ELSE /\ shape' = [sh EXCEPT !["general"] = "whole"]
                /\ stored' = Saved(sh, st, "general", again)
                /\ cache' = Reading(shape', stored') /\ ~missed'
        /\ UNCHANGED <<env, phase, existing, origin, stops, tears, cut>>
    BY <1>3 DEF Save
  <2>2. f \in SettingFile /\ "general" \in SettingFile /\ k \in SettingKey /\ One(k, v) \in SettingState
    BY <1>1, SettingFacts, OneTyped
  <2>3. /\ shape \in [SettingFile -> {"absent", "whole", "torn"}] /\ stored \in SettingState
        /\ cache \in SettingState /\ env \in SettingState
        /\ \A x \in SettingKey : shape[FileOf[x]] # "whole" => stored[x] = "none"
    BY <1>1 DEF SettingTypes
  <2>4. sh \in [SettingFile -> {"absent", "whole", "torn"}]
    BY <2>3
  <2> HIDE DEF f
  <2>5. st \in SettingState /\ \A x \in SettingKey : sh[FileOf[x]] # "whole" => st[x] = "none"
    BY <2>2, <2>3, SavedTyped
  <2>6. Reading(sh, st) \in SettingState
    BY <2>3, <2>5, ReadingTyped
  <2>7. c = (IF ~cooling THEN Reading(sh, st) ELSE cache) /\ c \in SettingState
    BY <2>3, <2>6 DEF Refreshed
  <2>8. again \in SettingState
    <3>1. c["enabled"] \in {"none", "on", "off"} /\ "selected" \in SettingKey
      BY <2>7, SettingFacts DEF SettingState
    <3> HIDE DEF c, st, sh
    <3> QED BY <3>1, OneTyped, SettingFacts DEF Reselect
  <2> HIDE DEF c, st, sh, again
  <2>9. CASE again = Unset
    <3>1. shape' = sh /\ stored' = st /\ cache' = c /\ missed' = cooling
      BY <2>1, <2>9
    <3>2. SettingTypes'
      BY <1>1, <2>1, <2>4, <2>5, <2>7, <3>1 DEF SettingTypes, Serving
    <3>3. CacheCurrent'
      <4>1. Reading(shape, stored)' = Reading(sh, st)
        BY <2>1, <3>1 DEF Reading, SettingValue, Loaded
      <4> QED BY <2>7, <3>1, <4>1 DEF CacheCurrent
    <3> QED BY <1>2, <2>1, <3>2, <3>3
  <2>10. CASE again # Unset
    <3>1. /\ shape' = [sh EXCEPT !["general"] = "whole"] /\ stored' = Saved(sh, st, "general", again)
          /\ cache' = Reading(shape', stored') /\ ~missed'
      BY <2>1, <2>10
    <3>2. /\ shape' \in [SettingFile -> {"absent", "whole", "torn"}] /\ stored' \in SettingState
          /\ \A x \in SettingKey : shape'[FileOf[x]] # "whole" => stored'[x] = "none"
      BY <2>2, <2>4, <2>5, <2>8, <3>1, SavedTyped
    <3>3. cache' \in SettingState
      BY <2>3, <3>1, <3>2, ReadingTyped
    <3>4. SettingTypes'
      BY <1>1, <2>1, <3>2, <3>3 DEF SettingTypes, Serving
    <3>5. CacheCurrent'
      <4>1. Reading(shape, stored)' = Reading(shape', stored')
        BY <2>1 DEF Reading, SettingValue, Loaded
      <4> QED BY <3>1, <4>1 DEF CacheCurrent
    <3> QED BY <1>2, <2>1, <3>4, <3>5
  <2> QED BY <2>9, <2>10
<1>4. ASSUME NEW k \in Changed, SaveFails(k) PROVE SettingInv'
  <2>1. /\ phase = "up" /\ TearFile(FileOf[k]) /\ touched' /\ missed'
        /\ UNCHANGED <<env, phase, existing, cache, cooling, origin, stops, cut>>
    BY <1>4 DEF SaveFails
  <2>2. FileOf[k] \in SettingFile /\ Unset \in SettingState
    BY <1>1, SettingFacts, OneTyped
  <2>3. WriteOrTear(FileOf[k], Unset)
    BY <2>1 DEF WriteOrTear
  <2>4. /\ shape' \in [SettingFile -> {"absent", "whole", "torn"}] /\ stored' \in SettingState
        /\ \A x \in SettingKey : shape'[FileOf[x]] # "whole" => stored'[x] = "none"
        /\ tears' \in Nat
    BY <1>1, <2>2, <2>3, Writes
  <2>5. SettingTypes' /\ CacheCurrent'
    BY <1>1, <2>1, <2>4 DEF SettingTypes, CacheCurrent
  <2> QED BY <1>2, <2>1, <2>5
<1>5. CASE Onboard
  <2>1. /\ phase \in DOMAIN OnboardingStep
        /\ WriteOrTear(FileOf[OnboardingStep[phase].key], One(OnboardingStep[phase].key, "on"))
        /\ phase' = OnboardingStep[phase].next /\ missed'
        /\ UNCHANGED <<env, existing, cache, cooling, origin, stops, touched, cut>>
    BY <1>5 DEF Onboard
  <2>2. /\ phase \in Serving \ {"up"} /\ phase' \in Serving
        /\ OnboardingStep[phase].key \in SettingKey
    <3>1. DOMAIN OnboardingStep = {"onboard1", "onboard2", "onboard3", "onboard4"}
      BY DEF OnboardingStep
    <3>2. /\ OnboardingStep["onboard1"].next = "onboard2" /\ OnboardingStep["onboard1"].key = "selected"
          /\ OnboardingStep["onboard2"].next = "onboard3" /\ OnboardingStep["onboard2"].key = "enabled"
          /\ OnboardingStep["onboard3"].next = "onboard4" /\ OnboardingStep["onboard3"].key = "direct"
          /\ OnboardingStep["onboard4"].next = "onboard5" /\ OnboardingStep["onboard4"].key = "onboarded"
      BY DEF OnboardingStep
    <3> QED BY <2>1, <3>1, <3>2, SettingFacts DEF Serving
  <2>3. /\ shape' \in [SettingFile -> {"absent", "whole", "torn"}] /\ stored' \in SettingState
        /\ \A x \in SettingKey : shape'[FileOf[x]] # "whole" => stored'[x] = "none"
        /\ tears' \in Nat
    <3> DEFINE k == OnboardingStep[phase].key
    <3>1. /\ FileOf[k] \in SettingFile /\ One(k, "on") \in SettingState
          /\ WriteOrTear(FileOf[k], One(k, "on"))
      BY <2>1, <2>2, SettingFacts, OneTyped
    <3> HIDE DEF k
    <3> QED BY ONLY <1>1, <3>1, Writes
  <2>4. touched
    BY <1>1, <2>2 DEF SettingTypes
  <2>5. SettingTypes' /\ CacheCurrent'
    BY <1>1, <2>1, <2>2, <2>3, <2>4 DEF SettingTypes, CacheCurrent, Serving
  <2> QED BY <1>2, <2>1, <2>4, <2>5
<1> QED BY <1>3, <1>4, <1>5

\* Every step keeps the invariant.
LEMMA SettingInvStep == SettingInv /\ [SettingNext]_settingVars => SettingInv'
<1> SUFFICES ASSUME SettingInv, [SettingNext]_settingVars PROVE SettingInv'
  OBVIOUS
<1>1. CASE UNCHANGED settingVars
  <2>1. SettingTypes' /\ CacheCurrent'
    BY <1>1 DEF settingVars, SettingInv, SettingTypes, CacheCurrent, Reading, SettingValue, Loaded
  <2>2. Installed'
    BY <1>1 DEF settingVars, SettingInv, Installed, MigrationsKept, LegacyKept, OldKept, DefaultKept, Untroubled,
                    NoDirectVariable
  <2> QED BY <2>1, <2>2 DEF SettingInv
<1> QED
  BY <1>1, BeginSteps, DefaultsStep, SyncStepKeeps, MigrationSteps, CacheSteps, UserSteps
     DEF SettingNext

\* The invariant holds at the start.
LEMMA SettingInvInit == SettingInit => SettingInv
<1> SUFFICES ASSUME SettingInit PROVE SettingInv
  OBVIOUS
<1>1. Unset \in SettingState /\ \A k \in SettingKey : Unset[k] = "none"
  BY OneTyped, SettingFacts DEF Unset
<1>2. SettingTypes
  BY <1>1, SettingFacts DEF SettingInit, SettingTypes, Serving
<1>3. CacheCurrent
  BY DEF SettingInit, CacheCurrent, Serving
<1>4. MigrationsKept
  <2>1. "sources" \in SettingFile /\ "legacy" \in SettingKey
    BY SettingFacts
  <2>2. LegacyKept
    BY <1>1, <2>1 DEF SettingInit, LegacyKept
  <2> QED BY <2>1, <2>2 DEF SettingInit, MigrationsKept, DefaultKept
<1>5. env["direct"] = "none"
  BY <1>1, SettingFacts DEF SettingInit
<1>6. Installed
  BY <1>4, <1>5 DEF SettingInit, Installed
<1> QED BY <1>2, <1>3, <1>6 DEF SettingInv

\* What the files, the cache and the migrations say of each other.
THEOREM SettingInvariant == SettingSpec => []SettingInv
<1>1. SettingInit => SettingInv
  BY SettingInvInit
<1>2. SettingInv /\ [SettingNext]_settingVars => SettingInv'
  BY SettingInvStep
<1> QED BY <1>1, <1>2, PTL DEF SettingSpec

\* The types; a file that is not whole holds nothing.
THEOREM SettingTyped == SettingSpec => []SettingTypeOK
<1>1. SettingInv => SettingTypeOK
  BY DEF SettingInv, SettingTypes, SettingState, SettingTypeOK
<1> QED BY <1>1, SettingInvariant, PTL

\* config.py: the program reads what the files and the environment say, unless a write came
\* within the cooldown of a refresh, failed, or belongs to a dialog that is being saved.
THEOREM SettingStaleOnlyInCooldown == SettingSpec => []StaleOnlyInCooldown
<1>1. SettingInv => StaleOnlyInCooldown
  BY DEF SettingInv, CacheCurrent, Serving, StaleOnlyInCooldown
<1> QED BY <1>1, SettingInvariant, PTL

\* sync_env_to_config: the migrations carry the ingest settings over as a whole, turn direct
\* downloads on where an earlier version has left download_sources.json, and leave every other
\* installation at the defaults, unless they were cut short or a variable had taken their place.
THEOREM SettingMigratedAsInstalled == SettingSpec => []MigratedAsInstalled
<1>1. SettingInv => MigratedAsInstalled
  <2> SUFFICES ASSUME SettingInv, phase = "up", ~touched, ~cut, tears = 0
               PROVE  /\ stored["legacy"] = "on" =>
                           stored["organization"] = "on" /\ stored["routing"] = "on"
                      /\ NoDirectVariable =>
                           SettingValue(shape, stored, "direct") = IF origin = "old" THEN "on" ELSE "off"
    BY DEF MigratedAsInstalled, NoDirectVariable
  <2>1. /\ NoDirectVariable => env["direct"] = "none"
        /\ LegacyKept
        /\ origin = "old" => OldKept
        /\ origin # "old" => DefaultKept
    BY DEF SettingInv, Installed, MigrationsKept, Untroubled
  <2>2. Loaded(shape, stored, "direct") = stored["direct"]
    BY SettingFacts DEF SettingInv, SettingTypes, Loaded
  <2>3. stored["legacy"] = "on" => stored["organization"] = "on" /\ stored["routing"] = "on"
    BY <2>1 DEF LegacyKept, Serving
  <2>4. CASE origin = "old"
    BY <2>1, <2>2, <2>3, <2>4 DEF OldKept, Serving, SettingValue
  <2>5. CASE origin # "old"
    BY <2>1, <2>2, <2>3, <2>5 DEF DefaultKept, SettingValue
  <2> QED BY <2>4, <2>5
<1> QED BY <1>1, SettingInvariant, PTL

-----------------------------------------------------------------------------
(* MCService *)

(***************************************************************************)
(* Beside the others a component does what it does alone: a step is one of *)
(* a single component.                                                     *)
(***************************************************************************)
LEMMA ServiceRunsEach ==
  ServiceSpec => /\ FileSpec /\ DeliverySpec /\ ActivitySpec /\ PolicySpec
                 /\ SettingSpec /\ LiveSpec /\ NoticeSpec
<1>1. ServiceInit => /\ FileInit /\ DeliveryInit /\ ActivityInit /\ PolicyInit
                     /\ SettingInit /\ LiveInit /\ NoticeInit
  BY DEF ServiceInit
<1>2. [ServiceNext]_ServiceVars => [FileNext]_fileVars
  BY DEF ServiceVars, ServiceNext, FilePart, DeliveryPart, ActivityPart, PolicyPart, SettingPart, LivePart, NoticePart
<1>3. [ServiceNext]_ServiceVars => [DeliveryNext]_deliveryVars
  BY DEF ServiceVars, ServiceNext, FilePart, DeliveryPart, ActivityPart, PolicyPart, SettingPart, LivePart, NoticePart
<1>4. [ServiceNext]_ServiceVars => [ActivityNext]_activityVars
  BY DEF ServiceVars, ServiceNext, FilePart, DeliveryPart, ActivityPart, PolicyPart, SettingPart, LivePart, NoticePart
<1>5. [ServiceNext]_ServiceVars => [PolicyNext]_policyVars
  BY DEF ServiceVars, ServiceNext, FilePart, DeliveryPart, ActivityPart, PolicyPart, SettingPart, LivePart, NoticePart
<1>6. [ServiceNext]_ServiceVars => [SettingNext]_settingVars
  BY DEF ServiceVars, ServiceNext, FilePart, DeliveryPart, ActivityPart, PolicyPart, SettingPart, LivePart, NoticePart
<1>7. [ServiceNext]_ServiceVars => [LiveNext]_liveVars
  BY DEF ServiceVars, ServiceNext, FilePart, DeliveryPart, ActivityPart, PolicyPart, SettingPart, LivePart, NoticePart
<1>8. [ServiceNext]_ServiceVars => [NoticeNext]_noticeVars
  BY DEF ServiceVars, ServiceNext, FilePart, DeliveryPart, ActivityPart, PolicyPart, SettingPart, LivePart, NoticePart
<1> QED BY <1>1, <1>2, <1>3, <1>4, <1>5, <1>6, <1>7, <1>8, PTL
  DEF ServiceSpec, FileSpec, DeliverySpec, ActivitySpec, PolicySpec, SettingSpec, LiveSpec, NoticeSpec

(***************************************************************************)
(* Every variable of the components that deliver, record and configure     *)
(* keeps its type.                                                         *)
(***************************************************************************)
THEOREM ServiceTyped == ServiceSpec => []ServiceTypeOK
<1>1. /\ FileTypeOK /\ DeliveryTypeOK /\ ActivityTypeOK /\ PolicyTypeOK
      /\ SettingTypeOK /\ LiveTypeOK /\ NoticeTypeOK
      => ServiceTypeOK
  BY DEF ServiceTypeOK
<1> QED BY <1>1, ServiceRunsEach, FileTyped, DeliveryTyped, ActivityTyped, PolicyTyped, SettingTyped,
  LiveTyped, NoticeTyped, PTL

(***************************************************************************)
(* What the run checks of publications, deliveries, modes, settings, pages *)
(* and notices holds in a process that has them all.                       *)
(***************************************************************************)
THEOREM ServiceSafe ==
  ServiceSpec => [](/\ AllOrNothing /\ RetriesAddUp /\ ModesFollowRules /\ StaleOnlyInCooldown
                    /\ MigratedAsInstalled /\ PagesUpToDate /\ DispatchIsOwn)
<1> QED BY ServiceRunsEach, FileAllOrNothing, DeliveryRetriesAddUp, PolicyModesFollowRules,
  SettingStaleOnlyInCooldown, SettingMigratedAsInstalled, LivePagesUpToDate, NoticeDispatchIsOwn, PTL

(***************************************************************************)
(* What the run checks of the steps: the folder a reader sees, the views of*)
(* the activity and the batches of requests change in the cases the        *)
(* properties name, in a process that has them all.                        *)
(***************************************************************************)
THEOREM ServiceMoves == ServiceSpec => FollowsFolder /\ ViewsFollowRows /\ BatchWithinLimits
<1> QED BY ServiceRunsEach, FileFollowsFolder, ActivityViewsFollowRows, PolicyBatchWithinLimits, PTL
=============================================================================
