--------------------------- MODULE FetchingProofs ---------------------------
(***************************************************************************)
(* Proofs about the components that MCFetching runs: ExternalClient, for   *)
(* any clients configured, any runs of the task and any ids; QBittorrent,  *)
(* for any setups and any number of looks at an added torrent;             *)
(* IrcConnections, for any searches, downloads and clients; CoverCache, for*)
(* any covers, types and fetches; BookTargets, for any statuses, lists and *)
(* requests.  Last, what holds of each beside the others.                  *)
(***************************************************************************)
EXTENDS MCFetching, FiniteSetTheorems, TLAPS

-----------------------------------------------------------------------------
(* ExternalClient *)

(***************************************************************************)
(* The inductive invariant.  Nothing happens before a client is configured;*)
(* of two runs under way both count as shared.  What goes on, or has       *)
(* failed, in a usenet client is followed until some call fails, so that a *)
(* failed job is found as complete only beside a run that follows it.  A   *)
(* torrent that is imported is done, unless a run beside it could take it  *)
(* out and another add it again.  While a staged file is there for the     *)
(* next run, every run that fetches began before it, beside its owner.     *)
(***************************************************************************)
Remotes == {"absent", "accepted", "active", "done", "failed", "removed"}
Holding == {"poll", "oldpath", "path", "cleaning", "failing", "import", "importing", "tidy"}
Handing == {"import", "importing", "tidy"}
Getting == {"resolve", "find", "add", "addurl", "poll", "oldpath", "path", "failing",
            "cleaning"}

UnderWay(r) == ~RunAt(r, {"idle", "ended"})

Fresh ==
  adapter = "none" =>
    /\ \A r \in ClientRun : RunAt(r, {"idle"})
    /\ \A q \in RemoteId : remote[q] = "absent"

HoldsId == \A r \in ClientRun : RunAt(r, Holding) => hrun[r].id \in RemoteId

Alone ==
  \A r, q \in ClientRun : r # q /\ UnderWay(r) /\ UnderWay(q) => r \in shared

NothingYet == \A r \in ClientRun : RunAt(r, {"idle"}) => ~hrun[r].ref

Followed ==
  Usenet /\ ~fault =>
    \A q \in RemoteId : remote[q] \in {"accepted", "active", "failed"} =>
      \E r \in ClientRun : hrun[r].id = q /\ RunAt(r, {"poll", "cleaning", "failing"})

UsenetOver ==
  Usenet => \A r \in ClientRun :
    LET status == remote[hrun[r].id] IN
    /\ RunAt(r, {"path"}) => status \in {"done", "removed"}
    /\ RunAt(r, {"oldpath"}) => hrun[r].found /\ status \in {"done", "failed", "removed"}
    /\ RunAt(r, Handing) /\ hrun[r].ref =>
         /\ status \in {"done", "failed", "removed"}
         /\ status = "failed" => hrun[r].found

TorrentDone ==
  adapter = "torrent" =>
    \A r \in ClientRun :
      (r \notin shared \/ ~removal) /\
      (RunAt(r, {"path", "oldpath"}) \/ (RunAt(r, Handing) /\ hrun[r].ref)) =>
        remote[hrun[r].id] = "done"

TidyHere ==
  adapter = "torrent" =>
    \A r \in ClientRun : RunAt(r, {"tidy"}) => data[hrun[r].id] = "here"

StagedIsNext ==
  stagedFile # NoRemote => \A r \in ClientRun : RunAt(r, Getting) => r \in shared

ClientInv ==
  /\ ExternalTypeOK
  /\ Fresh /\ NothingYet /\ HoldsId /\ Alone
  /\ Followed /\ UsenetOver /\ TorrentDone /\ TidyHere /\ StagedIsNext

-----------------------------------------------------------------------------
(***************************************************************************)
(* What a step does to its run.                                            *)
(***************************************************************************)
RunIs(r, pc, id, ref, found) ==
  /\ hrun' \in [ClientRun -> ClientRunState]
  /\ \A q \in ClientRun : q # r => hrun'[q] = hrun[q]
  /\ hrun'[r].pc = pc /\ hrun'[r].id = id /\ hrun'[r].ref = ref /\ hrun'[r].found = found

Stays(r, pc) == RunIs(r, pc, hrun[r].id, hrun[r].ref, hrun[r].found)
Leaves(r) == RunIs(r, "ended", NoRemote, FALSE, FALSE)

\* A run is a record of its step, its id, its tries and two flags.
LEMMA RunFields ==
  ASSUME ExternalTypeOK, NEW r \in ClientRun
  PROVE  /\ hrun[r] \in ClientRunState
         /\ hrun[r].pc \in RunPC /\ hrun[r].id \in RemoteId \cup {NoRemote}
         /\ hrun[r].tries \in Nat /\ hrun[r].tries + 1 \in Nat
         /\ hrun[r].ref \in BOOLEAN /\ hrun[r].found \in BOOLEAN
BY DEF ExternalTypeOK, ClientRunState

\* One run changes, in any field.
LEMMA RunChanges ==
  ASSUME ExternalTypeOK, NEW r \in ClientRun, NEW h \in ClientRunState,
         hrun' = [hrun EXCEPT ![r] = h]
  PROVE  RunIs(r, h.pc, h.id, h.ref, h.found)
BY DEF ExternalTypeOK, RunIs

\* A run goes to another step.
LEMMA GoToEffect ==
  ASSUME ExternalTypeOK, NEW r \in ClientRun, NEW pc \in RunPC, GoTo(r, pc)
  PROVE  Stays(r, pc)
<1> DEFINE h == [hrun[r] EXCEPT !.pc = pc, !.tries = 0]
<1>1. h \in ClientRunState /\ h.pc = pc /\ h.id = hrun[r].id /\ h.ref = hrun[r].ref
      /\ h.found = hrun[r].found
  BY RunFields DEF ClientRunState
<1>2. hrun' = [hrun EXCEPT ![r] = h]
  BY DEF GoTo, ExternalTypeOK
<1> HIDE DEF h
<1> QED BY <1>1, <1>2, RunChanges DEF Stays

\* A run tries once more.
LEMMA TriesEffect ==
  ASSUME ExternalTypeOK, NEW r \in ClientRun, hrun' = [hrun EXCEPT ![r].tries = @ + 1]
  PROVE  Stays(r, hrun[r].pc)
<1> DEFINE h == [hrun[r] EXCEPT !.tries = @ + 1]
<1>1. h \in ClientRunState /\ h.pc = hrun[r].pc /\ h.id = hrun[r].id /\ h.ref = hrun[r].ref
      /\ h.found = hrun[r].found
  BY RunFields DEF ClientRunState
<1>2. hrun' = [hrun EXCEPT ![r] = h]
  BY DEF ExternalTypeOK
<1> HIDE DEF h
<1> QED BY <1>1, <1>2, RunChanges DEF Stays

\* A run ends; its handler object goes with it.
LEMMA EndEffect ==
  ASSUME ExternalTypeOK, NEW r \in ClientRun, EndRun(r)
  PROVE  Leaves(r)
<1> DEFINE h == [IdleRun EXCEPT !.pc = "ended"]
<1>1. h \in ClientRunState /\ h.pc = "ended" /\ h.id = NoRemote /\ h.ref = FALSE
      /\ h.found = FALSE
  BY DEF ClientRunState, RunPC, IdleRun
<1>2. hrun' = [hrun EXCEPT ![r] = h]
  BY DEF EndRun
<1> HIDE DEF h
<1> QED BY <1>1, <1>2, RunChanges DEF Leaves

-----------------------------------------------------------------------------
(***************************************************************************)
(* Steps that leave the client alone.                                      *)
(***************************************************************************)
\* What the invariant asks of a run at step pc with this id and these flags.
OverFits(pc, id, ref, found) ==
  LET status == remote[id] IN
    /\ pc = "path" => status \in {"done", "removed"}
    /\ pc = "oldpath" => found /\ status \in {"done", "failed", "removed"}
    /\ pc \in Handing /\ ref =>
         /\ status \in {"done", "failed", "removed"}
         /\ status = "failed" => found
DoneFits(r, pc, id, ref) ==
  r \notin shared \/ ~removal =>
    (pc \in {"path", "oldpath"} \/ (pc \in Handing /\ ref) => remote[id] = "done")
HoldsOn(r, pc, id) ==
  Usenet /\ ~fault' /\ RunAt(r, {"poll", "cleaning", "failing"})
    /\ remote[hrun[r].id] \in {"accepted", "active", "failed"} =>
      id = hrun[r].id /\ pc \in {"poll", "cleaning", "failing"}
OthersShared(r) == \A q \in ClientRun : q # r /\ UnderWay(q) => {r, q} \subseteq shared'
StagedFits(r, pc) ==
  stagedFile' # NoRemote =>
    /\ pc \in Getting => r \in shared
    /\ stagedFile' = stagedFile \/ OthersShared(r)

\* A run moves; neither the client nor its files change.
LEMMA RunMoves ==
  ASSUME ClientInv, NEW r \in ClientRun, NEW pc, NEW id, NEW ref, NEW found,
         RunIs(r, pc, id, ref, found),
         UNCHANGED <<clientSide, remote, data, flagged>>,
         shared' = shared \/ (shared \subseteq shared' /\ shared' \subseteq ClientRun),
         fault' \in {fault, TRUE}, release' \in {"cached", "gone"},
         stagedFile' \in RemoteId \cup {NoRemote},
         adapter # "none", pc # "idle", pc \in Holding => id \in RemoteId,
         UnderWay(r) \/ pc = "ended" \/ OthersShared(r),
         HoldsOn(r, pc, id),
         Usenet => OverFits(pc, id, ref, found),
         adapter = "torrent" => DoneFits(r, pc, id, ref),
         adapter = "torrent" /\ pc = "tidy" => data[id] = "here",
         StagedFits(r, pc)
  PROVE  ClientInv'
<1> USE DEF clientSide
<1>1. ExternalTypeOK' BY DEF ClientInv, ExternalTypeOK, RunIs
<1>2. Fresh' BY DEF Fresh
<1>3. HoldsId' BY DEF ClientInv, HoldsId, RunAt, RunIs
<1>4. Alone'
  BY DEF ClientInv, Alone, UnderWay, OthersShared, RunAt, RunIs
<1>5. NothingYet' BY DEF ClientInv, NothingYet, RunAt, RunIs
<1>6. Followed'
  <2> SUFFICES ASSUME Usenet, ~fault', NEW q \in RemoteId,
                      remote[q] \in {"accepted", "active", "failed"}
               PROVE  \E t \in ClientRun :
                        hrun'[t].id = q /\ hrun'[t].pc \in {"poll", "cleaning", "failing"}
    BY DEF Followed, Usenet, RunAt
  <2>1. ~fault
    BY DEF ClientInv, ExternalTypeOK
  <2>2. PICK t \in ClientRun : hrun[t].id = q /\ RunAt(t, {"poll", "cleaning", "failing"})
    BY <2>1 DEF ClientInv, Followed
  <2>3. hrun'[t].id = q /\ hrun'[t].pc \in {"poll", "cleaning", "failing"}
    BY <2>1, <2>2 DEF HoldsOn, RunIs, RunAt
  <2> QED BY <2>3
<1>7. UsenetOver'
  <2> SUFFICES ASSUME Usenet, NEW t \in ClientRun
               PROVE  (LET status == remote[hrun[t].id] IN
                       /\ RunAt(t, {"path"}) => status \in {"done", "removed"}
                       /\ RunAt(t, {"oldpath"}) =>
                            hrun[t].found /\ status \in {"done", "failed", "removed"}
                       /\ RunAt(t, Handing) /\ hrun[t].ref =>
                            /\ status \in {"done", "failed", "removed"}
                            /\ status = "failed" => hrun[t].found)'
    BY DEF UsenetOver, Usenet
  <2>1. CASE t = r
    BY <2>1 DEF OverFits, RunAt, RunIs, Handing
  <2>2. CASE t # r
    <3>1. hrun'[t] = hrun[t]
      BY <2>2 DEF RunIs
    <3> QED BY <3>1 DEF ClientInv, UsenetOver, RunAt, Handing
  <2> QED BY <2>1, <2>2
<1>8. TorrentDone'
  BY DEF ClientInv, TorrentDone, DoneFits, RunAt, RunIs, Handing
<1>9. TidyHere' BY DEF ClientInv, TidyHere, RunAt, RunIs
<1>10. StagedIsNext'
  BY DEF ClientInv, StagedIsNext, StagedFits, OthersShared, RunAt, UnderWay, RunIs, Getting
<1> QED BY <1>1, <1>2, <1>3, <1>4, <1>5, <1>6, <1>7, <1>8, <1>9, <1>10 DEF ClientInv

-----------------------------------------------------------------------------
(***************************************************************************)
(* The steps of a run that leave the client alone.                         *)
(***************************************************************************)
\* A run that ends without a call to the client had nothing going on there.
LEMMA RunEnds ==
  ASSUME ClientInv, NEW r \in ClientRun, Leaves(r), adapter # "none",
         UNCHANGED <<clientSide, remote, data, flagged, shared>>, fault' \in {fault, TRUE},
         release' \in {"cached", "gone"}, stagedFile' \in {stagedFile, NoRemote},
         ~RunAt(r, {"poll", "cleaning", "failing"})
  PROVE  ClientInv'
<1>1. stagedFile' \in RemoteId \cup {NoRemote}
  BY DEF ClientInv, ExternalTypeOK
<1>2. HoldsOn(r, "ended", NoRemote)
  BY DEF HoldsOn
<1>3. OverFits("ended", NoRemote, FALSE, FALSE)
  BY DEF OverFits, Handing
<1>4. DoneFits(r, "ended", NoRemote, FALSE)
  BY DEF DoneFits, Handing
<1>5. StagedFits(r, "ended")
  BY DEF StagedFits, Getting
<1> QED BY <1>1, <1>2, <1>3, <1>4, <1>5, RunMoves DEF Leaves, Holding

\* A run goes on, at a step that says nothing of the client.
LEMMA RunGoesOn ==
  ASSUME ClientInv, NEW r \in ClientRun, NEW pc \in {"find", "add", "addurl"}, Stays(r, pc),
         RunAt(r, {"resolve", "find", "add", "addurl"}),
         UNCHANGED <<clientSide, remote, data, flagged, shared, stagedFile>>,
         fault' \in {fault, TRUE}, release' \in {"cached", "gone"}
  PROVE  ClientInv'
<1>1. stagedFile' \in RemoteId \cup {NoRemote} /\ adapter # "none" /\ UnderWay(r)
  BY DEF ClientInv, ExternalTypeOK, Fresh, RunAt, UnderWay
<1>2. HoldsOn(r, pc, hrun[r].id)
  BY DEF HoldsOn, RunAt
<1>3. OverFits(pc, hrun[r].id, hrun[r].ref, hrun[r].found)
  BY DEF OverFits, Handing
<1>4. DoneFits(r, pc, hrun[r].id, hrun[r].ref)
  BY DEF DoneFits, Handing
<1>5. StagedFits(r, pc)
  BY DEF StagedFits, Getting, RunAt, ClientInv, StagedIsNext
<1>6. pc \notin Holding /\ pc # "tidy"
  BY DEF Holding
<1> QED BY <1>1, <1>2, <1>3, <1>4, <1>5, <1>6, RunMoves DEF Stays

\* _download_task begins a run; the runs under way share the task with it.
LEMMA BeginKeeps ==
  ASSUME ClientInv, NEW r \in ClientRun, BeginRun(r)
  PROVE  ClientInv'
<1>1. /\ adapter # "none" /\ RunAt(r, {"idle"}) /\ OthersShared(r)
      /\ UNCHANGED <<clientSide, remote, data, release, flagged, fault>>
      /\ shared \subseteq shared' /\ shared' \subseteq ClientRun
      /\ ExternalTypeOK
  BY DEF BeginRun, Others, OthersShared, UnderWay, RunAt, ClientInv, ExternalTypeOK
<1>2. CASE stagedFile # NoRemote /\ data[stagedFile] = "here"
  <2> DEFINE h == [hrun[r] EXCEPT !.pc = "import", !.id = stagedFile]
  <2>1. hrun' = [hrun EXCEPT ![r] = h] /\ stagedFile' = stagedFile
    BY <1>1, <1>2 DEF BeginRun, ExternalTypeOK
  <2>2. /\ h \in ClientRunState /\ h.pc = "import" /\ h.id = stagedFile
        /\ h.ref = hrun[r].ref /\ h.found = hrun[r].found
    BY <1>1, RunFields DEF ClientRunState, ExternalTypeOK, RunPC
  <2> HIDE DEF h
  <2>3. RunIs(r, "import", stagedFile, hrun[r].ref, hrun[r].found)
    BY <1>1, <2>1, <2>2, RunChanges
  <2>4. HoldsOn(r, "import", stagedFile)
    BY <1>1 DEF HoldsOn, RunAt
  <2>5. ~hrun[r].ref
    BY <1>1 DEF ClientInv, NothingYet
  <2>6. OverFits("import", stagedFile, hrun[r].ref, hrun[r].found)
    BY <2>5 DEF OverFits
  <2>7. DoneFits(r, "import", stagedFile, hrun[r].ref)
    BY <2>5 DEF DoneFits
  <2>8. StagedFits(r, "import")
    BY <2>1 DEF StagedFits, Getting
  <2>9. /\ stagedFile \in RemoteId /\ stagedFile' \in RemoteId \cup {NoRemote}
        /\ fault' \in {fault, TRUE} /\ release' \in {"cached", "gone"}
    BY <1>1, <1>2, <2>1 DEF ExternalTypeOK
  <2> QED BY <1>1, <2>3, <2>4, <2>6, <2>7, <2>8, <2>9, RunMoves
<1>3. CASE ~(stagedFile # NoRemote /\ data[stagedFile] = "here")
  <2>1. Stays(r, "resolve") /\ stagedFile' = NoRemote
    BY <1>1, <1>3, GoToEffect DEF BeginRun, RunPC
  <2>2. HoldsOn(r, "resolve", hrun[r].id)
    BY <1>1 DEF HoldsOn, RunAt
  <2>3. OverFits("resolve", hrun[r].id, hrun[r].ref, hrun[r].found)
    BY DEF OverFits, Handing
  <2>4. DoneFits(r, "resolve", hrun[r].id, hrun[r].ref)
    BY DEF DoneFits, Handing
  <2>5. StagedFits(r, "resolve")
    BY <2>1 DEF StagedFits
  <2>6. /\ stagedFile' \in RemoteId \cup {NoRemote}
        /\ fault' \in {fault, TRUE} /\ release' \in {"cached", "gone"}
        /\ "resolve" \notin Holding
    BY <1>1, <2>1 DEF ExternalTypeOK, Holding
  <2> QED BY <1>1, <2>1, <2>2, <2>3, <2>4, <2>5, <2>6, RunMoves DEF Stays
<1> QED BY <1>2, <1>3

\* The source resolves the release, or the run ends.
LEMMA ResolveKeeps ==
  ASSUME ClientInv, NEW r \in ClientRun, Resolve(r)
  PROVE  ClientInv'
<1>1. /\ RunAt(r, {"resolve"}) /\ ~RunAt(r, {"poll", "cleaning", "failing"})
      /\ UNCHANGED <<clientSide, remote, data, stagedFile, flagged, shared, fault>>
      /\ release' \in {"cached", "gone"} /\ adapter # "none" /\ ExternalTypeOK
      /\ stagedFile' \in {stagedFile, NoRemote}
  BY DEF Resolve, RunAt, ClientInv, ExternalTypeOK, Fresh
<1>2. CASE EndRun(r)
  BY <1>1, <1>2, EndEffect, RunEnds
<1>3. CASE GoTo(r, "find")
  <2>1. Stays(r, "find")
    BY <1>1, <1>3, GoToEffect DEF RunPC
  <2> QED BY <1>1, <2>1, RunGoesOn DEF RunAt
<1> QED BY <1>2, <1>3 DEF Resolve

\* A job the client has already: followed like one of its own, or found complete.
LEMMA FindKeeps ==
  ASSUME ClientInv, NEW r \in ClientRun, FindExisting(r)
  PROVE  ClientInv'
<1>1. /\ RunAt(r, {"find"}) /\ UnderWay(r)
      /\ UNCHANGED <<clientSide, remote, data, release, stagedFile, flagged, shared>>
      /\ release' \in {"cached", "gone"} /\ adapter # "none" /\ ExternalTypeOK
      /\ stagedFile' \in RemoteId \cup {NoRemote}
  BY DEF FindExisting, RunAt, UnderWay, ClientInv, ExternalTypeOK, Fresh
<1>2. CASE GoTo(r, "add") /\ fault' \in {fault, TRUE}
  <2>1. Stays(r, "add")
    BY <1>1, <1>2, GoToEffect DEF RunPC
  <2> QED BY <1>1, <1>2, <2>1, RunGoesOn DEF RunAt
<1>3. ASSUME NEW q \in RemoteId, Findable(q), UNCHANGED fault,
             hrun' = [hrun EXCEPT ![r].pc = IF ShownComplete(q) THEN "oldpath" ELSE "poll",
                                  ![r].id = q, ![r].found = TRUE]
      PROVE  ClientInv'
  <2> DEFINE pc == IF ShownComplete(q) THEN "oldpath" ELSE "poll"
             h == [hrun[r] EXCEPT !.pc = pc, !.id = q, !.found = TRUE]
  <2>1. hrun' = [hrun EXCEPT ![r] = h]
    BY <1>1, <1>3 DEF ExternalTypeOK
  <2>2. pc \in {"oldpath", "poll"} /\ pc \in RunPC
    BY DEF RunPC
  <2>3. pc = "oldpath" => ShownComplete(q)
    OBVIOUS
  <2> HIDE DEF pc
  <2>4. /\ h \in ClientRunState /\ h.pc = pc /\ h.id = q /\ h.ref = hrun[r].ref
        /\ h.found = TRUE
    BY <1>1, <2>2, RunFields DEF ClientRunState
  <2> HIDE DEF h
  <2>5. RunIs(r, pc, q, hrun[r].ref, TRUE)
    BY <1>1, <2>1, <2>4, RunChanges
  <2>6. HoldsOn(r, pc, q)
    BY <1>1 DEF HoldsOn, RunAt
  <2>7. ASSUME Usenet PROVE OverFits(pc, q, hrun[r].ref, TRUE)
    <3>1. ASSUME pc = "oldpath" PROVE remote[q] \in {"done", "failed"}
      BY <2>3, <3>1 DEF ShownComplete
    <3> QED BY <2>2, <3>1 DEF OverFits, Handing
  <2>8. ASSUME adapter = "torrent" PROVE DoneFits(r, pc, q, hrun[r].ref)
    BY <2>2, <2>3, <2>8 DEF DoneFits, Handing, ShownComplete, Usenet
  <2>9. StagedFits(r, pc)
    BY <1>1 DEF StagedFits, ClientInv, StagedIsNext, RunAt, Getting
  <2>10. pc # "tidy" /\ pc # "idle" /\ fault' \in {fault, TRUE}
    BY <1>3, <2>2
  <2> QED BY <1>1, <1>3, <2>5, <2>6, <2>7, <2>8, <2>9, <2>10, RunMoves
<1> QED BY <1>2, <1>3 DEF FindExisting

\* A run that polls: it goes on, or knows that the job is done, or gives it up.
LEMMA RunPolls ==
  ASSUME ClientInv, NEW r \in ClientRun, NEW pc \in {"poll", "path", "failing"}, Stays(r, pc),
         RunAt(r, {"poll"}), pc = "path" => remote[hrun[r].id] = "done",
         UNCHANGED <<clientSide, remote, data, release, stagedFile, flagged, shared>>,
         fault' \in {fault, TRUE}
  PROVE  ClientInv'
<1>1. /\ stagedFile' \in RemoteId \cup {NoRemote} /\ release' \in {"cached", "gone"}
      /\ adapter # "none" /\ UnderWay(r)
  BY DEF ClientInv, ExternalTypeOK, Fresh, RunAt, UnderWay
<1>2. HoldsOn(r, pc, hrun[r].id)
  BY DEF HoldsOn, RunAt
<1>3. OverFits(pc, hrun[r].id, hrun[r].ref, hrun[r].found)
  BY DEF OverFits, Handing
<1>4. DoneFits(r, pc, hrun[r].id, hrun[r].ref)
  BY DEF DoneFits, Handing
<1>5. StagedFits(r, pc)
  BY DEF StagedFits, Getting, RunAt, ClientInv, StagedIsNext
<1>6. pc # "tidy" /\ pc # "idle" /\ hrun[r].id \in RemoteId
  BY DEF ClientInv, HoldsId, Holding, RunAt
<1> QED BY <1>1, <1>2, <1>3, <1>4, <1>5, <1>6, RunMoves DEF Stays

\* The status that came, or an error.
LEMMA PollKeeps ==
  ASSUME ClientInv, NEW r \in ClientRun, PollStatus(r)
  PROVE  ClientInv'
<1>1. /\ RunAt(r, {"poll"}) /\ hrun[r].pc = "poll" /\ ExternalTypeOK
      /\ UNCHANGED <<clientSide, remote, data, release, stagedFile, flagged, shared>>
  BY DEF PollStatus, RunAt, ClientInv
<1>2. CASE GoTo(r, "failing") /\ fault' = TRUE
  <2>1. Stays(r, "failing")
    BY <1>1, <1>2, GoToEffect DEF RunPC
  <2> QED BY <1>1, <1>2, <2>1, RunPolls
<1>3. CASE PollAnswer(r) = "wait" /\ hrun' = [hrun EXCEPT ![r].tries = @ + 1] /\ fault' = fault
  <2>1. Stays(r, "poll")
    BY <1>1, <1>3, TriesEffect
  <2> QED BY <1>1, <1>3, <2>1, RunPolls
<1>4. CASE PollAnswer(r) # "wait" /\ GoTo(r, PollAnswer(r)) /\ fault' = fault
  <2>1. /\ PollAnswer(r) \in {"poll", "path", "failing"}
        /\ PollAnswer(r) = "path" => remote[hrun[r].id] = "done"
    BY <1>4 DEF PollAnswer
  <2>2. Stays(r, PollAnswer(r))
    BY <1>1, <1>4, <2>1, GoToEffect DEF RunPC
  <2> QED BY <1>1, <1>4, <2>1, <2>2, RunPolls
<1> QED BY <1>2, <1>3, <1>4 DEF PollStatus

\* A run sees its cancel: it is going to clean up.
LEMMA CancelledKeeps ==
  ASSUME ClientInv, NEW r \in ClientRun, r \in flagged, RunAt(r, {"poll", "path"}),
         GoTo(r, "cleaning"),
         UNCHANGED <<clientSide, remote, data, release, stagedFile, flagged, shared, fault>>
  PROVE  ClientInv'
<1>1. /\ stagedFile' \in RemoteId \cup {NoRemote} /\ release' \in {"cached", "gone"}
      /\ fault' \in {fault, TRUE} /\ adapter # "none" /\ UnderWay(r) /\ ExternalTypeOK
  BY DEF ClientInv, ExternalTypeOK, Fresh, RunAt, UnderWay
<1>2. Stays(r, "cleaning")
  BY <1>1, GoToEffect DEF RunPC
<1>3. HoldsOn(r, "cleaning", hrun[r].id)
  BY DEF HoldsOn
<1>4. OverFits("cleaning", hrun[r].id, hrun[r].ref, hrun[r].found)
  BY DEF OverFits, Handing
<1>5. DoneFits(r, "cleaning", hrun[r].id, hrun[r].ref)
  BY DEF DoneFits, Handing
<1>6. StagedFits(r, "cleaning")
  BY DEF StagedFits, Getting, RunAt, ClientInv, StagedIsNext
<1>7. hrun[r].id \in RemoteId
  BY DEF ClientInv, HoldsId, Holding, RunAt
<1> QED BY <1>1, <1>2, <1>3, <1>4, <1>5, <1>6, <1>7, RunMoves DEF Stays

\* The path is there, or is waited for, or the cancel is seen.
LEMMA WaitKeeps ==
  ASSUME ClientInv, NEW r \in ClientRun, WaitForPath(r)
  PROVE  ClientInv'
<1>1. /\ RunAt(r, {"path", "oldpath"}) /\ ~RunAt(r, {"poll", "cleaning", "failing"})
      /\ UNCHANGED <<clientSide, remote, data, stagedFile, flagged, shared, fault>>
      /\ release' \in {"cached", "gone"} /\ adapter # "none" /\ ExternalTypeOK
      /\ stagedFile' \in {stagedFile, NoRemote} /\ stagedFile' \in RemoteId \cup {NoRemote}
      /\ fault' \in {fault, TRUE} /\ UnderWay(r) /\ hrun[r].id \in RemoteId
  BY DEF WaitForPath, RunAt, ClientInv, ExternalTypeOK, Fresh, UnderWay, HoldsId, Holding
<1>2. CASE EndRun(r)
  BY <1>1, <1>2, EndEffect, RunEnds
<1>3. CASE r \in flagged /\ RunAt(r, {"path"}) /\ GoTo(r, "cleaning") /\ UNCHANGED release
  BY <1>1, <1>3, CancelledKeeps DEF RunAt
<1>4. CASE r \notin flagged /\ hrun' = [hrun EXCEPT ![r].pc = "import", ![r].ref = TRUE]
  <2> DEFINE h == [hrun[r] EXCEPT !.pc = "import", !.ref = TRUE]
  <2>1. hrun' = [hrun EXCEPT ![r] = h]
    BY <1>1, <1>4 DEF ExternalTypeOK
  <2>2. /\ h \in ClientRunState /\ h.pc = "import" /\ h.id = hrun[r].id /\ h.ref = TRUE
        /\ h.found = hrun[r].found
    BY <1>1, RunFields DEF ClientRunState, RunPC
  <2> HIDE DEF h
  <2>3. RunIs(r, "import", hrun[r].id, TRUE, hrun[r].found)
    BY <1>1, <2>1, <2>2, RunChanges
  <2>4. HoldsOn(r, "import", hrun[r].id)
    BY <1>1 DEF HoldsOn
  <2>5. ASSUME Usenet PROVE OverFits("import", hrun[r].id, TRUE, hrun[r].found)
    BY <1>1, <1>4, <2>5 DEF OverFits, ClientInv, UsenetOver, RunAt
  <2>6. ASSUME adapter = "torrent" PROVE DoneFits(r, "import", hrun[r].id, TRUE)
    BY <1>1, <2>6 DEF DoneFits, ClientInv, TorrentDone, RunAt
  <2>7. StagedFits(r, "import")
    BY <1>1 DEF StagedFits, Getting
  <2> QED BY <1>1, <2>3, <2>4, <2>5, <2>6, <2>7, RunMoves
<1>5. CASE r \notin flagged /\ hrun' = [hrun EXCEPT ![r].tries = @ + 1]
  <2>1. Stays(r, hrun[r].pc)
    BY <1>1, <1>5, TriesEffect
  <2>2. hrun[r].pc \in {"path", "oldpath"}
    BY <1>1 DEF RunAt
  <2>3. HoldsOn(r, hrun[r].pc, hrun[r].id)
    BY <1>1 DEF HoldsOn
  <2>4. ASSUME Usenet PROVE OverFits(hrun[r].pc, hrun[r].id, hrun[r].ref, hrun[r].found)
    BY <1>1, <2>2, <2>4 DEF OverFits, ClientInv, UsenetOver, RunAt, Handing
  <2>5. ASSUME adapter = "torrent" PROVE DoneFits(r, hrun[r].pc, hrun[r].id, hrun[r].ref)
    BY <1>1, <2>5 DEF DoneFits, ClientInv, TorrentDone, RunAt
  <2>6. StagedFits(r, hrun[r].pc)
    BY <1>1 DEF StagedFits, Getting, RunAt, ClientInv, StagedIsNext
  <2> QED BY <1>1, <2>1, <2>2, <2>3, <2>4, <2>5, <2>6, RunMoves DEF Stays
<1> QED BY <1>2, <1>3, <1>4, <1>5 DEF WaitForPath

\* The import begins if the file is there and the run is not cancelled: what fetches
\* beside it is shared.
LEMMA StartKeeps ==
  ASSUME ClientInv, NEW r \in ClientRun, StartImport(r)
  PROVE  ClientInv'
<1>1. /\ RunAt(r, {"import"}) /\ ~RunAt(r, {"poll", "cleaning", "failing"})
      /\ UNCHANGED <<clientSide, remote, data, release, flagged, shared, fault>>
      /\ release' \in {"cached", "gone"} /\ adapter # "none" /\ ExternalTypeOK
      /\ fault' \in {fault, TRUE} /\ UnderWay(r) /\ hrun[r].id \in RemoteId
  BY DEF StartImport, RunAt, ClientInv, ExternalTypeOK, Fresh, UnderWay, HoldsId, Holding
<1>2. CASE EndRun(r) /\ UNCHANGED stagedFile
  BY <1>1, <1>2, EndEffect, RunEnds
<1>3. CASE r \notin flagged /\ GoTo(r, "importing") /\ stagedFile' = hrun[r].id
  <2>1. Stays(r, "importing")
    BY <1>1, <1>3, GoToEffect DEF RunPC
  <2>2. HoldsOn(r, "importing", hrun[r].id)
    BY <1>1 DEF HoldsOn
  <2>3. ASSUME Usenet PROVE OverFits("importing", hrun[r].id, hrun[r].ref, hrun[r].found)
    BY <1>1, <2>3 DEF OverFits, ClientInv, UsenetOver, RunAt, Handing
  <2>4. ASSUME adapter = "torrent" PROVE DoneFits(r, "importing", hrun[r].id, hrun[r].ref)
    BY <1>1, <2>4 DEF DoneFits, ClientInv, TorrentDone, RunAt, Handing
  <2>5. OthersShared(r)
    BY <1>1 DEF OthersShared, ClientInv, Alone
  <2>6. StagedFits(r, "importing")
    BY <2>5 DEF StagedFits, Getting
  <2> QED BY <1>1, <1>3, <2>1, <2>2, <2>3, <2>4, <2>6, RunMoves DEF Stays
<1> QED BY <1>2, <1>3 DEF StartImport

\* An import that fails leaves everything for the next run.
LEMMA ImportFailsKeeps ==
  ASSUME ClientInv, NEW r \in ClientRun, ImportFails(r)
  PROVE  ClientInv'
<1>1. /\ ~RunAt(r, {"poll", "cleaning", "failing"}) /\ EndRun(r)
      /\ UNCHANGED <<clientSide, remote, data, release, stagedFile, flagged, shared, fault>>
      /\ release' \in {"cached", "gone"} /\ adapter # "none" /\ ExternalTypeOK
      /\ stagedFile' \in {stagedFile, NoRemote}
  BY DEF ImportFails, RunAt, ClientInv, ExternalTypeOK, Fresh
<1> QED BY <1>1, EndEffect, RunEnds

\* An import that succeeds had the file.
LEMMA ImportSucceedsKeeps ==
  ASSUME ClientInv, NEW r \in ClientRun, ImportSucceeds(r)
  PROVE  ClientInv'
<1>1. /\ RunAt(r, {"importing"}) /\ GoTo(r, "tidy") /\ data[hrun[r].id] = "here"
      /\ UNCHANGED <<clientSide, remote, data, release, stagedFile, flagged, shared, fault>>
      /\ release' \in {"cached", "gone"} /\ adapter # "none" /\ ExternalTypeOK
      /\ fault' \in {fault, TRUE} /\ UnderWay(r) /\ hrun[r].id \in RemoteId
      /\ stagedFile' \in RemoteId \cup {NoRemote}
  BY DEF ImportSucceeds, RunAt, ClientInv, ExternalTypeOK, Fresh, UnderWay, HoldsId, Holding
<1>2. Stays(r, "tidy")
  BY <1>1, GoToEffect DEF RunPC
<1>3. HoldsOn(r, "tidy", hrun[r].id)
  BY <1>1 DEF HoldsOn, RunAt
<1>4. ASSUME Usenet PROVE OverFits("tidy", hrun[r].id, hrun[r].ref, hrun[r].found)
  BY <1>1, <1>4 DEF OverFits, ClientInv, UsenetOver, RunAt, Handing
<1>5. ASSUME adapter = "torrent" PROVE DoneFits(r, "tidy", hrun[r].id, hrun[r].ref)
  BY <1>1, <1>5 DEF DoneFits, ClientInv, TorrentDone, RunAt, Handing
<1>6. StagedFits(r, "tidy")
  BY <1>1 DEF StagedFits, Getting
<1> QED BY <1>1, <1>2, <1>3, <1>4, <1>5, <1>6, RunMoves DEF Stays

-----------------------------------------------------------------------------
(***************************************************************************)
(* The steps that change what is in the client.                            *)
(***************************************************************************)
\* A usenet job is taken out with its files, or a call failed.
LEMMA DiscardEffect ==
  ASSUME ExternalTypeOK, NEW q \in RemoteId, Discard(q)
  PROVE  /\ remote' \in [RemoteId -> Remotes] /\ data' \in [RemoteId -> {"none", "late", "here"}]
         /\ fault' \in {fault, TRUE} /\ fault' \in BOOLEAN /\ (fault => fault')
         /\ \A t \in RemoteId : remote'[t] \in {remote[t], "removed"}
         /\ \A t \in RemoteId : t # q => remote'[t] = remote[t] /\ data'[t] = data[t]
         /\ ~fault' => remote'[q] = "removed"
<1>1. CASE /\ remote' = [remote EXCEPT ![q] = "removed"]
           /\ data' = [data EXCEPT ![q] = "none"]
           /\ fault' = fault
  BY <1>1 DEF ExternalTypeOK, Remotes
<1>2. CASE /\ remote' = remote /\ fault' = TRUE
           /\ data' \in {data, [data EXCEPT ![q] = "none"]}
  BY <1>2 DEF ExternalTypeOK, Remotes
<1> QED BY <1>1, <1>2 DEF Discard

\* A run ends with a call that may take its usenet job out.
LEMMA DiscardKeeps ==
  ASSUME ClientInv, NEW r \in ClientRun, RunAt(r, {"cleaning", "failing", "tidy"}), Usenet,
         Discard(hrun[r].id), EndRun(r),
         UNCHANGED <<clientSide, release, flagged, shared>>, stagedFile' \in {stagedFile, NoRemote}
  PROVE  ClientInv'
<1> USE DEF clientSide
<1> DEFINE q == hrun[r].id
<1>1. ExternalTypeOK /\ q \in RemoteId /\ adapter # "none" /\ adapter # "torrent"
  BY DEF ClientInv, HoldsId, Holding, RunAt, Fresh, Usenet
<1>2. Leaves(r)
  BY <1>1, EndEffect
<1>3. /\ remote' \in [RemoteId -> Remotes] /\ data' \in [RemoteId -> {"none", "late", "here"}]
      /\ fault' \in {fault, TRUE} /\ fault' \in BOOLEAN /\ (fault => fault')
      /\ \A t \in RemoteId : remote'[t] \in {remote[t], "removed"}
      /\ \A t \in RemoteId : t # q => remote'[t] = remote[t]
      /\ ~fault' => remote'[q] = "removed"
  BY <1>1, DiscardEffect
<1> HIDE DEF q
<1>4. ExternalTypeOK'
  BY <1>1, <1>2, <1>3 DEF ExternalTypeOK, Remotes, Leaves, RunIs
<1>5. Fresh' /\ TorrentDone' /\ TidyHere'
  BY <1>1 DEF Fresh, TorrentDone, TidyHere
<1>6. NothingYet' /\ HoldsId' /\ StagedIsNext'
  BY <1>2 DEF ClientInv, NothingYet, HoldsId, StagedIsNext, RunAt, Leaves, RunIs,
    Getting, Holding
<1>7. Alone'
  BY <1>2 DEF ClientInv, Alone, UnderWay, RunAt, Leaves, RunIs
<1>8. Followed'
  <2> SUFFICES ASSUME ~fault', NEW t \in RemoteId, remote'[t] \in {"accepted", "active", "failed"}
               PROVE  \E p \in ClientRun :
                        hrun'[p].id = t /\ hrun'[p].pc \in {"poll", "cleaning", "failing"}
    BY DEF Followed, RunAt
  <2>1. ~fault /\ t # q /\ remote'[t] = remote[t]
    BY <1>3
  <2>2. PICK p \in ClientRun : hrun[p].id = t /\ RunAt(p, {"poll", "cleaning", "failing"})
    BY <2>1 DEF ClientInv, Followed
  <2>3. hrun'[p] = hrun[p]
    BY <1>2, <2>1, <2>2 DEF Leaves, RunIs, q
  <2> QED BY <2>2, <2>3 DEF RunAt
<1>9. UsenetOver'
  <2> SUFFICES ASSUME NEW t \in ClientRun
               PROVE  (LET status == remote[hrun[t].id] IN
                       /\ RunAt(t, {"path"}) => status \in {"done", "removed"}
                       /\ RunAt(t, {"oldpath"}) =>
                            hrun[t].found /\ status \in {"done", "failed", "removed"}
                       /\ RunAt(t, Handing) /\ hrun[t].ref =>
                            /\ status \in {"done", "failed", "removed"}
                            /\ status = "failed" => hrun[t].found)'
    BY DEF UsenetOver
  <2>2. CASE t = r
    BY <1>2, <2>2 DEF Leaves, RunIs, RunAt, Handing
  <2>3. CASE t # r
    <3>1. hrun'[t] = hrun[t]
      BY <1>2, <2>3 DEF Leaves, RunIs
    <3>2. CASE RunAt(t, Holding)
      <4>1. remote'[hrun[t].id] \in {remote[hrun[t].id], "removed"}
        BY <1>3, <3>2 DEF ClientInv, HoldsId
      <4> QED BY <3>1, <4>1 DEF ClientInv, UsenetOver, RunAt
    <3>3. CASE ~RunAt(t, Holding)
      BY <3>1, <3>3 DEF RunAt, Holding, Handing
    <3> QED BY <3>2, <3>3
  <2> QED BY <2>2, <2>3
<1> QED BY <1>4, <1>5, <1>6, <1>7, <1>8, <1>9 DEF ClientInv

\* The settings say that an imported torrent is taken out; its files stay.
LEMMA LetGoKeeps ==
  ASSUME ClientInv, NEW r \in ClientRun, RunAt(r, {"tidy"}), ~Usenet, removal,
         LetGo(hrun[r].id), EndRun(r),
         UNCHANGED <<clientSide, release, flagged, shared>>, stagedFile' \in {stagedFile, NoRemote}
  PROVE  ClientInv'
<1> USE DEF clientSide
<1>1. ExternalTypeOK /\ hrun[r].id \in RemoteId /\ adapter = "torrent" /\ UnderWay(r)
  BY DEF ClientInv, HoldsId, Holding, RunAt, Fresh, Usenet, ExternalTypeOK, UnderWay
<1>2. Leaves(r)
  BY <1>1, EndEffect
<1>3. remote' \in [RemoteId -> Remotes] /\ data' = data /\ fault' \in BOOLEAN
  BY <1>1 DEF LetGo, ExternalTypeOK, Remotes
<1>4. ExternalTypeOK'
  BY <1>1, <1>2, <1>3 DEF ExternalTypeOK, Remotes, Leaves, RunIs
<1>5. Fresh' /\ Followed' /\ UsenetOver'
  BY <1>1 DEF Fresh, Followed, UsenetOver, Usenet
<1>6. NothingYet' /\ HoldsId' /\ StagedIsNext' /\ TidyHere'
  BY <1>2, <1>3 DEF ClientInv, NothingYet, HoldsId, StagedIsNext, TidyHere, RunAt,
    Leaves, RunIs, Getting, Holding
<1>7. Alone'
  BY <1>2 DEF ClientInv, Alone, UnderWay, RunAt, Leaves, RunIs
<1>8. TorrentDone'
  <2> SUFFICES ASSUME NEW t \in ClientRun, hrun'[t].pc \notin {"idle", "ended"}
               PROVE  t \in shared
    BY DEF TorrentDone, RunAt, Handing
  <2>1. t # r /\ hrun'[t] = hrun[t]
    BY <1>2 DEF Leaves, RunIs
  <2> QED BY <1>1, <2>1 DEF ClientInv, Alone, UnderWay, RunAt
<1> QED BY <1>4, <1>5, <1>6, <1>7, <1>8 DEF ClientInv

\* Clean-up after a cancel and after a failure; the tidying after an import.
LEMMA RemovalKeeps ==
  ASSUME ClientInv, NEW r \in ClientRun, Clean(r) \/ Fail(r) \/ Tidy(r)
  PROVE  ClientInv'
<1>1. /\ RunAt(r, {"cleaning", "failing", "tidy"}) /\ EndRun(r)
      /\ UNCHANGED <<clientSide, release, flagged, shared>> /\ stagedFile' \in {stagedFile, NoRemote}
      /\ ExternalTypeOK /\ adapter # "none"
  BY DEF Clean, Fail, Tidy, RunAt, ClientInv, Fresh
<1>2. CASE Usenet /\ Discard(hrun[r].id)
  BY <1>1, <1>2, DiscardKeeps
<1>3. CASE RunAt(r, {"tidy"}) /\ ~Usenet /\ removal /\ LetGo(hrun[r].id)
  BY <1>1, <1>3, LetGoKeeps
<1>4. CASE UNCHANGED <<remote, data, fault>> /\ (RunAt(r, {"tidy"}) \/ ~Usenet)
  <2>1. Leaves(r)
    BY <1>1, EndEffect
  <2>2. /\ fault' \in {fault, TRUE} /\ stagedFile' \in RemoteId \cup {NoRemote}
        /\ release' \in {"cached", "gone"}
    BY <1>1, <1>4 DEF ExternalTypeOK
  <2>3. HoldsOn(r, "ended", NoRemote)
    BY <1>4 DEF HoldsOn, RunAt
  <2>4. OverFits("ended", NoRemote, FALSE, FALSE)
    BY DEF OverFits, Handing
  <2>5. DoneFits(r, "ended", NoRemote, FALSE)
    BY DEF DoneFits, Handing
  <2>6. StagedFits(r, "ended")
    BY <1>1 DEF StagedFits, Getting
  <2>7. "ended" \notin Holding
    BY DEF Holding
  <2> QED BY <1>1, <1>4, <2>1, <2>2, <2>3, <2>4, <2>5, <2>6, <2>7, RunMoves DEF Leaves
<1> QED BY <1>2, <1>3, <1>4 DEF Clean, Fail, Tidy

\* The client takes what is sent: the run polls it, or has no answer.
LEMMA SentKeeps ==
  ASSUME ClientInv, NEW r \in ClientRun, RunAt(r, {"add", "addurl"}),
         NEW q \in RemoteId, NewId(q), remote' = Sent(q),
         UNCHANGED <<clientSide, data, release, stagedFile, flagged, shared>>,
         NEW pc, NEW id, RunIs(r, pc, id, hrun'[r].ref, hrun'[r].found),
         \/ pc = "poll" /\ id = q /\ fault' = fault
         \/ pc \in {"add", "addurl", "ended"} /\ fault' = TRUE
  PROVE  ClientInv'
<1> USE DEF clientSide
<1>1. ExternalTypeOK /\ adapter # "none" /\ UnderWay(r) /\ (fault => fault') /\ fault' \in BOOLEAN
  BY DEF ClientInv, RunAt, Fresh, UnderWay, ExternalTypeOK
<1>2. /\ remote' \in [RemoteId -> Remotes]
      /\ \A t \in RemoteId : t # q \/ remote[t] \notin Gone => remote'[t] = remote[t]
      /\ Usenet => remote[q] = "absent"
      /\ remote'[q] # "removed"
  BY <1>1 DEF Sent, NewId, Gone, ExternalTypeOK, Remotes
<1>3. ExternalTypeOK'
  BY <1>1, <1>2 DEF ExternalTypeOK, Remotes, RunIs
<1>4. Fresh'
  BY <1>1 DEF Fresh
<1>5. NothingYet' /\ HoldsId' /\ TidyHere'
  BY DEF ClientInv, NothingYet, HoldsId, TidyHere, RunAt, RunIs, Holding
<1>6. Alone'
  BY <1>1 DEF ClientInv, Alone, UnderWay, RunAt, RunIs
<1>7. StagedIsNext'
  BY DEF ClientInv, StagedIsNext, RunAt, RunIs, Getting
<1>8. Followed'
  <2> SUFFICES ASSUME Usenet, ~fault', NEW t \in RemoteId,
                      remote'[t] \in {"accepted", "active", "failed"}
               PROVE  \E p \in ClientRun :
                        hrun'[p].id = t /\ hrun'[p].pc \in {"poll", "cleaning", "failing"}
    BY DEF Followed, Usenet, RunAt
  <2>1. hrun'[r].pc = "poll" /\ hrun'[r].id = q /\ ~fault
    BY <1>1 DEF RunIs
  <2>2. CASE t = q
    BY <2>1, <2>2
  <2>3. CASE t # q
    <3>1. PICK p \in ClientRun : hrun[p].id = t /\ RunAt(p, {"poll", "cleaning", "failing"})
      BY <1>2, <2>1, <2>3 DEF ClientInv, Followed
    <3>2. hrun'[p] = hrun[p]
      BY <3>1 DEF RunIs, RunAt
    <3> QED BY <3>1, <3>2 DEF RunAt
  <2> QED BY <2>2, <2>3
<1>9. UsenetOver'
  <2> SUFFICES ASSUME Usenet, NEW t \in ClientRun
               PROVE  (LET status == remote[hrun[t].id] IN
                       /\ RunAt(t, {"path"}) => status \in {"done", "removed"}
                       /\ RunAt(t, {"oldpath"}) =>
                            hrun[t].found /\ status \in {"done", "failed", "removed"}
                       /\ RunAt(t, Handing) /\ hrun[t].ref =>
                            /\ status \in {"done", "failed", "removed"}
                            /\ status = "failed" => hrun[t].found)'
    BY DEF UsenetOver, Usenet
  <2>2. CASE t = r
    BY <2>2 DEF RunIs, RunAt, Handing
  <2>3. CASE t # r
    <3>1. hrun'[t] = hrun[t]
      BY <2>3 DEF RunIs
    <3>2. CASE RunAt(t, Holding) /\ hrun[t].id # q
      <4>1. remote'[hrun[t].id] = remote[hrun[t].id]
        BY <1>2, <3>2 DEF ClientInv, HoldsId
      <4> QED BY <1>1, <3>1, <4>1 DEF ClientInv, UsenetOver, RunAt
    <3>3. CASE ~RunAt(t, Holding)
      BY <3>1, <3>3 DEF RunAt, Holding, Handing
    <3>4. CASE hrun[t].id = q
      BY <1>2, <3>1, <3>4 DEF ClientInv, UsenetOver, RunAt
    <3> QED BY <3>2, <3>3, <3>4
  <2> QED BY <2>2, <2>3
<1>10. TorrentDone'
  <2> SUFFICES ASSUME adapter = "torrent", NEW t \in ClientRun, t \notin shared \/ ~removal,
                      \/ hrun'[t].pc \in {"path", "oldpath"}
                      \/ hrun'[t].pc \in Handing /\ hrun'[t].ref
               PROVE  remote'[hrun'[t].id] = "done"
    BY DEF TorrentDone, RunAt
  <2>1. t # r /\ hrun'[t] = hrun[t]
    BY DEF RunIs, Handing
  <2>2. remote[hrun[t].id] = "done" /\ hrun[t].id \in RemoteId
    BY <2>1 DEF ClientInv, TorrentDone, HoldsId, RunAt, Handing, Holding
  <2> QED BY <1>2, <2>1, <2>2 DEF Gone
<1> QED BY <1>3, <1>4, <1>5, <1>6, <1>7, <1>8, <1>9, <1>10 DEF ClientInv

\* What follows a send without an answer.
LEMMA SendAgainEffect ==
  ASSUME ExternalTypeOK, NEW r \in ClientRun, RunAt(r, {"add", "addurl"}), SendAgain(r)
  PROVE  \/ Stays(r, "add") \/ Stays(r, "addurl") \/ Leaves(r)
<1>1. CASE GoTo(r, "addurl")
  BY <1>1, GoToEffect DEF RunPC
<1>2. CASE EndRun(r)
  BY <1>2, EndEffect
<1>3. CASE hrun' = [hrun EXCEPT ![r].tries = @ + 1]
  BY <1>3, TriesEffect DEF RunAt
<1> QED BY <1>1, <1>2, <1>3 DEF SendAgain

\* add_download answers with the id.
LEMMA AddKeeps ==
  ASSUME ClientInv, NEW r \in ClientRun, AddDownload(r)
  PROVE  ClientInv'
<1>1. PICK q \in RemoteId :
        /\ NewId(q) /\ remote' = Sent(q)
        /\ hrun' = [hrun EXCEPT ![r].pc = "poll", ![r].id = q, ![r].tries = 0]
  BY DEF AddDownload
<1> DEFINE h == [hrun[r] EXCEPT !.pc = "poll", !.id = q, !.tries = 0]
<1>2. hrun' = [hrun EXCEPT ![r] = h]
  BY <1>1 DEF ClientInv, ExternalTypeOK
<1>3. h \in ClientRunState /\ h.pc = "poll" /\ h.id = q
  BY RunFields DEF ClientInv, ClientRunState, RunPC
<1> HIDE DEF h
<1>4. RunIs(r, "poll", q, h.ref, h.found)
  BY <1>2, <1>3, RunChanges DEF ClientInv
<1>5. RunIs(r, "poll", q, hrun'[r].ref, hrun'[r].found)
  BY <1>4 DEF RunIs
<1> QED BY <1>1, <1>5, SentKeeps DEF AddDownload

\* add_download fails: nothing was taken, or the answer is lost.
LEMMA AddFailsKeeps ==
  ASSUME ClientInv, NEW r \in ClientRun, AddFails(r)
  PROVE  ClientInv'
<1>1. /\ RunAt(r, {"add", "addurl"}) /\ ~RunAt(r, {"poll", "cleaning", "failing"})
      /\ UNCHANGED <<clientSide, data, release, stagedFile, flagged, shared>> /\ fault' = TRUE
      /\ release' \in {"cached", "gone"} /\ adapter # "none" /\ ExternalTypeOK
      /\ stagedFile' \in {stagedFile, NoRemote} /\ fault' \in {fault, TRUE}
  BY DEF AddFails, RunAt, ClientInv, ExternalTypeOK, Fresh
<1>2. Stays(r, "add") \/ Stays(r, "addurl") \/ Leaves(r)
  BY <1>1, SendAgainEffect DEF AddFails
<1>3. CASE remote' = remote
  BY <1>1, <1>2, <1>3, RunGoesOn, RunEnds DEF RunAt
<1>4. ASSUME NEW q \in RemoteId, NewId(q), remote' = Sent(q) PROVE ClientInv'
  <2>1. PICK pc \in {"add", "addurl", "ended"} :
          RunIs(r, pc, hrun'[r].id, hrun'[r].ref, hrun'[r].found)
    BY <1>2 DEF Stays, Leaves, RunIs
  <2> QED BY <1>1, <1>4, <2>1, SentKeeps
<1> QED BY <1>3, <1>4 DEF AddFails

-----------------------------------------------------------------------------
(***************************************************************************)
(* The queue's cancel, the client's own progress, the settings.            *)
(***************************************************************************)
\* A run is cancelled.
LEMMA CancelKeeps ==
  ASSUME ClientInv, NEW r \in ClientRun, CancelRun(r)
  PROVE  ClientInv'
<1> USE DEF ClientInv, CancelRun, clientSide, RunAt, Usenet, UnderWay
<1>1. ExternalTypeOK' BY DEF ExternalTypeOK
<1>2. Fresh' /\ NothingYet' /\ HoldsId' /\ StagedIsNext' /\ TidyHere'
  BY DEF Fresh, NothingYet, HoldsId, StagedIsNext, TidyHere
<1>3. Alone' BY DEF Alone
<1>4. Followed' BY DEF Followed
<1>5. UsenetOver' BY DEF UsenetOver
<1>6. TorrentDone' BY DEF TorrentDone
<1> QED BY <1>1, <1>2, <1>3, <1>4, <1>5, <1>6

\* A job makes progress, or ends; its files appear.
LEMMA ProgressKeeps ==
  ASSUME ClientInv, NEW q \in RemoteId, RemoteProgress(q)
  PROVE  ClientInv'
<1> USE DEF clientSide, RunAt, Usenet, UnderWay
<1>1. /\ UNCHANGED <<clientSide, release, stagedFile, hrun, flagged, shared, fault>> /\ ExternalTypeOK
      /\ remote' \in [RemoteId -> Remotes] /\ data' \in [RemoteId -> {"none", "late", "here"}]
      /\ \A t \in RemoteId : data[t] = "here" => data'[t] = "here"
      /\ \A t \in RemoteId : remote[t] \in {"absent", "done", "failed", "removed"} =>
           remote'[t] = remote[t]
      /\ \A t \in RemoteId : remote[t] \in {"accepted", "active"} =>
           remote'[t] \in {"accepted", "active", "done", "failed"}
  BY DEF ClientInv, ExternalTypeOK, RemoteProgress, Remotes
<1>2. ExternalTypeOK' BY <1>1 DEF ExternalTypeOK, Remotes
<1>3. Fresh' /\ NothingYet' /\ HoldsId' /\ StagedIsNext'
  BY <1>1 DEF ClientInv, Fresh, NothingYet, HoldsId, StagedIsNext
<1>4. TidyHere' BY <1>1 DEF ClientInv, TidyHere, HoldsId, Holding
<1>5. Alone' BY <1>1 DEF ClientInv, Alone
<1>6. Followed' BY <1>1 DEF ClientInv, Followed, ExternalTypeOK
<1>7. UsenetOver' BY <1>1 DEF ClientInv, UsenetOver, HoldsId, Holding, Handing
<1>8. TorrentDone' BY <1>1 DEF ClientInv, TorrentDone, HoldsId, Holding, Handing
<1> QED BY <1>2, <1>3, <1>4, <1>5, <1>6, <1>7, <1>8 DEF ClientInv

\* The settings are read once; no run has begun.
LEMMA ConfigureKeeps == ASSUME ClientInv, ConfigureClient PROVE ClientInv'
<1> USE DEF RunAt
<1>1. /\ adapter = "none" /\ ExternalTypeOK
      /\ UNCHANGED <<remote, data, release, stagedFile, hrun, flagged, shared, fault>>
      /\ \A r \in ClientRun : hrun[r].pc = "idle" /\ hrun'[r].pc = "idle"
      /\ \A q \in RemoteId : remote'[q] = "absent"
      /\ adapter' \in {"sabnzbd", "nzbget", "torrent"}
  BY ExternalAssumption DEF ClientInv, ConfigureClient, Fresh
<1>2. ExternalTypeOK'
  BY <1>1, ExternalAssumption DEF ConfigureClient, ExternalTypeOK
<1>3. Fresh' /\ NothingYet' /\ HoldsId' /\ StagedIsNext' /\ TidyHere'
  BY <1>1 DEF ClientInv, Fresh, NothingYet, HoldsId, StagedIsNext, TidyHere,
    Holding, Getting
<1>4. Alone' BY <1>1 DEF Alone, UnderWay
<1>5. Followed' BY <1>1 DEF Followed
<1>6. UsenetOver' BY <1>1 DEF UsenetOver, Handing
<1>7. TorrentDone' BY <1>1 DEF TorrentDone, Handing
<1> QED BY <1>2, <1>3, <1>4, <1>5, <1>6, <1>7 DEF ClientInv

-----------------------------------------------------------------------------
(***************************************************************************)
(* The theorems.                                                           *)
(***************************************************************************)
\* Initially no client is configured and no run has begun.
LEMMA ClientInvInit == ExternalInit => ClientInv
<1> SUFFICES ASSUME ExternalInit PROVE ClientInv
  OBVIOUS
<1> USE DEF ExternalInit, RunAt
<1>1. \A r \in ClientRun : hrun[r] = IdleRun /\ hrun[r].pc = "idle" /\ ~hrun[r].ref
  BY DEF IdleRun
<1>2. ExternalTypeOK
  BY DEF ExternalTypeOK, ClientRunState, RunPC, IdleRun
<1>3. Fresh /\ NothingYet /\ HoldsId /\ StagedIsNext /\ TidyHere
  BY <1>1 DEF Fresh, NothingYet, HoldsId, StagedIsNext, TidyHere, Holding, Getting
<1>4. Alone BY <1>1 DEF Alone, UnderWay
<1>5. Followed /\ UsenetOver /\ TorrentDone
  BY DEF Followed, UsenetOver, TorrentDone, Usenet
<1> QED BY <1>2, <1>3, <1>4, <1>5 DEF ClientInv

\* Every step of a run, of the queue and of the client keeps the invariant.
LEMMA ClientInvStep == ClientInv /\ [ExternalNext]_clientVars => ClientInv'
<1> SUFFICES ASSUME ClientInv, [ExternalNext]_clientVars PROVE ClientInv'
  OBVIOUS
<1>1. ASSUME NEW r \in ClientRun, RunStep(r) PROVE ClientInv'
  <2>1. CASE PollCancelled(r)
    BY <2>1, CancelledKeeps DEF PollCancelled, RunAt
  <2> QED BY <1>1, <2>1, ResolveKeeps, FindKeeps, AddKeeps, AddFailsKeeps, PollKeeps,
       RemovalKeeps, WaitKeeps, StartKeeps, ImportFailsKeeps, ImportSucceedsKeeps DEF RunStep
<1>2. CASE UNCHANGED clientVars
  BY <1>2 DEF clientVars, ClientInv, ExternalTypeOK, Fresh, NothingYet, HoldsId, Alone,
    Followed, UsenetOver, TorrentDone, TidyHere, StagedIsNext, UnderWay,
    RunAt, Usenet
<1> QED BY <1>1, <1>2, ConfigureKeeps, BeginKeeps, CancelKeeps, ProgressKeeps DEF ExternalNext

\* The inductive invariant holds in every reachable state.
THEOREM ClientInvariant == ExternalSpec => []ClientInv
BY ClientInvInit, ClientInvStep, PTL DEF ExternalSpec

\* Types.
THEOREM ClientTyped == ExternalSpec => []ExternalTypeOK
<1>1. ClientInv => ExternalTypeOK BY DEF ClientInv
<1> QED BY <1>1, ClientInvariant, PTL

\* The invariant says of each job that goes on who follows it.
LEMMA ClientIsFollowed == ClientInv => NoStrayDownload
BY DEF ClientInv, Followed, NoStrayDownload

\* No usenet job goes on in the client without a run that will import or remove
\* it, as long as no call to the client has failed.
THEOREM ClientNoStrayDownload == ExternalSpec => []NoStrayDownload
BY ClientIsFollowed, ClientInvariant, PTL

\* The invariant says of each run that hands over a failed job how it came to it.
LEMMA ClientFindsFailed == ClientInv => FailedOnlyWhenFound
<1>1. ASSUME ClientInv, NEW r \in ClientRun, RunAt(r, Handing), hrun[r].ref,
             remote[hrun[r].id] = "failed"
      PROVE  IF Usenet
             THEN /\ hrun[r].found
                  /\ fault \/ \E q \in ClientRun : /\ hrun[q].id = hrun[r].id
                                                 /\ RunAt(q, {"poll", "cleaning", "failing"})
             ELSE removal /\ r \in shared
  <2>1. CASE Usenet
    <3>1. hrun[r].found /\ hrun[r].id \in RemoteId
      BY <1>1, <2>1 DEF ClientInv, UsenetOver, HoldsId, RunAt, Handing, Holding
    <3> QED BY <1>1, <2>1, <3>1 DEF ClientInv, Followed
  <2>2. CASE ~Usenet
    <3>1. adapter = "torrent"
      BY <1>1, <2>2 DEF ClientInv, Fresh, ExternalTypeOK, Usenet, RunAt, Handing
    <3> QED BY <1>1, <2>2, <3>1 DEF ClientInv, TorrentDone
  <2> QED BY <2>1, <2>2
<1> QED BY <1>1 DEF FailedOnlyWhenFound, Handing

\* What the client calls failed is imported only as "found complete" after a failed
\* call or beside the run that follows it, or as a torrent that runs beside this one
\* have put back.
THEOREM ClientFailedOnlyWhenFound == ExternalSpec => []FailedOnlyWhenFound
BY ClientFindsFailed, ClientInvariant, PTL

\* Only clean-up, a failed run's removal and the tidying delete a file that is
\* there, or take out of the client what is in it.
LEMMA OnlyRemovals ==
  ASSUME ClientInv, [ExternalNext]_clientVars, NEW q \in RemoteId,
         \/ data[q] = "here" /\ data'[q] # "here"
         \/ remote[q] \notin Gone /\ remote'[q] \in Gone
  PROVE  \E r \in ClientRun : Clean(r) \/ Fail(r) \/ Tidy(r)
<1> SUFFICES ASSUME \A r \in ClientRun : ~(Clean(r) \/ Fail(r) \/ Tidy(r)) PROVE FALSE
  OBVIOUS
<1>1. CASE ConfigureClient
  BY <1>1 DEF ConfigureClient
<1>2. ASSUME NEW t \in RemoteId, RemoteProgress(t) PROVE FALSE
  BY <1>2 DEF RemoteProgress, ClientInv, ExternalTypeOK, Gone
<1>3. CASE UNCHANGED clientVars
  BY <1>3 DEF clientVars
<1>4. ASSUME NEW r \in ClientRun, BeginRun(r) \/ CancelRun(r) PROVE FALSE
  BY <1>4 DEF BeginRun, CancelRun
<1>5. ASSUME NEW r \in ClientRun, AddDownload(r) \/ AddFails(r) PROVE FALSE
  <2>1. data' = data /\ (remote' = remote \/ \E t \in RemoteId : remote' = Sent(t))
    BY <1>5 DEF AddDownload, AddFails
  <2> QED BY <2>1 DEF Sent, Gone, ClientInv, ExternalTypeOK
<1>6. ASSUME NEW r \in ClientRun, RunStep(r) PROVE FALSE
  BY <1>5, <1>6 DEF RunStep, Resolve, FindExisting, PollCancelled, PollStatus, WaitForPath,
    StartImport, ImportFails, ImportSucceeds
<1> QED BY <1>1, <1>2, <1>3, <1>4, <1>6 DEF ExternalNext

\* Steps that keep the invariant keep the data, whatever is fair.
LEMMA DataIsKept == []ClientInv /\ [][ExternalNext]_clientVars => DataKept
<1> DEFINE Seeds ==
      adapter = "torrent" =>
       \A q \in RemoteId :
         /\ data[q] = "here" => data'[q] = "here"
         /\ remote[q] \notin Gone /\ remote'[q] \in Gone => removal /\ data[q] = "here"
    Staged ==
      /\ stagedFile # NoRemote
      /\ data[stagedFile] = "here" /\ data'[stagedFile] # "here"
      => \/ stagedFile' = NoRemote
         \/ \E r \in shared : hrun[r].id = stagedFile /\ RunAt(r, {"cleaning", "failing"})
<1>1. ASSUME ClientInv, [ExternalNext]_clientVars, adapter = "torrent", NEW q \in RemoteId
      PROVE  /\ data[q] = "here" => data'[q] = "here"
             /\ remote[q] \notin Gone /\ remote'[q] \in Gone => removal /\ data[q] = "here"
  <2> SUFFICES ASSUME \/ data[q] = "here" /\ data'[q] # "here"
                      \/ remote[q] \notin Gone /\ remote'[q] \in Gone
               PROVE  data' = data /\ removal /\ data[q] = "here"
    OBVIOUS
  <2>1. PICK r \in ClientRun : Clean(r) \/ Fail(r) \/ Tidy(r)
    BY <1>1, OnlyRemovals
  <2>2. ~Usenet /\ ~(UNCHANGED <<remote, data, fault>>)
    BY <1>1 DEF Usenet
  <2>3. Tidy(r) /\ hrun[r].ref /\ removal /\ LetGo(hrun[r].id)
    BY <2>1, <2>2 DEF Clean, Fail, Tidy
  <2>4. data[hrun[r].id] = "here" /\ hrun[r].id \in RemoteId
    BY <1>1, <2>3 DEF Tidy, ClientInv, TidyHere, HoldsId, Holding, RunAt
  <2>5. data' = data /\ (remote' = remote \/ remote' = [remote EXCEPT ![hrun[r].id] = "removed"])
    BY <2>3 DEF LetGo
  <2>6. q = hrun[r].id
    BY <1>1, <2>4, <2>5 DEF ClientInv, ExternalTypeOK
  <2> QED BY <2>3, <2>4, <2>5, <2>6
<1>2. ASSUME ClientInv, [ExternalNext]_clientVars, stagedFile # NoRemote,
             data[stagedFile] = "here", data'[stagedFile] # "here", stagedFile' # NoRemote
      PROVE  \E r \in shared : hrun[r].id = stagedFile /\ RunAt(r, {"cleaning", "failing"})
  <2>1. stagedFile \in RemoteId
    BY <1>2 DEF ClientInv, ExternalTypeOK
  <2>2. PICK r \in ClientRun : Clean(r) \/ Fail(r) \/ Tidy(r)
    BY <1>2, <2>1, OnlyRemovals
  <2>3. RunAt(r, {"cleaning", "failing"})
    BY <1>2, <2>2 DEF Clean, Fail, Tidy, RunAt
  <2>4. r \in shared
    BY <1>2, <2>3 DEF ClientInv, StagedIsNext, Getting, RunAt
  <2>5. hrun[r].id \in RemoteId /\ Discard(hrun[r].id)
    BY <1>2, <2>2, <2>3 DEF Clean, Fail, Tidy, ClientInv, HoldsId, Holding, RunAt
  <2>6. hrun[r].id = stagedFile
    BY <1>2, <2>1, <2>5, DiscardEffect DEF ClientInv
  <2> QED BY <2>3, <2>4, <2>6
<1>3. ClientInv /\ [ExternalNext]_clientVars => [Seeds]_clientVars
  BY <1>1
<1>4. ClientInv /\ [ExternalNext]_clientVars => [Staged]_clientVars
  BY <1>2
<1>5. []ClientInv /\ [][ExternalNext]_clientVars => SeedingKept
  BY <1>3, PTL DEF SeedingKept
<1>6. []ClientInv /\ [][ExternalNext]_clientVars => StagedDataKept
  BY <1>4, PTL DEF StagedDataKept
<1> QED BY <1>5, <1>6 DEF DataKept

\* A torrent leaves the client only after its import and as the settings say,
\* and its files stay; a file that is staged for the next run goes only with the
\* import that succeeds, or by a run that fetches the same download and was under
\* way beside the one whose file it is.
THEOREM ClientDataKept == ExternalSpec => DataKept
BY DataIsKept, ClientInvariant, PTL DEF ExternalSpec

-----------------------------------------------------------------------------
(* QBittorrent *)

(***************************************************************************)
(* Types of all variables.                                                 *)
(***************************************************************************)
CallType ==
  [name : {"setup", "none", "find", "add", "status", "path", "remove"},
   at : {"idle", "extract", "send", "login", "get"},
   ask : {"none", "filter", "category", "all", "loaded", "props", "files"},
   retried : BOOLEAN, tries : 0..(LoadTries - 1), hash : BOOLEAN, gone : BOOLEAN,
   expired : 0..2, failed : BOOLEAN]
TorrentType ==
  [state : {"absent", "added", "downloading", "moving", "seeding"},
   place : {"temp", "final", "elsewhere"}]
AnswerType ==
  [kind : {"none", "raised", "error", "removed", "nothing", "auth", "complete", "running",
           "notfound", "added"},
   path : {"none", "final", "elsewhere", "guess"}]

QbtTypes ==
  /\ qset \in [padded : BOOLEAN, own : BOOLEAN, others : BOOLEAN, content : BOOLEAN]
  /\ torrent \in TorrentType
  /\ session \in BOOLEAN /\ moved \in BOOLEAN
  /\ call \in CallType
  /\ known \in {"none", "release", "client"}
  /\ answer \in AnswerType
  /\ settled \subseteq {"final", "elsewhere"}

(***************************************************************************)
(* The inductive invariant.                                                *)
(***************************************************************************)
\* What a call asks for fits its name, and it has an answer when it has ended.
CallsFit ==
  /\ call.name \in {"status", "path", "remove"} => known # "none"
  /\ call.name = "setup" => call.at = "idle" /\ answer.kind = "none"
  /\ call.at = "extract" => call.name \in {"find", "add"} /\ call.ask = "none"
  /\ call.at = "send" => call.name \in {"add", "remove"} /\ call.ask = "none"
  /\ call.at \in {"login", "get"} =>
       /\ call.name \in {"find", "add", "status", "path"} /\ call.ask # "none"
       /\ call.ask = "loaded" <=> call.name = "add"
       /\ call.ask \in {"props", "files"} => call.name \in {"status", "path"} /\ ~qset.content
  /\ call.at # "idle" => answer.kind = "none"

\* A torrent that rests does so at a place of its own, which history has.
RestsInPlace == torrent.state = "seeding" => torrent.place # "temp" /\ torrent.place \in settled

\* Once the torrent was seen complete it rests, is moved by somebody, or has gone.
SeenComplete ==
  \/ answer.kind = "complete"
  \/ call.at # "idle" /\ (call.name = "path" \/ call.ask \in {"props", "files"})
CompleteStays ==
  SeenComplete =>
    \/ torrent.state = "absent" \/ torrent.state = "seeding"
    \/ torrent.state = "moving" /\ moved /\ torrent.place # "temp"

\* The place that the properties told.
PlaceTold ==
  call.at # "idle" /\ call.ask = "files" =>
    answer.path \in {"final", "elsewhere"} /\ (answer.path \in settled \/ moved)

\* A call that has not noticed the torrent go has it in the client, and has left the
\* filter by hash only because the client does not know it.
ThereUnlessGone ==
  /\ call.at # "idle" /\ ~call.gone => Loaded
  /\ call.at # "idle" /\ call.ask \in {"category", "all"} /\ ~call.gone => ~HasHash

\* A login that was refused once had expired once, and is refused again only if it has
\* expired again.
LoginsCounted ==
  /\ call.at = "login" /\ call.retried => call.expired >= 1
  /\ call.at = "get" => call.expired >= (IF call.retried THEN 1 ELSE 0) + (IF session THEN 0 ELSE 1)

QbtInv ==
  /\ QbtTypes
  /\ CallsFit /\ RestsInPlace /\ CompleteStays /\ PlaceTold /\ ThereUnlessGone /\ LoginsCounted
  /\ AnswersAreTrue

-----------------------------------------------------------------------------
(***************************************************************************)
(* What the helpers do to a call, field by field.                          *)
(***************************************************************************)
Asked == {"none", "filter", "category", "all", "loaded", "props", "files"}

\* The fields that a request does not touch.
SameCall == /\ call'.name = call.name /\ call'.tries = call.tries /\ call'.hash = call.hash
            /\ call'.gone = call.gone /\ call'.failed = call.failed

\* Asking begins a request with a login to come.
LEMMA AskingEffect ==
  ASSUME call \in CallType, NEW ask \in Asked, call' = Asking(ask)
  PROVE  /\ call' \in CallType /\ SameCall
         /\ call'.at = "login" /\ call'.ask = ask
         /\ call'.retried = FALSE /\ call'.expired = 0
<1>1. call' = [call EXCEPT !.at = "login", !.ask = ask, !.retried = FALSE, !.expired = 0]
  BY DEF Asking
<1>2. call' \in CallType
  <2>1. 0 \in 0..2 /\ FALSE \in BOOLEAN OBVIOUS
  <2> QED BY <1>1, <2>1 DEF CallType, Asked
<1>3. SameCall BY <1>1 DEF CallType, SameCall
<1>4. /\ call'.at = "login" /\ call'.ask = ask
      /\ call'.retried = FALSE /\ call'.expired = 0
  BY <1>1 DEF CallType
<1> QED BY <1>2, <1>3, <1>4

\* AsksAgain looks for the added torrent once more.
LEMMA AsksAgainEffect ==
  ASSUME call \in CallType, NEW tries \in 0..(LoadTries - 1), AsksAgain(tries)
  PROVE  /\ call' \in CallType /\ UNCHANGED answer
         /\ call'.name = call.name /\ call'.gone = call.gone
         /\ call'.at = "login" /\ call'.ask = "loaded"
         /\ call'.retried = FALSE /\ call'.expired = 0
<1>1. call' = [call EXCEPT !.at = "login", !.ask = "loaded", !.retried = FALSE, !.expired = 0,
                           !.tries = tries]
  BY DEF AsksAgain, Asking, CallType
<1>2. call' \in CallType
  <2>1. 0 \in 0..2 /\ FALSE \in BOOLEAN OBVIOUS
  <2> QED BY <1>1, <2>1 DEF CallType
<1>3. call'.name = call.name /\ call'.gone = call.gone BY <1>1 DEF CallType
<1>4. /\ call'.at = "login" /\ call'.ask = "loaded"
      /\ call'.retried = FALSE /\ call'.expired = 0
  BY <1>1 DEF CallType
<1> QED BY <1>2, <1>3, <1>4 DEF AsksAgain

\* A call ends, with an answer or without one.
LEMMA EndsEffect ==
  ASSUME call \in CallType, NEW failed \in BOOLEAN,
         \/ call' = [call EXCEPT !.at = "idle"] /\ failed = call.failed
         \/ call' = [call EXCEPT !.at = "idle", !.failed = failed]
  PROVE  /\ call' \in CallType /\ call'.at = "idle" /\ call'.failed = failed
         /\ call'.name = call.name /\ call'.ask = call.ask /\ call'.retried = call.retried
         /\ call'.hash = call.hash /\ call'.gone = call.gone /\ call'.expired = call.expired
BY DEF CallType

\* A call begins; one that finds no torrent in the client knows it.
LEMMA BeginEffect ==
  ASSUME QbtTypes, NEW name \in {"find", "add", "status", "path", "remove"},
         NEW at \in {"extract", "send", "login"}, NEW ask \in {"none", "filter"},
         Begin(name, at, ask)
  PROVE  /\ call.at = "idle" /\ call.name # "setup" /\ call' \in CallType
         /\ call'.name = name /\ call'.at = at /\ call'.ask = ask
         /\ call'.retried = FALSE /\ call'.expired = 0
         /\ call'.gone \/ Loaded
         /\ answer' = Nothing /\ UNCHANGED <<qset, torrent, session, known>>
<1> DEFINE gone == ~Loaded
<1>1. gone \in BOOLEAN OBVIOUS
<1>2. call' = [NoCall EXCEPT !.name = name, !.at = at, !.ask = ask, !.gone = gone]
  BY DEF Begin
<1>3. gone \/ Loaded OBVIOUS
<1> HIDE DEF gone
<1>4. 0 \in 0..(LoadTries - 1) BY QbtAssumption
<1>5. NoCall \in CallType BY <1>4 DEF NoCall, CallType
<1>6. call'.gone = gone BY <1>2, <1>5 DEF CallType
<1>7. call' \in CallType BY <1>1, <1>2, <1>5 DEF CallType
<1>8. /\ call'.name = name /\ call'.at = at /\ call'.ask = ask
      /\ call'.retried = FALSE /\ call'.expired = 0
  BY <1>2 DEF NoCall
<1> QED BY <1>3, <1>6, <1>7, <1>8 DEF Begin

-----------------------------------------------------------------------------
(***************************************************************************)
(* What a call that asks, and a call that ends, must see to.               *)
(***************************************************************************)
Rested == \/ torrent.state = "absent" \/ torrent.state = "seeding"
          \/ torrent.state = "moving" /\ moved /\ torrent.place # "temp"
Told(path) == path \in {"final", "elsewhere"} /\ (path \in settled \/ moved)

\* A request may be made: its kind fits the call, and what it goes on from is so.
LEMMA AskKeeps ==
  ASSUME QbtInv, UNCHANGED <<qset, settled, moved, session>>, call' \in CallType,
         known' \in {"none", "release", "client"}, answer' \in AnswerType,
         torrent' \in TorrentType, torrent'.state = "seeding" => UNCHANGED torrent,
         call'.at = "login", call'.retried = FALSE, call'.expired = 0,
         call'.name \in {"find", "add", "status", "path"}, call'.ask # "none",
         call'.name \in {"status", "path"} => known' # "none",
         call'.ask = "loaded" <=> call'.name = "add",
         call'.ask \in {"props", "files"} => call'.name \in {"status", "path"} /\ ~qset.content,
         answer'.kind = "none",
         call'.gone \/ Loaded',
         call'.ask \in {"category", "all"} => call'.gone \/ ~HasHash',
         call'.name = "path" \/ call'.ask \in {"props", "files"} => Rested',
         call'.ask = "files" => Told(answer'.path)
  PROVE  QbtInv'
<1>1. QbtTypes' BY DEF QbtInv, QbtTypes
<1>2. CallsFit' BY DEF CallsFit
<1>3. RestsInPlace' BY DEF QbtInv, RestsInPlace
<1>4. CompleteStays' BY DEF CompleteStays, SeenComplete, Rested
<1>5. PlaceTold' BY DEF PlaceTold, Told
<1>6. ThereUnlessGone' BY DEF ThereUnlessGone, Loaded
<1>7. LoginsCounted' BY DEF LoginsCounted
<1>8. AnswersAreTrue'
  BY DEF AnswersAreTrue, CompleteIsInPlace, NotFoundOnlyIfFiltered, AuthErrorOnlyAfterTwo,
         StrayOnlyUnknown, RemovedIsGone
<1> QED BY <1>1, <1>2, <1>3, <1>4, <1>5, <1>6, <1>7, <1>8 DEF QbtInv

\* An answer may be given: what it says is so.
LEMMA EndKeeps ==
  ASSUME QbtInv, UNCHANGED <<qset, settled, moved, session>>, call' \in CallType,
         known' \in {"none", "release", "client"}, answer' \in AnswerType,
         torrent' \in TorrentType, torrent'.state = "seeding" => UNCHANGED torrent,
         call'.at = "idle", call'.name # "setup",
         call'.name \in {"status", "path", "remove"} => known' # "none",
         answer'.kind = "complete" =>
           /\ Rested'
           /\ \/ answer'.path \in settled \/ moved
              \/ answer'.path = "guess" /\ ~qset.content /\ (call'.failed \/ call'.gone),
         answer'.kind = "notfound" => call'.gone \/ (~HasHash' /\ qset.own /\ qset.others),
         answer'.kind = "auth" => call'.expired = 2,
         answer'.kind = "raised" => torrent'.state = "absent" \/ call'.failed \/ ~call'.hash,
         answer'.kind = "removed" => torrent'.state = "absent" \/ call'.gone \/ ~HasHash'
  PROVE  QbtInv'
<1>1. QbtTypes' BY DEF QbtInv, QbtTypes
<1>2. CallsFit' BY DEF CallsFit
<1>3. RestsInPlace' BY DEF QbtInv, RestsInPlace
<1>4. CompleteStays' BY DEF CompleteStays, SeenComplete, Rested
<1>5. PlaceTold' /\ ThereUnlessGone' /\ LoginsCounted'
  BY DEF PlaceTold, ThereUnlessGone, LoginsCounted
<1>6. AnswersAreTrue'
  BY DEF AnswersAreTrue, CompleteIsInPlace, NotFoundOnlyIfFiltered, AuthErrorOnlyAfterTwo,
         StrayOnlyUnknown, RemovedIsGone
<1> QED BY <1>1, <1>2, <1>3, <1>4, <1>5, <1>6 DEF QbtInv

\* A call may begin, whatever history it starts, if that has the place of a torrent
\* at rest.
LEMMA CallBegins ==
  ASSUME QbtInv, NEW name \in {"find", "add", "status", "path", "remove"},
         NEW at \in {"extract", "send", "login"}, NEW ask \in {"none", "filter"},
         Begin(name, at, ask),
         name \in {"status", "path", "remove"} => known # "none",
         at = "extract" => name \in {"find", "add"} /\ ask = "none",
         at = "send" => name \in {"add", "remove"} /\ ask = "none",
         at = "login" => name \in {"status", "path"} /\ ask = "filter",
         name = "path" => answer.kind = "complete",
         \/ UNCHANGED <<settled, moved>>
         \/ settled' = Rests /\ moved' = FALSE /\ name # "path"
  PROVE  QbtInv'
<1>1. /\ call.at = "idle" /\ call.name # "setup" /\ call' \in CallType
      /\ call'.name = name /\ call'.at = at /\ call'.ask = ask
      /\ call'.retried = FALSE /\ call'.expired = 0
      /\ call'.gone \/ Loaded
      /\ answer' = Nothing /\ UNCHANGED <<qset, torrent, session, known>>
  BY BeginEffect DEF QbtInv
<1>2. answer' \in AnswerType /\ answer'.kind = "none" BY <1>1 DEF Nothing, AnswerType
<1>3. torrent.state = "seeding" => torrent.place \in {"final", "elsewhere"}
  BY DEF QbtInv, QbtTypes, TorrentType, RestsInPlace
<1>4. QbtTypes' BY <1>1, <1>2, <1>3 DEF QbtInv, QbtTypes, Rests
<1>5. CallsFit' BY <1>1, <1>2 DEF CallsFit
<1>6. RestsInPlace' BY <1>1, <1>3 DEF QbtInv, RestsInPlace, Rests
<1>7. CompleteStays'
  BY <1>1, <1>2 DEF QbtInv, CompleteStays, SeenComplete
<1>8. PlaceTold' BY <1>1 DEF PlaceTold
<1>9. ThereUnlessGone' BY <1>1 DEF ThereUnlessGone, Loaded
<1>10. LoginsCounted' BY <1>1 DEF LoginsCounted
<1>11. AnswersAreTrue'
  BY <1>1 DEF AnswersAreTrue, CompleteIsInPlace, NotFoundOnlyIfFiltered,
              AuthErrorOnlyAfterTwo, StrayOnlyUnknown, RemovedIsGone
<1> QED BY <1>4, <1>5, <1>6, <1>7, <1>8, <1>9, <1>10, <1>11 DEF QbtInv

\* The torrent changes in the client: a call that has not ended may find it gone.
LEMMA BecomesKeeps ==
  ASSUME QbtInv, NEW t \in TorrentType, Becomes(t), moved' \in BOOLEAN, moved => moved',
         t.state = "seeding" => t.place # "temp",
         Rested => \/ t.state \in {"absent", "seeding"}
                   \/ t.state = "moving" /\ moved' /\ t.place # "temp",
         t.state # "added",
         torrent.state # "absent"
  PROVE  QbtInv'
<1> DEFINE gone == call.gone \/ t.state = "absent"
<1> USE DEF QbtInv
<1>1. /\ torrent' = t /\ UNCHANGED <<qset, session, known, answer>>
      /\ settled' = IF t.state = "seeding" THEN settled \cup {t.place} ELSE settled
      /\ call' = [call EXCEPT !.gone = gone]
  BY DEF Becomes
<1>2. gone \in BOOLEAN BY DEF QbtTypes, CallType
<1>3. call.gone => gone OBVIOUS
<1>4. t.state = "absent" => gone OBVIOUS
<1> HIDE DEF gone
<1>5. /\ call' \in CallType /\ call'.gone = gone /\ call'.failed = call.failed
      /\ call'.at = call.at /\ call'.ask = call.ask /\ call'.name = call.name
      /\ call'.retried = call.retried /\ call'.expired = call.expired /\ call'.hash = call.hash
  BY <1>1, <1>2 DEF QbtTypes, CallType
<1>6. QbtTypes' BY <1>1, <1>5 DEF QbtTypes, TorrentType
<1>7. CallsFit' BY <1>1, <1>5 DEF CallsFit
<1>8. RestsInPlace' BY <1>1 DEF RestsInPlace
<1>9. CompleteStays' BY <1>1, <1>5 DEF CompleteStays, SeenComplete, Rested
<1>10. PlaceTold' BY <1>1, <1>5 DEF PlaceTold
<1>11. ThereUnlessGone'
  BY <1>1, <1>3, <1>4, <1>5 DEF ThereUnlessGone, Loaded, HasHash, TorrentType
<1>12. LoginsCounted' BY <1>1, <1>5 DEF LoginsCounted
<1>13. CompleteIsInPlace' BY <1>1, <1>3, <1>5 DEF AnswersAreTrue, CompleteIsInPlace
<1>14. NotFoundOnlyIfFiltered'
  BY <1>1, <1>3, <1>5 DEF AnswersAreTrue, NotFoundOnlyIfFiltered, HasHash
<1>15. AuthErrorOnlyAfterTwo' BY <1>1, <1>5 DEF AnswersAreTrue, AuthErrorOnlyAfterTwo
<1>16. StrayOnlyUnknown' BY <1>1, <1>5 DEF AnswersAreTrue, StrayOnlyUnknown
<1>17. RemovedIsGone' BY <1>1, <1>3, <1>5 DEF AnswersAreTrue, RemovedIsGone, HasHash
<1> QED
  BY <1>6, <1>7, <1>8, <1>9, <1>10, <1>11, <1>12, <1>13, <1>14, <1>15, <1>16, <1>17
     DEF AnswersAreTrue

\* A step within a call that changes where it is and what its logins have met.
LEMMA MovesKeeps ==
  ASSUME QbtInv, UNCHANGED <<qset, torrent, known, answer, settled, moved>>,
         session' \in BOOLEAN, call' \in CallType, SameCall, call'.ask = call.ask,
         call'.at = call.at \/ (call.at # "idle" /\ call'.at # "idle"),
         call.expired = 2 => call'.expired = 2,
         CallsFit', LoginsCounted'
  PROVE  QbtInv'
<1> USE DEF QbtInv, SameCall
<1>1. QbtTypes' BY DEF QbtTypes
<1>2. RestsInPlace' BY DEF RestsInPlace
<1>3. CompleteStays' BY DEF CompleteStays, SeenComplete
<1>4. PlaceTold' BY DEF PlaceTold
<1>5. ThereUnlessGone' BY DEF ThereUnlessGone, Loaded, HasHash
<1>6. AnswersAreTrue'
  BY DEF AnswersAreTrue, CompleteIsInPlace, NotFoundOnlyIfFiltered, AuthErrorOnlyAfterTwo,
         StrayOnlyUnknown, RemovedIsGone, HasHash
<1> QED BY <1>1, <1>2, <1>3, <1>4, <1>5, <1>6

-----------------------------------------------------------------------------
(***************************************************************************)
(* The client's own steps.                                                 *)
(***************************************************************************)
\* A torrent that is added, downloads, completes, moves or goes keeps the invariant.
LEMMA QbtTorrentSteps ==
  ASSUME QbtInv,
         \/ TorrentLoads \/ TorrentFinishes \/ TorrentMoved \/ SomebodyMoves
         \/ SomebodyRemoves
  PROVE  QbtInv'
<1> USE DEF QbtInv, QbtTypes
<1>1. CASE TorrentLoads
  <2> DEFINE t == [torrent EXCEPT !.state = "downloading"]
  <2>1. t \in TorrentType /\ t.state = "downloading" BY DEF TorrentType
  <2>2. torrent.state = "added" /\ Becomes(t) /\ UNCHANGED moved BY <1>1 DEF TorrentLoads
  <2> HIDE DEF t
  <2> QED BY <2>1, <2>2, BecomesKeeps DEF Rested
<1>2. CASE TorrentFinishes
  <2>1. PICK t \in {[torrent EXCEPT !.state = "moving"],
                    [state |-> "seeding", place |-> "final"]} : Becomes(t)
    BY <1>2 DEF TorrentFinishes
  <2>2. /\ t \in TorrentType /\ t.state \in {"moving", "seeding"}
        /\ t.state = "seeding" => t.place = "final"
    BY DEF TorrentType
  <2>3. torrent.state = "downloading" /\ UNCHANGED moved BY <1>2 DEF TorrentFinishes
  <2> QED BY <2>1, <2>2, <2>3, BecomesKeeps DEF Rested
<1>3. CASE TorrentMoved
  <2> DEFINE t == [state |-> "seeding", place |-> MoveTarget]
  <2>1. t \in TorrentType /\ t.state = "seeding" /\ t.place # "temp"
    BY DEF TorrentType, MoveTarget
  <2>2. torrent.state = "moving" /\ Becomes(t) /\ UNCHANGED moved BY <1>3 DEF TorrentMoved
  <2> HIDE DEF t
  <2> QED BY <2>1, <2>2, BecomesKeeps DEF Rested
<1>4. CASE SomebodyMoves
  <2> DEFINE t == [torrent EXCEPT !.state = "moving"]
  <2>1. torrent = [state |-> "seeding", place |-> "final"] BY <1>4 DEF SomebodyMoves
  <2>2. t \in TorrentType /\ t.state = "moving" /\ t.place = "final"
    BY <2>1 DEF TorrentType
  <2>3. Becomes(t) /\ moved' = TRUE BY <1>4 DEF SomebodyMoves
  <2>4. torrent.state = "seeding" BY <2>1
  <2> HIDE DEF t
  <2> QED BY <2>2, <2>3, <2>4, BecomesKeeps
<1>5. CASE SomebodyRemoves
  <2>1. PICK t \in TorrentType : t = [state |-> "absent", place |-> "temp"]
    BY DEF TorrentType
  <2>2. t.state = "absent" BY <2>1
  <2>3. Loaded /\ Becomes(t) /\ UNCHANGED moved BY <1>5, <2>1 DEF SomebodyRemoves
  <2>4. torrent.state # "absent" BY <2>3 DEF Loaded
  <2> QED BY <2>2, <2>3, <2>4, BecomesKeeps
<1> QED BY <1>1, <1>2, <1>3, <1>4, <1>5

\* The session expires at any time, idle or not.
LEMMA QbtSessionExpires == ASSUME QbtInv, SessionExpires PROVE QbtInv'
<1> DEFINE expired == IF call.expired < 2 THEN call.expired + 1 ELSE call.expired
<1>1. call \in CallType BY DEF QbtInv, QbtTypes
<1>2. expired \in 0..2 /\ expired >= call.expired BY <1>1 DEF CallType
<1>3. expired >= call.expired + 1 \/ expired = 2 BY <1>1 DEF CallType
<1>4. call' = [call EXCEPT !.expired = expired] BY DEF SessionExpires
<1> HIDE DEF expired
<1>5. /\ call' \in CallType /\ SameCall /\ call'.ask = call.ask /\ call'.at = call.at
      /\ call'.expired = expired /\ call'.retried = call.retried
  BY <1>1, <1>2, <1>4 DEF CallType, SameCall
<1>6. UNCHANGED <<qset, torrent, known, answer, settled, moved>> /\ session /\ session' = FALSE
  BY DEF SessionExpires
<1>7. CallsFit' BY <1>5, <1>6 DEF QbtInv, CallsFit, SameCall
<1>8. LoginsCounted'
  BY <1>1, <1>2, <1>3, <1>5, <1>6 DEF QbtInv, LoginsCounted, CallType
<1>9. call.expired = 2 => call'.expired = 2 BY <1>2, <1>5
<1>10. session' \in BOOLEAN BY <1>6
<1> QED BY <1>5, <1>6, <1>7, <1>8, <1>9, <1>10, MovesKeeps

-----------------------------------------------------------------------------
(***************************************************************************)
(* The handler's steps.                                                    *)
(***************************************************************************)
\* The settings are read once; no call has begun.
LEMMA QbtConfigure == ASSUME QbtInv, Configure PROVE QbtInv'
<1>1. /\ call.name = "setup" /\ call' = NoCall /\ qset' \in QbtSetups
      /\ torrent' \in TorrentType /\ torrent'.state \in {"absent", "downloading"}
      /\ UNCHANGED <<session, known, answer, settled, moved>>
  BY DEF Configure, TorrentType
<1>2. answer.kind = "none" BY <1>1 DEF QbtInv, CallsFit
<1>3. /\ NoCall \in CallType /\ NoCall.at = "idle" /\ NoCall.name = "none"
  <2>1. 0 \in 0..(LoadTries - 1) BY QbtAssumption
  <2> QED BY <2>1 DEF NoCall, CallType
<1>4. QbtTypes' BY <1>1, <1>3, QbtAssumption DEF QbtInv, QbtTypes
<1>5. CallsFit' /\ RestsInPlace' BY <1>1, <1>2, <1>3 DEF CallsFit, RestsInPlace
<1>6. CompleteStays' /\ PlaceTold' /\ ThereUnlessGone' /\ LoginsCounted'
  BY <1>1, <1>2, <1>3
     DEF CompleteStays, SeenComplete, PlaceTold, ThereUnlessGone, LoginsCounted
<1>7. AnswersAreTrue'
  BY <1>1, <1>2
     DEF AnswersAreTrue, CompleteIsInPlace, NotFoundOnlyIfFiltered, AuthErrorOnlyAfterTwo,
         StrayOnlyUnknown, RemovedIsGone
<1> QED BY <1>4, <1>5, <1>6, <1>7 DEF QbtInv

\* Every call may begin.
LEMMA QbtBegins ==
  ASSUME QbtInv, BeginFind \/ BeginAdd \/ BeginStatus \/ BeginPath \/ BeginRemove
  PROVE  QbtInv'
<1>1. CASE BeginFind BY <1>1, CallBegins DEF BeginFind
<1>2. CASE BeginAdd BY <1>2, CallBegins DEF BeginAdd
<1>3. CASE BeginStatus BY <1>3, CallBegins DEF BeginStatus
<1>4. CASE BeginPath BY <1>4, CallBegins DEF BeginPath
<1>5. CASE BeginRemove BY <1>5, CallBegins DEF BeginRemove
<1> QED BY <1>1, <1>2, <1>3, <1>4, <1>5

\* A hash was extracted, or none.
LEMMA QbtExtract == ASSUME QbtInv, Extract PROVE QbtInv'
<1> USE DEF QbtInv, QbtTypes
<1>1. /\ call.at = "extract" /\ UNCHANGED <<qset, torrent, known, settled, moved, session>>
      /\ call.name \in {"find", "add"} /\ call.ask = "none" /\ answer.kind = "none"
      /\ call.gone \/ Loaded
  BY DEF Extract, QbtSame, CallsFit, ThereUnlessGone
<1>2. ASSUME NEW hash \in BOOLEAN, call' = [call EXCEPT !.at = "send", !.hash = hash],
             call.name = "add", UNCHANGED answer
      PROVE  QbtInv'
  <2>1. /\ call' \in CallType /\ call'.at = "send" /\ call'.name = "add"
        /\ call'.ask = "none" /\ call'.gone = call.gone
    BY <1>1, <1>2 DEF CallType
  <2>2. CallsFit' /\ RestsInPlace' BY <1>1, <1>2, <2>1 DEF CallsFit, RestsInPlace
  <2>3. CompleteStays' /\ PlaceTold'
    BY <1>1, <1>2, <2>1 DEF CompleteStays, SeenComplete, PlaceTold
  <2>4. ThereUnlessGone' /\ LoginsCounted'
    BY <1>1, <2>1 DEF ThereUnlessGone, LoginsCounted, Loaded
  <2>5. AnswersAreTrue'
    BY <2>1 DEF AnswersAreTrue, CompleteIsInPlace, NotFoundOnlyIfFiltered,
                AuthErrorOnlyAfterTwo, StrayOnlyUnknown, RemovedIsGone
  <2> QED BY <1>1, <1>2, <2>1, <2>2, <2>3, <2>4, <2>5
<1>3. ASSUME Asks("filter"), call.name = "find" PROVE QbtInv'
  <2>1. call' = Asking("filter") /\ UNCHANGED answer BY <1>3 DEF Asks
  <2>2. /\ call' \in CallType /\ SameCall /\ call'.at = "login" /\ call'.ask = "filter"
        /\ call'.retried = FALSE /\ call'.expired = 0
    BY <2>1, AskingEffect DEF Asked
  <2>3. call'.name = "find" /\ (call'.gone \/ Loaded')
    BY <1>1, <1>3, <2>2 DEF SameCall, Loaded
  <2> QED BY <1>1, <2>1, <2>2, <2>3, AskKeeps
<1>4. ASSUME Ends("nothing", "none"), call.name = "find" PROVE QbtInv'
  <2>1. call' = [call EXCEPT !.at = "idle"] /\ answer' = [kind |-> "nothing", path |-> "none"]
    BY <1>4 DEF Ends
  <2>2. call.failed \in BOOLEAN BY DEF CallType
  <2>3. call' \in CallType /\ call'.at = "idle" /\ call'.name = "find"
    BY <1>4, <2>1, <2>2, EndsEffect
  <2>4. answer' \in AnswerType /\ answer'.kind = "nothing" BY <2>1 DEF AnswerType
  <2> QED BY <1>1, <2>3, <2>4, EndKeeps
<1> QED BY <1>1, <1>2, <1>3, <1>4 DEF Extract

\* The client took the torrent or not, and the answer came or not.
LEMMA QbtSendAdd == ASSUME QbtInv, SendAdd PROVE QbtInv'
<1> USE DEF QbtInv, QbtTypes
<1>1. /\ call.at = "send" /\ call.name = "add" /\ UNCHANGED <<qset, known, settled, moved, session>>
      /\ call.ask = "none" /\ answer.kind = "none"
      /\ call.gone \/ Loaded
  BY DEF SendAdd, CallsFit, ThereUnlessGone
<1>2. PICK taken \in BOOLEAN, reply \in {"ok", "fails", "lost"} :
        /\ reply = "fails" => ~taken
        /\ torrent' = IF taken /\ torrent.state = "absent"
                      THEN [torrent EXCEPT !.state = "added"] ELSE torrent
        /\ IF reply = "lost" \/ ~call.hash \/ reply = "fails"
           THEN /\ call' = [call EXCEPT !.at = "idle", !.failed = reply # "ok"]
                /\ answer' = [kind |-> "raised", path |-> "none"]
           ELSE Asks("loaded")
  BY DEF SendAdd
<1>3. /\ torrent' \in TorrentType
      /\ torrent'.state = "seeding" => UNCHANGED torrent
      /\ Loaded => Loaded'
  BY <1>2 DEF TorrentType, Loaded
<1>4. CASE reply = "lost" \/ ~call.hash \/ reply = "fails"
  <2> DEFINE failed == reply # "ok"
  <2>1. failed \in BOOLEAN OBVIOUS
  <2>2. call' = [call EXCEPT !.at = "idle", !.failed = failed] BY <1>2, <1>4
  <2>3. failed \/ ~call.hash BY <1>4
  <2> HIDE DEF failed
  <2>4. /\ call' \in CallType /\ call'.at = "idle" /\ call'.failed = failed
        /\ call'.name = call.name /\ call'.hash = call.hash
    BY <2>1, <2>2, EndsEffect
  <2>5. answer' \in AnswerType /\ answer'.kind = "raised" BY <1>2, <1>4 DEF AnswerType
  <2> QED BY <1>1, <1>3, <2>3, <2>4, <2>5, EndKeeps
<1>5. CASE Asks("loaded")
  <2>1. call' = Asking("loaded") /\ UNCHANGED answer BY <1>5 DEF Asks
  <2>2. /\ call' \in CallType /\ SameCall /\ call'.at = "login" /\ call'.ask = "loaded"
        /\ call'.retried = FALSE /\ call'.expired = 0
    BY <2>1, AskingEffect DEF Asked
  <2>3. call'.name = "add" /\ (call'.gone \/ Loaded') BY <1>1, <1>3, <2>2 DEF SameCall
  <2>4. known' \in {"none", "release", "client"} /\ answer' \in AnswerType /\ answer'.kind = "none"
    BY <1>1, <2>1
  <2> QED BY <1>1, <1>3, <2>2, <2>3, <2>4, AskKeeps
<1> QED BY <1>2, <1>4, <1>5

\* What is reported as removed is gone, if the client knows the hash.
LEMMA QbtSendRemove == ASSUME QbtInv, SendRemove PROVE QbtInv'
<1> USE DEF QbtInv, QbtTypes
<1>1. /\ call.at = "send" /\ call.name = "remove" /\ UNCHANGED <<qset, session, known, settled, moved>>
      /\ known # "none"
      /\ call.gone \/ Loaded
  BY DEF SendRemove, CallsFit, ThereUnlessGone
<1>2. PICK taken \in BOOLEAN, lost \in BOOLEAN :
        /\ ~lost => taken
        /\ torrent' = IF HasHash /\ Loaded /\ taken
                      THEN [state |-> "absent", place |-> "temp"] ELSE torrent
        /\ Ends(IF lost THEN "error" ELSE "removed", "none")
  BY DEF SendRemove
<1>3. torrent' \in TorrentType /\ (torrent'.state = "seeding" => UNCHANGED torrent)
  BY <1>2 DEF TorrentType
<1>4. ~lost => torrent'.state = "absent" \/ call.gone \/ ~HasHash
  BY <1>1, <1>2
<1>5. /\ call' = [call EXCEPT !.at = "idle"]
      /\ answer' = [kind |-> IF lost THEN "error" ELSE "removed", path |-> "none"]
  BY <1>2 DEF Ends
<1>6. call.failed \in BOOLEAN BY DEF CallType
<1>7. call' \in CallType /\ call'.at = "idle" /\ call'.name = "remove" /\ call'.gone = call.gone
  BY <1>1, <1>5, <1>6, EndsEffect
<1>8. /\ answer' \in AnswerType /\ answer'.kind \in {"error", "removed"}
      /\ answer'.kind = "removed" => ~lost
  BY <1>5 DEF AnswerType
<1>9. HasHash' <=> HasHash BY <1>1 DEF HasHash
<1>10. known' \in {"none", "release", "client"} /\ call.name # "setup" BY <1>1
<1>11. answer'.kind = "removed" => torrent'.state = "absent" \/ call'.gone \/ ~HasHash'
  BY <1>4, <1>7, <1>8, <1>9
<1> QED BY <1>1, <1>3, <1>7, <1>8, <1>10, <1>11, EndKeeps

-----------------------------------------------------------------------------
(***************************************************************************)
(* The requests.                                                           *)
(***************************************************************************)
Busy == call.at \in {"login", "get"}

\* What the invariant says of a call that has a request to make.
LEMMA BusyFacts ==
  ASSUME QbtInv, Busy
  PROVE  /\ call.name \in {"find", "add", "status", "path"} /\ call.ask # "none"
         /\ call.ask = "loaded" <=> call.name = "add"
         /\ call.ask \in {"props", "files"} =>
              call.name \in {"status", "path"} /\ ~qset.content /\ Rested
         /\ call.name = "path" => Rested
         /\ call.name \in {"status", "path"} => known # "none"
         /\ call.ask = "files" => Told(answer.path)
         /\ call.gone \/ Loaded
         /\ call.ask \in {"category", "all"} => call.gone \/ ~HasHash
         /\ answer.kind = "none"
<1> USE DEF QbtInv, Busy
<1>1. /\ call.name \in {"find", "add", "status", "path"} /\ call.ask # "none"
      /\ call.ask = "loaded" <=> call.name = "add"
      /\ call.ask \in {"props", "files"} => call.name \in {"status", "path"} /\ ~qset.content
      /\ call.name \in {"status", "path"} => known # "none"
      /\ answer.kind = "none"
  BY DEF CallsFit
<1>2. /\ call.ask \in {"props", "files"} => Rested
      /\ call.name = "path" => Rested
  BY DEF CompleteStays, SeenComplete, Rested
<1>3. call.ask = "files" => Told(answer.path)
  BY DEF PlaceTold, Told
<1>4. /\ call.gone \/ Loaded
      /\ call.ask \in {"category", "all"} => call.gone \/ ~HasHash
  BY DEF ThereUnlessGone
<1> QED BY <1>1, <1>2, <1>3, <1>4

\* A call that ends with an answer that says nothing of the torrent.
LEMMA PlainEnd ==
  ASSUME QbtInv, Busy, UNCHANGED <<qset, torrent, settled, moved, session>>,
         NEW kind \in {"error", "nothing", "running", "added"},
         known' \in {"none", "release", "client"}, known # "none" => known' # "none",
         NEW failed \in BOOLEAN,
         \/ call' = [call EXCEPT !.at = "idle"] /\ failed = call.failed
         \/ call' = [call EXCEPT !.at = "idle", !.failed = failed],
         answer' = [kind |-> kind, path |-> "none"]
  PROVE  QbtInv'
<1>1. /\ call' \in CallType /\ call'.at = "idle" /\ call'.name = call.name
  BY EndsEffect DEF QbtInv, QbtTypes
<1>2. answer' \in AnswerType /\ answer'.kind = kind BY DEF AnswerType
<1>3. call.name # "setup" /\ call.name # "remove" BY BusyFacts
<1>4. call.name \in {"status", "path"} => known # "none" BY BusyFacts
<1>5. torrent \in TorrentType BY DEF QbtInv, QbtTypes
<1> QED BY <1>1, <1>2, <1>3, <1>4, <1>5, EndKeeps

\* The added torrent is looked for again, or taken to be there.
LEMMA AddsKeeps ==
  ASSUME QbtInv, Busy, call.ask = "loaded", NEW tries \in Nat, Adds(tries),
         UNCHANGED <<qset, torrent, settled, moved, session>>
  PROVE  QbtInv'
<1>1. call.name = "add" BY BusyFacts
<1>2. CASE tries < LoadTries
  <2>1. AsksAgain(tries) /\ UNCHANGED known BY <1>2 DEF Adds
  <2>2. tries \in 0..(LoadTries - 1) BY <1>2, QbtAssumption
  <2>3. /\ call' \in CallType /\ UNCHANGED answer
        /\ call'.name = call.name /\ call'.gone = call.gone
        /\ call'.at = "login" /\ call'.ask = "loaded"
        /\ call'.retried = FALSE /\ call'.expired = 0
    BY <2>1, <2>2, AsksAgainEffect DEF QbtInv, QbtTypes
  <2>4. (call.gone \/ Loaded) /\ answer.kind = "none" BY BusyFacts
  <2>5. /\ known \in {"none", "release", "client"} /\ answer \in AnswerType
        /\ torrent \in TorrentType
    BY DEF QbtInv, QbtTypes
  <2>6. call'.gone \/ Loaded' BY <2>3, <2>4 DEF Loaded
  <2> QED BY <1>1, <2>1, <2>3, <2>4, <2>5, <2>6, AskKeeps
<1>3. CASE ~(tries < LoadTries)
  <2>1. /\ call' = [call EXCEPT !.at = "idle"] /\ answer' = [kind |-> "added", path |-> "none"]
        /\ known' = "release"
    BY <1>3 DEF Adds, Ends
  <2>2. call.failed \in BOOLEAN BY DEF QbtInv, QbtTypes, CallType
  <2> QED BY <2>1, <2>2, PlainEnd
<1> QED BY <1>2, <1>3

\* A request without a usable answer; a refused login only after two expiries.
LEMMA UnansweredKeeps ==
  ASSUME QbtInv, Busy, NEW kind \in {"error", "auth"}, kind = "auth" => call.expired = 2,
         Unanswered(kind), UNCHANGED <<qset, torrent, settled, moved, session>>
  PROVE  QbtInv'
<1>1. call.tries + 1 \in Nat BY DEF QbtInv, QbtTypes, CallType
<1>2. CASE call.ask = "loaded"
  BY <1>1, <1>2, AddsKeeps DEF Unanswered
<1>3. CASE call.ask # "loaded"
  <2>1. /\ call' = [call EXCEPT !.at = "idle", !.failed = TRUE] /\ answer' = ErrorOf(kind)
        /\ UNCHANGED known
    BY <1>3 DEF Unanswered, EndsWithout
  <2>2. TRUE \in BOOLEAN OBVIOUS
  <2>3. /\ call' \in CallType /\ call'.at = "idle" /\ call'.failed = TRUE
        /\ call'.name = call.name /\ call'.expired = call.expired
    BY <2>1, <2>2, EndsEffect DEF QbtInv, QbtTypes
  <2>4. /\ answer' \in AnswerType
        /\ \/ /\ call.ask \in {"props", "files"}
              /\ answer'.kind = "complete" /\ answer'.path = "guess"
           \/ answer'.kind = "nothing"
           \/ answer'.kind = kind
    BY <2>1 DEF ErrorOf, AnswerType
  <2>5. /\ call.name \in {"find", "add", "status", "path"}
        /\ call.ask \in {"props", "files"} => ~qset.content /\ Rested
        /\ call.name \in {"status", "path"} => known # "none"
    BY BusyFacts
  <2>6. Rested => Rested' BY DEF Rested
  <2>7. /\ known \in {"none", "release", "client"} /\ torrent \in TorrentType
    BY DEF QbtInv, QbtTypes
  <2> QED BY <2>1, <2>3, <2>4, <2>5, <2>6, <2>7, EndKeeps
<1> QED BY <1>2, <1>3

\* The path of a torrent that was seen at rest, unless it left: where the client says
\* it is, or what the properties will tell.
LEMMA ResolvePathKeeps ==
  ASSUME QbtInv, Busy, call.name \in {"status", "path"}, Rested, Loaded, ResolvePath,
         UNCHANGED <<qset, torrent, known, settled, moved, session>>
  PROVE  QbtInv'
<1>1. /\ known \in {"none", "release", "client"} /\ torrent \in TorrentType
      /\ call \in CallType
  BY DEF QbtInv, QbtTypes
<1>2. known # "none" BY BusyFacts
<1>3. Rested' BY DEF Rested
<1>4. CASE qset.content
  <2>1. /\ call' = [call EXCEPT !.at = "idle"]
        /\ answer' = [kind |-> "complete", path |-> torrent.place]
    BY <1>4 DEF ResolvePath, Ends
  <2>2. call.failed \in BOOLEAN BY <1>1 DEF CallType
  <2>3. call' \in CallType /\ call'.at = "idle" /\ call'.name = call.name
    BY <1>1, <2>1, <2>2, EndsEffect
  <2>4. torrent.place \in {"final", "elsewhere"} /\ (torrent.place \in settled \/ moved)
    BY <1>1 DEF Rested, Loaded, QbtInv, RestsInPlace, TorrentType
  <2>5. answer' \in AnswerType /\ answer'.kind = "complete" /\ answer'.path = torrent.place
    BY <2>1, <2>4 DEF AnswerType
  <2> QED BY <1>1, <1>2, <1>3, <2>3, <2>4, <2>5, EndKeeps
<1>5. CASE ~qset.content
  <2>1. call' = Asking("props") /\ UNCHANGED answer BY <1>5 DEF ResolvePath, Asks
  <2>2. /\ call' \in CallType /\ SameCall /\ call'.at = "login" /\ call'.ask = "props"
        /\ call'.retried = FALSE /\ call'.expired = 0
    BY <1>1, <2>1, AskingEffect DEF Asked
  <2>3. call'.name \in {"status", "path"} BY <2>2 DEF SameCall
  <2>4. answer \in AnswerType /\ answer.kind = "none" BY BusyFacts DEF QbtInv, QbtTypes
  <2>5. Loaded' BY DEF Loaded
  <2> QED BY <1>1, <1>2, <1>3, <1>5, <2>1, <2>2, <2>3, <2>4, <2>5, AskKeeps
<1> QED BY <1>4, <1>5

\* The torrent is in the list: by its hash, the client's or the release's.
LEMMA SeenKeeps ==
  ASSUME QbtInv, Busy, call.ask \in {"filter", "category", "all"}, Loaded, Seen,
         UNCHANGED <<qset, torrent, settled, moved, session>>
  PROVE  QbtInv'
<1>1. /\ known \in {"none", "release", "client"} /\ torrent \in TorrentType
      /\ call \in CallType /\ answer \in AnswerType
  BY DEF QbtInv, QbtTypes
<1>2. /\ call.name \in {"find", "status", "path"} /\ answer.kind = "none"
      /\ call.name = "path" => Rested
  BY BusyFacts
<1>3. CASE call.name = "find"
  <2>1. /\ known' = "client" /\ UNCHANGED answer
        /\ call' = [Asking("filter") EXCEPT !.name = "status", !.gone = FALSE]
    BY <1>3 DEF Seen
  <2>2. call' = [call EXCEPT !.at = "login", !.ask = "filter", !.retried = FALSE,
                             !.expired = 0, !.name = "status", !.gone = FALSE]
    BY <1>1, <2>1 DEF Asking, CallType
  <2>3. call' \in CallType
    <3>1. 0 \in 0..2 /\ FALSE \in BOOLEAN OBVIOUS
    <3> QED BY <1>1, <2>2, <3>1 DEF CallType
  <2>4. /\ call'.at = "login" /\ call'.ask = "filter" /\ call'.name = "status"
        /\ call'.retried = FALSE /\ call'.expired = 0
    BY <1>1, <2>2 DEF CallType
  <2>5. Loaded' BY DEF Loaded
  <2> QED BY <1>1, <1>2, <2>1, <2>3, <2>4, <2>5, AskKeeps
<1>4. CASE call.name = "path"
  BY <1>2, <1>4, ResolvePathKeeps DEF Seen
<1>5. CASE call.name = "status"
  <2>1. CASE Complete
    <3>1. ResolvePath /\ UNCHANGED known BY <1>5, <2>1 DEF Seen
    <3>2. Rested BY <2>1 DEF Complete, Rested
    <3> QED BY <1>5, <3>1, <3>2, ResolvePathKeeps
  <2>2. CASE ~Complete
    <3>1. /\ call' = [call EXCEPT !.at = "idle"] /\ UNCHANGED known
          /\ answer' = [kind |-> "running", path |-> "none"]
      BY <1>5, <2>2 DEF Seen, Ends
    <3>2. call.failed \in BOOLEAN BY <1>1 DEF CallType
    <3> QED BY <1>1, <3>1, <3>2, PlainEnd
  <2> QED BY <2>1, <2>2
<1> QED BY <1>2, <1>3, <1>4, <1>5

\* The list that came: with the torrent, without it, or empty.
LEMMA ListsKeeps ==
  ASSUME QbtInv, Busy, Lists, UNCHANGED <<qset, torrent, settled, moved, session>>
  PROVE  QbtInv'
<1>1. call.ask \in {"filter", "category", "all"} BY DEF Lists
<1>2. /\ known \in {"none", "release", "client"} /\ torrent \in TorrentType
      /\ call \in CallType /\ answer \in AnswerType
  BY DEF QbtInv, QbtTypes
<1>3. /\ call.name \in {"find", "status", "path"} /\ answer.kind = "none"
      /\ call.name = "path" => Rested
      /\ call.name \in {"status", "path"} => known # "none"
      /\ call.gone \/ Loaded
      /\ call.ask \in {"category", "all"} => call.gone \/ ~HasHash
  BY <1>1, BusyFacts
<1>4. CASE Listed(call.ask)
  BY <1>1, <1>4, SeenKeeps DEF Lists, Listed
<1>5. CASE ~Listed(call.ask) /\ (Nonempty(call.ask) \/ AfterEmpty(call.ask) = "none")
  <2> DEFINE kind == IF call.name = "status" THEN "notfound" ELSE "nothing"
  <2>1. /\ call' = [call EXCEPT !.at = "idle"] /\ UNCHANGED known
        /\ answer' = [kind |-> kind, path |-> "none"]
    BY <1>5 DEF Lists, Ends
  <2>2. call.failed \in BOOLEAN BY <1>2 DEF CallType
  <2>3. call' \in CallType /\ call'.at = "idle" /\ call'.name = call.name /\ call'.gone = call.gone
    BY <1>2, <2>1, <2>2, EndsEffect
  <2>4. /\ answer' \in AnswerType /\ answer'.kind \in {"notfound", "nothing"}
    BY <2>1 DEF AnswerType
  <2>5. call.gone \/ (~HasHash /\ qset.own /\ qset.others)
    <3>1. CASE call.ask = "filter"
      BY <1>5, <3>1 DEF Nonempty, AfterEmpty
    <3>2. CASE call.ask = "category"
      BY <1>3, <1>5, <3>2 DEF Nonempty, AfterEmpty, Listed
    <3>3. CASE call.ask = "all"
      BY <1>3, <1>5, <3>3 DEF Listed
    <3> QED BY <1>1, <3>1, <3>2, <3>3
  <2>6. HasHash' <=> HasHash BY <2>1 DEF HasHash
  <2>7. answer'.kind = "notfound" => call'.gone \/ (~HasHash' /\ qset.own /\ qset.others)
    BY <2>3, <2>5, <2>6
  <2> HIDE DEF kind
  <2> QED BY <1>2, <1>3, <2>1, <2>3, <2>4, <2>7, EndKeeps
<1>6. CASE ~Listed(call.ask) /\ ~(Nonempty(call.ask) \/ AfterEmpty(call.ask) = "none")
  <2> DEFINE ask == AfterEmpty(call.ask)
  <2>1. call' = Asking(ask) /\ UNCHANGED <<known, answer>> BY <1>6 DEF Lists, Asks
  <2>2. ask \in {"category", "all"} BY <1>1, <1>6 DEF AfterEmpty
  <2>3. call.gone \/ ~HasHash
    <3>1. CASE call.ask = "filter"
      BY <1>3, <1>6, <3>1 DEF Listed
    <3>2. CASE call.ask # "filter"
      BY <1>1, <1>3, <3>2
    <3> QED BY <3>1, <3>2
  <2> HIDE DEF ask
  <2>4. /\ call' \in CallType /\ SameCall /\ call'.at = "login" /\ call'.ask = ask
        /\ call'.retried = FALSE /\ call'.expired = 0
    BY <1>2, <2>1, <2>2, AskingEffect DEF Asked
  <2>5. call'.name = call.name /\ call'.gone = call.gone BY <2>4 DEF SameCall
  <2>6. (HasHash' <=> HasHash) /\ (Loaded' <=> Loaded) BY <2>1 DEF HasHash, Loaded
  <2>7. call'.name = "path" => Rested' BY <1>3, <2>5 DEF Rested
  <2>8. call'.gone \/ Loaded' BY <1>3, <2>5, <2>6
  <2>9. call'.gone \/ ~HasHash' BY <2>3, <2>5, <2>6
  <2> QED BY <1>2, <1>3, <2>1, <2>2, <2>4, <2>5, <2>7, <2>8, <2>9, AskKeeps
<1> QED BY <1>4, <1>5, <1>6

\* The added torrent is loaded, or is looked for again.
LEMMA LooksKeeps ==
  ASSUME QbtInv, Busy, Looks, UNCHANGED <<qset, torrent, settled, moved, session>>
  PROVE  QbtInv'
<1>1. call.ask = "loaded" BY DEF Looks
<1>2. call.tries + 1 \in Nat /\ call.failed \in BOOLEAN
  BY DEF QbtInv, QbtTypes, CallType
<1>3. CASE Loaded /\ ~qset.padded
  <2>1. /\ call' = [call EXCEPT !.at = "idle"] /\ answer' = [kind |-> "added", path |-> "none"]
        /\ known' = "release"
    BY <1>3 DEF Looks, Ends
  <2> QED BY <1>2, <2>1, PlainEnd
<1>4. CASE ~(Loaded /\ ~qset.padded)
  BY <1>1, <1>2, <1>4, AddsKeeps DEF Looks
<1> QED BY <1>3, <1>4

\* The path is derived from the properties and the files.
LEMMA DerivesKeeps ==
  ASSUME QbtInv, Busy, Derives, UNCHANGED <<qset, torrent, settled, moved, session>>
  PROVE  QbtInv'
<1>1. call.ask \in {"props", "files"} /\ UNCHANGED known BY DEF Derives
<1>2. /\ known \in {"none", "release", "client"} /\ torrent \in TorrentType
      /\ call \in CallType /\ answer \in AnswerType
  BY DEF QbtInv, QbtTypes
<1>3. /\ call.name \in {"status", "path"} /\ ~qset.content /\ Rested /\ known # "none"
      /\ call.gone \/ Loaded
      /\ call.ask = "files" => Told(answer.path)
  BY <1>1, BusyFacts
<1>4. Rested' BY <1>3 DEF Rested
<1>5. ASSUME NEW path \in {"final", "elsewhere", "guess"}, Ends("complete", path),
             \/ path \in settled \/ moved
             \/ path = "guess" /\ call.gone
      PROVE  QbtInv'
  <2>1. /\ call' = [call EXCEPT !.at = "idle"]
        /\ answer' = [kind |-> "complete", path |-> path]
    BY <1>5 DEF Ends
  <2>2. call.failed \in BOOLEAN BY <1>2 DEF CallType
  <2>3. call' \in CallType /\ call'.at = "idle" /\ call'.name = call.name /\ call'.gone = call.gone
    BY <1>2, <2>1, <2>2, EndsEffect
  <2>4. answer' \in AnswerType /\ answer'.kind = "complete" /\ answer'.path = path
    BY <2>1 DEF AnswerType
  <2> QED BY <1>1, <1>2, <1>3, <1>4, <1>5, <2>3, <2>4, EndKeeps
<1>6. CASE ~Loaded
  BY <1>3, <1>5, <1>6 DEF Derives
<1>7. CASE Loaded /\ call.ask = "files"
  BY <1>3, <1>5, <1>7 DEF Derives, Told
<1>8. CASE Loaded /\ call.ask = "props"
  <2> DEFINE path == IF torrent.state = "moving" THEN MoveTarget ELSE torrent.place
  <2>1. call' = Asking("files") /\ answer' = [kind |-> "none", path |-> path]
    BY <1>8 DEF Derives
  <2>2. Told(path)
    <3>1. torrent.state = "seeding" => torrent.place \in settled /\ torrent.place # "temp"
      BY DEF QbtInv, RestsInPlace
    <3> QED BY <1>2, <1>3, <1>8, <3>1 DEF Told, Rested, Loaded, MoveTarget, TorrentType
  <2> HIDE DEF path
  <2>3. /\ call' \in CallType /\ SameCall /\ call'.at = "login" /\ call'.ask = "files"
        /\ call'.retried = FALSE /\ call'.expired = 0
    BY <1>2, <2>1, AskingEffect DEF Asked
  <2>4. call'.name \in {"status", "path"} BY <1>3, <2>3 DEF SameCall
  <2>5. answer' \in AnswerType /\ answer'.kind = "none" /\ answer'.path = path
    BY <2>1, <2>2 DEF AnswerType, Told
  <2>6. Loaded' BY <1>8 DEF Loaded
  <2> QED BY <1>1, <1>2, <1>3, <1>4, <2>2, <2>3, <2>4, <2>5, <2>6, AskKeeps
<1> QED BY <1>1, <1>6, <1>7, <1>8

\* A login is sent, a request is lost or refused, or answered.
LEMMA QbtRequests ==
  ASSUME QbtInv, LogIn \/ Lose \/ Refused \/ Answered
  PROVE  QbtInv'
<1>1. Busy /\ UNCHANGED <<qset, torrent, settled, moved>>
  BY DEF LogIn, Lose, Refused, Answered, Requesting, Busy
<1>2. call \in CallType /\ session \in BOOLEAN /\ CallsFit /\ LoginsCounted
  BY DEF QbtInv, QbtTypes
<1>3. CASE LogIn
  <2>1. /\ session' = TRUE /\ call' = [call EXCEPT !.at = "get"] /\ call.at = "login"
        /\ UNCHANGED <<answer, known>>
    BY <1>3 DEF LogIn
  <2>2. /\ call' \in CallType /\ SameCall /\ call'.ask = call.ask /\ call'.at = "get"
        /\ call'.expired = call.expired /\ call'.retried = call.retried
    BY <1>2, <2>1 DEF CallType, SameCall
  <2>3. CallsFit' BY <1>1, <1>2, <2>1, <2>2 DEF CallsFit, SameCall
  <2>4. LoginsCounted'
    <3>1. call.expired >= 0 BY <1>2 DEF CallType
    <3> QED BY <1>2, <2>1, <2>2, <3>1 DEF LoginsCounted
  <2>5. call.at # "idle" /\ call'.at # "idle" BY <2>1, <2>2
  <2> QED BY <1>1, <2>1, <2>2, <2>3, <2>4, <2>5, MovesKeeps
<1>4. CASE Lose
  BY <1>1, <1>4, UnansweredKeeps DEF Lose
<1>5. CASE Refused /\ call.retried
  <2>1. call.expired = 2
    BY <1>2, <1>5 DEF LoginsCounted, Refused, CallType
  <2> QED BY <1>1, <1>5, <2>1, UnansweredKeeps DEF Refused
<1>6. CASE Refused /\ ~call.retried
  <2>1. /\ call' = [call EXCEPT !.at = "login", !.retried = TRUE] /\ call.at = "get"
        /\ ~session /\ UNCHANGED <<answer, known, session>>
    BY <1>6 DEF Refused
  <2>2. call' \in CallType
    <3>1. TRUE \in BOOLEAN OBVIOUS
    <3> QED BY <1>2, <2>1, <3>1 DEF CallType
  <2>3. /\ SameCall /\ call'.ask = call.ask /\ call'.at = "login"
        /\ call'.expired = call.expired
    BY <1>2, <2>1 DEF CallType, SameCall
  <2>4. CallsFit' BY <1>1, <1>2, <2>1, <2>3 DEF CallsFit, SameCall
  <2>5. LoginsCounted'
    <3>1. call.expired >= 1 BY <1>2, <1>6, <2>1 DEF LoginsCounted, CallType
    <3> QED BY <2>3, <3>1 DEF LoginsCounted
  <2>6. call.at # "idle" /\ call'.at # "idle" BY <2>1, <2>3
  <2> QED BY <1>1, <1>2, <2>1, <2>2, <2>3, <2>4, <2>5, <2>6, MovesKeeps
<1>7. CASE Answered
  BY <1>1, <1>7, ListsKeeps, LooksKeeps, DerivesKeeps DEF Answered
<1> QED BY <1>3, <1>4, <1>5, <1>6, <1>7

-----------------------------------------------------------------------------
(***************************************************************************)
(* The theorems.                                                           *)
(***************************************************************************)
\* Initially the client is not configured.
LEMMA QbtInvInit == QbtInit => QbtInv
<1> SUFFICES ASSUME QbtInit PROVE QbtInv
  OBVIOUS
<1>1. /\ call.name = "setup" /\ call.at = "idle" /\ call \in CallType
  <2>1. 0 \in 0..(LoadTries - 1) /\ 0 \in 0..2 /\ FALSE \in BOOLEAN BY QbtAssumption
  <2>2. NoCall \in CallType BY <2>1 DEF NoCall, CallType
  <2>3. call \in CallType /\ call.name = "setup" BY <2>2 DEF QbtInit, CallType
  <2>4. call.at = "idle" BY DEF QbtInit, NoCall
  <2> QED BY <2>3, <2>4
<1>2. /\ torrent.state = "absent" /\ torrent \in TorrentType
      /\ answer.kind = "none" /\ answer \in AnswerType
  BY DEF QbtInit, TorrentType, Nothing, AnswerType
<1>3. QbtTypes BY <1>1, <1>2 DEF QbtInit, NoSetup, QbtTypes
<1>4. CallsFit /\ RestsInPlace BY <1>1, <1>2 DEF CallsFit, RestsInPlace
<1>5. CompleteStays /\ PlaceTold /\ ThereUnlessGone /\ LoginsCounted
  BY <1>1, <1>2 DEF CompleteStays, SeenComplete, PlaceTold, ThereUnlessGone, LoginsCounted
<1>6. AnswersAreTrue
  BY <1>2 DEF AnswersAreTrue, CompleteIsInPlace, NotFoundOnlyIfFiltered,
              AuthErrorOnlyAfterTwo, StrayOnlyUnknown, RemovedIsGone
<1> QED BY <1>3, <1>4, <1>5, <1>6 DEF QbtInv

\* Every step of the client and of the handler keeps the invariant.
LEMMA QbtInvStep == QbtInv /\ [QbtNext]_qbtVars => QbtInv'
<1> SUFFICES ASSUME QbtInv, [QbtNext]_qbtVars PROVE QbtInv'
  OBVIOUS
<1>1. CASE UNCHANGED qbtVars
  <2> USE <1>1 DEF QbtInv, qbtVars
  <2>1. QbtTypes' BY DEF QbtTypes
  <2>2. CallsFit' /\ RestsInPlace' BY DEF CallsFit, RestsInPlace
  <2>3. CompleteStays' /\ PlaceTold' BY DEF CompleteStays, SeenComplete, PlaceTold
  <2>4. ThereUnlessGone' /\ LoginsCounted'
    BY DEF ThereUnlessGone, LoginsCounted, Loaded, HasHash
  <2>5. AnswersAreTrue'
    BY DEF AnswersAreTrue, CompleteIsInPlace, NotFoundOnlyIfFiltered,
           AuthErrorOnlyAfterTwo, StrayOnlyUnknown, RemovedIsGone, HasHash
  <2> QED BY <2>1, <2>2, <2>3, <2>4, <2>5
<1> QED
  BY <1>1, QbtConfigure, QbtTorrentSteps, QbtSessionExpires, QbtBegins, QbtExtract,
     QbtSendAdd, QbtSendRemove, QbtRequests
     DEF QbtNext, QbtStep

\* The inductive invariant holds in every reachable state.
THEOREM QbtInvariant == QbtSpec => []QbtInv
BY QbtInvInit, QbtInvStep, PTL DEF QbtSpec

\* Types.
THEOREM QbtTyped == QbtSpec => []QbtTypeOK
<1>1. ASSUME QbtInv PROVE QbtTypeOK
  BY <1>1 DEF QbtInv, QbtTypes, QbtTypeOK, CallsFit, CallType, TorrentType, AnswerType
<1> QED BY <1>1, QbtInvariant, PTL

\* Whatever the setup, however often the session expires and requests are lost, what
\* the adapter answers is so: where a torrent is, that there is none, that a login is
\* refused, that an addition failed, that a removal is done.
THEOREM QbtAnswersAreTrue == QbtSpec => []AnswersAreTrue
<1>1. QbtInv => AnswersAreTrue BY DEF QbtInv
<1> QED BY <1>1, QbtInvariant, PTL

-----------------------------------------------------------------------------
(* IrcConnections *)

(***************************************************************************)
(* The inductive invariant.  The run that connects is alone, and keeps the *)
(* registry empty until it stores its client: a client of its own, that    *)
(* nobody can close.  A client on its way to be disconnected has left the  *)
(* registry, and a client that somebody holds has been connected.          *)
(***************************************************************************)
Connecting(u) == IrcAt(u, "connect") \/ IrcAt(u, "store")

ConnectsAlone == \A u, v \in IrcRun : Connecting(u) /\ Connecting(v) => u = v

MarkHeld ==
  /\ \A u \in IrcRun : Connecting(u) => connecting /\ registered = NoConn
  /\ connecting => oddError \/ \E u \in IrcRun : Connecting(u)

OwnClient ==
  \A u \in IrcRun :
    IrcAt(u, "store") =>
      /\ Connected(held[u])
      /\ \A v \in IrcRun : held[v] = held[u] => v = u

Leaving == \A u \in IrcRun : IrcAt(u, "disconnect") => held[u] # registered

HeldWasMade == \A u \in IrcRun : held[u] # NoConn => link[held[u]] # "unused"

ClientsSafe ==
  /\ ConnectsAlone /\ MarkHeld /\ OwnClient /\ Leaving /\ HeldWasMade
  /\ RegisteredNotClosed

IrcInv == IrcTypeOK /\ ClientsSafe

-----------------------------------------------------------------------------
(***************************************************************************)
(* Types: what a run that ends does, and then each action.                 *)
(***************************************************************************)
LinkState == {"unused", "open", "broken", "closed"}
WithClient == {"store", "ready", "wait", "transfer", "disconnect"}

\* A run that ends lets go of its client, which is closed only if nobody else
\* holds it and it is not registered.
LEMMA EndRunEffect ==
  ASSUME IrcTypeOK, NEW u \in IrcRun, NEW pc \in IrcEnd, IrcEndRun(u, pc)
  PROVE  /\ ipc' = [ipc EXCEPT ![u] = pc] /\ held' = [held EXCEPT ![u] = NoConn]
         /\ link' \in [IrcConn -> LinkState]
         /\ \A c \in IrcConn :
              \/ link'[c] = link[c]
              \/ /\ link'[c] = "closed" /\ c = held[u] /\ c # registered
                 /\ \A v \in IrcRun \ {u} : held[v] # c
BY DEF IrcTypeOK, IrcEndRun, IrcTo, Collected, LinkState

\* Where the runs are, and with which client, stays typed when one of them ends.
Whereabouts ==
  /\ ipc \in [IrcRun -> {"idle", "get", "connect", "store", "ready", "wait", "transfer",
                         "disconnect"} \cup IrcEnd]
  /\ held \in [IrcRun -> IrcConn \cup {NoConn}]
  /\ \A u \in IrcRun :
       held[u] # NoConn <=> ipc[u] \in {"store", "ready", "wait", "transfer", "disconnect"}
  /\ link \in [IrcConn -> {"unused", "open", "broken", "closed"}]

\* A run that ends leaves every run with a step and a connection that go together.
LEMMA EndRunTyped ==
  ASSUME IrcTypeOK, NEW u \in IrcRun, NEW pc \in IrcEnd, IrcEndRun(u, pc)
  PROVE  Whereabouts'
<1>1. /\ ipc' = [ipc EXCEPT ![u] = pc] /\ held' = [held EXCEPT ![u] = NoConn]
      /\ link' \in [IrcConn -> LinkState]
  BY EndRunEffect
<1> QED BY <1>1 DEF Whereabouts, LinkState, IrcTypeOK, IrcEnd

\* Every action keeps the types.
LEMMA IrcTypeStep == IrcTypeOK /\ [IrcNext]_ircVars => IrcTypeOK'
<1> SUFFICES ASSUME IrcTypeOK, [IrcNext]_ircVars PROVE IrcTypeOK'
  OBVIOUS
<1> USE DEF IrcTypeOK, IrcTo, IrcAt, manager, runState, IrcEnd
<1>1. ASSUME NEW u \in IrcRun, NEW k \in {"search", "download"}, BeginIrc(u, k)
      PROVE  IrcTypeOK'
  BY <1>1 DEF BeginIrc
<1>2. ASSUME NEW u \in IrcRun, CancelIrc(u) PROVE IrcTypeOK'
  BY <1>2 DEF CancelIrc
<1>3. ASSUME NEW u \in IrcRun, Reuse(u) PROVE IrcTypeOK'
  BY <1>3 DEF Reuse
<1>4. ASSUME NEW u \in IrcRun, GetConnection(u) PROVE IrcTypeOK'
  BY <1>4 DEF GetConnection
<1>5. ASSUME NEW u \in IrcRun, WaitTooLong(u) PROVE IrcTypeOK'
  BY <1>5 DEF WaitTooLong
<1>6. ASSUME NEW u \in IrcRun, Connect(u) PROVE IrcTypeOK'
  BY <1>6, IrcAssumption DEF Connect
<1>7. ASSUME NEW u \in IrcRun, Store(u) PROVE IrcTypeOK'
  BY <1>7 DEF Store
<1>8. ASSUME NEW u \in IrcRun, ConnectFails(u) PROVE IrcTypeOK'
  <2>1. Whereabouts' BY <1>8, EndRunTyped DEF ConnectFails
  <2> QED BY <1>8, <2>1 DEF ConnectFails, Whereabouts
<1>9. ASSUME NEW u \in IrcRun, Request(u) PROVE IrcTypeOK'
  BY <1>9 DEF Request, Close
<1>10. ASSUME NEW u \in IrcRun, RequestCancelled(u) PROVE IrcTypeOK'
  BY <1>10 DEF RequestCancelled, Close
<1>11. ASSUME NEW u \in IrcRun, WaitBreaks(u) PROVE IrcTypeOK'
  <2>1. Whereabouts' BY <1>11, EndRunTyped DEF WaitBreaks, NoAnswer
  <2> QED BY <1>11, <2>1 DEF WaitBreaks, NoAnswer, Release, Whereabouts
<1>12. ASSUME NEW u \in IrcRun, Transfer(u) PROVE IrcTypeOK'
  <2>1. ASSUME NEW pc \in IrcEnd, IrcEndRun(u, pc) PROVE Whereabouts'
    BY <2>1, EndRunTyped
  <2>2. CASE \E pc \in IrcEnd : IrcEndRun(u, pc)
    <3>1. Whereabouts' BY <2>1, <2>2
    <3> QED BY <1>12, <3>1 DEF Transfer, Close, Release, Whereabouts
  <2>3. CASE Close(u) /\ UNCHANGED <<aged, link, held, results>>
    BY <1>12, <2>3 DEF Transfer, Close
  <2> QED BY <1>12, <2>2, <2>3 DEF Transfer
<1>13. ASSUME NEW u \in IrcRun, Disconnect(u) PROVE IrcTypeOK'
  BY <1>13 DEF Disconnect
<1>14. ASSUME NEW u \in IrcRun, NEW m \in Message, Read(u, m) PROVE IrcTypeOK'
  <2>1. held[u] \in IrcConn /\ m.about \in IrcRun
    BY <1>14 DEF Read, Message
  <2>2. inbox' \in [IrcConn -> SUBSET Message]
    BY <1>14, <2>1 DEF Read
  <2>3. CASE Takes(u, m) /\ got' = [got EXCEPT ![u] = m.about] /\ IrcTo(u, "transfer")
             /\ UNCHANGED <<aged, link, held, results>>
    BY <1>14, <2>1, <2>2, <2>3 DEF Read
  <2>4. CASE UNCHANGED <<aged, link, held, results, got, ipc>>
    BY <1>14, <2>2, <2>4 DEF Read
  <2>5. CASE NoAnswer(u) /\ UNCHANGED got
    <3>1. Whereabouts' BY <2>5, EndRunTyped DEF NoAnswer
    <3> QED BY <1>14, <2>2, <2>5, <3>1 DEF Read, NoAnswer, Release, Whereabouts
  <2> QED BY <1>14, <2>3, <2>4, <2>5 DEF Read
<1>15. ASSUME NEW u \in IrcRun, NEW c \in IrcConn, NEW what \in {"offer", "sorry"},
              Answer(u, c, what)
       PROVE  IrcTypeOK'
  BY <1>15 DEF Answer, Message
<1>16. ASSUME NEW c \in IrcConn, ServerCloses(c) PROVE IrcTypeOK'
  BY <1>16 DEF ServerCloses
<1>17. ASSUME TimePasses PROVE IrcTypeOK'
  BY <1>17 DEF TimePasses
<1>18. ASSUME CleanupIdle PROVE IrcTypeOK'
  BY <1>18 DEF CleanupIdle
<1>19. CASE UNCHANGED ircVars
  BY <1>19 DEF ircVars
<1> QED
  BY <1>1, <1>2, <1>3, <1>4, <1>5, <1>6, <1>7, <1>8, <1>9, <1>10, <1>11, <1>12, <1>13,
     <1>14, <1>15, <1>16, <1>17, <1>18, <1>19 DEF IrcNext, IrcStep

-----------------------------------------------------------------------------
(***************************************************************************)
(* The clients: first the four ways in which most actions touch them, then *)
(* each action.                                                            *)
(***************************************************************************)
\* A step that touches no connection and moves no run.
LEMMA SafeUnmoved ==
  ASSUME IrcInv, UNCHANGED <<registered, connecting, link, ipc, held, oddError>>
  PROVE  ClientsSafe'
BY DEF IrcInv, ClientsSafe, ConnectsAlone, MarkHeld, OwnClient, Leaving, HeldWasMade,
       RegisteredNotClosed, Connecting, Connected, IrcAt

\* A run that is not connecting goes on with the client it has.
LEMMA SafeGoesOn ==
  ASSUME IrcInv, NEW u \in IrcRun, ~Connecting(u),
         NEW pc \in {"done", "get", "failed", "wait", "transfer"}, IrcTo(u, pc),
         UNCHANGED <<registered, connecting, link, held, oddError>>
  PROVE  ClientsSafe'
<1> USE DEF IrcInv, ClientsSafe, IrcTypeOK, IrcTo, IrcAt, Connecting
<1>1. \A v \in IrcRun : ipc'[v] = IF v = u THEN pc ELSE ipc[v]
  OBVIOUS
<1>2. \A v \in IrcRun : Connecting(v)' <=> Connecting(v)
  BY <1>1
<1>3. ConnectsAlone' BY <1>2 DEF ConnectsAlone
<1>4. MarkHeld' BY <1>2 DEF MarkHeld
<1>5. OwnClient' BY <1>1 DEF OwnClient, Connected
<1>6. Leaving' BY <1>1 DEF Leaving
<1>7. HeldWasMade' BY DEF HeldWasMade
<1>8. RegisteredNotClosed' BY DEF RegisteredNotClosed, Connected
<1> QED BY <1>3, <1>4, <1>5, <1>6, <1>7, <1>8

\* A run ends and lets its client go, registered or not; if it was connecting, its
\* mark goes with it or the error was an odd one.
LEMMA SafeEnds ==
  ASSUME IrcInv, NEW u \in IrcRun, NEW pc \in IrcEnd, IrcEndRun(u, pc), UNCHANGED registered,
         \/ UNCHANGED <<connecting, oddError>> /\ ~Connecting(u)
         \/ connecting' = FALSE /\ UNCHANGED oddError /\ Connecting(u)
         \/ oddError' = TRUE /\ UNCHANGED connecting
  PROVE  ClientsSafe'
<1> USE DEF IrcInv, ClientsSafe
<1>1. /\ ipc' = [ipc EXCEPT ![u] = pc] /\ held' = [held EXCEPT ![u] = NoConn]
      /\ \A c \in IrcConn :
           \/ link'[c] = link[c]
           \/ /\ link'[c] = "closed" /\ c = held[u] /\ c # registered
              /\ \A v \in IrcRun \ {u} : held[v] # c
  BY EndRunEffect
<1>2. \A v \in IrcRun : /\ ipc'[v] = IF v = u THEN pc ELSE ipc[v]
                        /\ held'[v] = IF v = u THEN NoConn ELSE held[v]
  BY <1>1 DEF IrcTypeOK
<1>3. \A v \in IrcRun : Connecting(v)' <=> Connecting(v) /\ v # u
  BY <1>2 DEF Connecting, IrcAt, IrcEnd
<1>4. \A v \in IrcRun \ {u} : held[v] # NoConn => link'[held[v]] = link[held[v]]
  BY <1>1 DEF IrcTypeOK
<1>5. ConnectsAlone' BY <1>3 DEF ConnectsAlone
<1>6. MarkHeld' BY <1>3 DEF MarkHeld, ConnectsAlone
<1>7. OwnClient'
  <2> SUFFICES ASSUME NEW v \in IrcRun, ipc'[v] = "store"
               PROVE  /\ link'[held'[v]] \in {"open", "broken"}
                      /\ \A w \in IrcRun : held'[w] = held'[v] => w = v
    BY DEF OwnClient, IrcAt, Connected
  <2>1. v # u /\ ipc[v] = "store" /\ held'[v] = held[v] BY <1>2 DEF IrcEnd
  <2>2. held[v] # NoConn BY <2>1 DEF IrcTypeOK
  <2> QED BY <1>2, <1>4, <2>1, <2>2 DEF OwnClient, IrcAt, Connected
<1>8. Leaving' BY <1>2 DEF Leaving, IrcAt, IrcEnd
<1>9. HeldWasMade' BY <1>2, <1>4 DEF HeldWasMade
<1>10. RegisteredNotClosed' BY <1>1 DEF RegisteredNotClosed, Connected, IrcTypeOK
<1> QED BY <1>5, <1>6, <1>7, <1>8, <1>9, <1>10

\* A run that is ready or transfers closes: its client leaves the registry.
LEMMA SafeCloses ==
  ASSUME IrcInv, NEW u \in IrcRun, ~Connecting(u), Close(u),
         UNCHANGED <<connecting, link, held, oddError>>, held[u] # NoConn
  PROVE  ClientsSafe'
<1> USE DEF IrcInv, ClientsSafe, IrcTypeOK, IrcTo, IrcAt, Connecting, Close
<1>1. \A v \in IrcRun : ipc'[v] = IF v = u THEN "disconnect" ELSE ipc[v]
  OBVIOUS
<1>2. \A v \in IrcRun : Connecting(v)' <=> Connecting(v)
  BY <1>1
<1>3. ConnectsAlone' BY <1>2 DEF ConnectsAlone
<1>4. MarkHeld' BY <1>2 DEF MarkHeld
<1>5. OwnClient' BY <1>1 DEF OwnClient, Connected
<1>6. Leaving' BY <1>1 DEF Leaving
<1>7. HeldWasMade' BY DEF HeldWasMade
<1>8. RegisteredNotClosed' BY DEF RegisteredNotClosed
<1> QED BY <1>3, <1>4, <1>5, <1>6, <1>7, <1>8

\* Every action keeps the clients safe.
LEMMA IrcInvStep == IrcInv /\ [IrcNext]_ircVars => IrcInv'
<1> SUFFICES ASSUME IrcInv, [IrcNext]_ircVars PROVE ClientsSafe'
  BY IrcTypeStep DEF IrcInv
<1>0. IrcTypeOK /\ IrcTypeOK' BY IrcTypeStep DEF IrcInv
<1> USE DEF IrcTo, IrcAt, Connecting, manager, runState
<1>1. ASSUME NEW u \in IrcRun, NEW k \in {"search", "download"}, BeginIrc(u, k)
      PROVE  ClientsSafe'
  BY <1>1, SafeGoesOn DEF BeginIrc
<1>2. ASSUME NEW u \in IrcRun, CancelIrc(u) PROVE ClientsSafe'
  BY <1>2, SafeUnmoved DEF CancelIrc
<1>3. ASSUME NEW u \in IrcRun, Reuse(u) PROVE ClientsSafe'
  <2> USE <1>3 DEF IrcInv, ClientsSafe, IrcTypeOK
  <2>1. \A v \in IrcRun : /\ ipc'[v] = IF v = u THEN "ready" ELSE ipc[v]
                          /\ held'[v] = IF v = u THEN registered ELSE held[v]
    BY DEF Reuse
  <2>2. \A v \in IrcRun : ~Connecting(v) /\ ~Connecting(v)'
    BY <2>1 DEF MarkHeld, Reuse
  <2>3. ConnectsAlone' /\ OwnClient' BY <2>2 DEF ConnectsAlone, OwnClient
  <2>4. MarkHeld' BY <2>2 DEF MarkHeld, Reuse
  <2>5. Leaving' BY <2>1 DEF Leaving, Reuse
  <2>6. HeldWasMade' BY <2>1 DEF HeldWasMade, Reuse, Connected
  <2>7. RegisteredNotClosed' BY DEF RegisteredNotClosed, Connected, Reuse
  <2> QED BY <2>3, <2>4, <2>5, <2>6, <2>7
<1>4. ASSUME NEW u \in IrcRun, GetConnection(u) PROVE ClientsSafe'
  <2> USE <1>4 DEF IrcInv, ClientsSafe, IrcTypeOK
  <2>1. \A v \in IrcRun : ipc'[v] = IF v = u THEN "connect" ELSE ipc[v]
    BY DEF GetConnection
  <2>2. \A v \in IrcRun : ~Connecting(v) /\ (Connecting(v)' <=> v = u)
    BY <2>1 DEF MarkHeld, GetConnection
  <2>3. ConnectsAlone' BY <2>2 DEF ConnectsAlone
  <2>4. MarkHeld' BY <2>2 DEF MarkHeld, GetConnection
  <2>5. OwnClient' BY <2>1, <2>2 DEF OwnClient
  <2>6. Leaving' BY <2>1 DEF Leaving, GetConnection
  <2>7. HeldWasMade' BY DEF HeldWasMade, GetConnection
  <2>8. RegisteredNotClosed' BY DEF RegisteredNotClosed, GetConnection
  <2> QED BY <2>3, <2>4, <2>5, <2>6, <2>7, <2>8
<1>5. ASSUME NEW u \in IrcRun, WaitTooLong(u) PROVE ClientsSafe'
  BY <1>5, SafeGoesOn DEF WaitTooLong
<1>6. ASSUME NEW u \in IrcRun, Connect(u) PROVE ClientsSafe'
  <2> USE DEF IrcInv, ClientsSafe, IrcTypeOK
  <2>1. PICK c \in IrcConn :
          /\ link[c] = "unused" /\ link' = [link EXCEPT ![c] = "open"]
          /\ held' = [held EXCEPT ![u] = c]
    BY <1>6 DEF Connect
  <2>2. /\ \A v \in IrcRun : /\ ipc'[v] = IF v = u THEN "store" ELSE ipc[v]
                             /\ held'[v] = IF v = u THEN c ELSE held[v]
        /\ UNCHANGED <<registered, connecting, oddError>> /\ Connecting(u)
    BY <1>6, <2>1 DEF Connect
  <2>3. \A v \in IrcRun : Connecting(v)' <=> Connecting(v)
    BY <2>2
  <2>4. \A v \in IrcRun : held[v] # c
    BY <2>1, IrcAssumption DEF HeldWasMade
  <2>5. ConnectsAlone' BY <2>3 DEF ConnectsAlone
  <2>6. MarkHeld' BY <2>2, <2>3 DEF MarkHeld
  <2>7. OwnClient' BY <2>1, <2>2, <2>3, <2>4 DEF OwnClient, ConnectsAlone, Connected
  <2>8. Leaving' BY <2>2 DEF Leaving
  <2>9. HeldWasMade' BY <2>1, <2>2 DEF HeldWasMade
  <2>10. RegisteredNotClosed' BY <2>1, <2>2 DEF RegisteredNotClosed, Connected, MarkHeld
  <2> QED BY <2>5, <2>6, <2>7, <2>8, <2>9, <2>10
<1>7. ASSUME NEW u \in IrcRun, Store(u) PROVE ClientsSafe'
  <2> USE <1>7 DEF IrcInv, ClientsSafe, IrcTypeOK
  <2>1. \A v \in IrcRun : ipc'[v] = IF v = u THEN "ready" ELSE ipc[v]
    BY DEF Store
  <2>2. \A v \in IrcRun : ~Connecting(v)'
    BY <2>1 DEF ConnectsAlone, Store
  <2>3. ConnectsAlone' /\ OwnClient' BY <2>2 DEF ConnectsAlone, OwnClient
  <2>4. MarkHeld' BY <2>2 DEF MarkHeld, Store
  <2>5. Leaving' BY <2>1 DEF Leaving, Store, OwnClient
  <2>6. HeldWasMade' BY DEF HeldWasMade, Store
  <2>7. RegisteredNotClosed' BY DEF RegisteredNotClosed, Connected, Store, OwnClient
  <2> QED BY <2>3, <2>4, <2>5, <2>6, <2>7
<1>8. ASSUME NEW u \in IrcRun, ConnectFails(u) PROVE ClientsSafe'
  BY <1>8, SafeEnds DEF ConnectFails, IrcEnd
<1>9. ASSUME NEW u \in IrcRun, Request(u) PROVE ClientsSafe'
  <2>1. ~Connecting(u) /\ held[u] # NoConn BY <1>0, <1>9 DEF Request, IrcTypeOK
  <2>2. CASE Close(u) BY <1>9, <2>1, <2>2, SafeCloses DEF Request
  <2>3. CASE IrcTo(u, "wait") /\ UNCHANGED registered
    BY <1>9, <2>1, <2>3, SafeGoesOn DEF Request
  <2> QED BY <1>9, <2>2, <2>3 DEF Request
<1>10. ASSUME NEW u \in IrcRun, RequestCancelled(u) PROVE ClientsSafe'
  <2>1. ~Connecting(u) /\ held[u] # NoConn BY <1>0, <1>10 DEF RequestCancelled, IrcTypeOK
  <2> QED BY <1>10, <2>1, SafeCloses DEF RequestCancelled
<1>11. ASSUME NEW u \in IrcRun, WaitBreaks(u) PROVE ClientsSafe'
  <2>1. ~Connecting(u) BY <1>11 DEF WaitBreaks
  <2> QED BY <1>11, <2>1, SafeEnds DEF WaitBreaks, NoAnswer, IrcEnd
<1>12. ASSUME NEW u \in IrcRun, Transfer(u) PROVE ClientsSafe'
  <2>1. ~Connecting(u) /\ held[u] # NoConn BY <1>0, <1>12 DEF Transfer, IrcTypeOK
  <2>2. CASE Close(u) /\ UNCHANGED <<aged, link, held>>
    BY <1>12, <2>1, <2>2, SafeCloses DEF Transfer
  <2>3. CASE (\E pc \in IrcEnd : IrcEndRun(u, pc)) /\ UNCHANGED registered
    BY <1>12, <2>1, <2>3, SafeEnds DEF Transfer
  <2> QED BY <1>12, <2>2, <2>3 DEF Transfer, IrcEnd
<1>13. ASSUME NEW u \in IrcRun, Disconnect(u) PROVE ClientsSafe'
  <2> USE <1>13 DEF IrcInv, ClientsSafe, IrcTypeOK
  <2>1. /\ \A v \in IrcRun : /\ ipc'[v] = IF v = u THEN "failed" ELSE ipc[v]
                             /\ held'[v] = IF v = u THEN NoConn ELSE held[v]
        /\ held[u] \in IrcConn
        /\ \A d \in IrcConn : link'[d] = IF d = held[u] THEN "closed" ELSE link[d]
        /\ UNCHANGED <<registered, connecting, oddError>>
    BY DEF Disconnect
  <2>2. \A v \in IrcRun : Connecting(v)' <=> Connecting(v)
    BY <2>1 DEF Disconnect
  <2>3. ConnectsAlone' BY <2>2 DEF ConnectsAlone
  <2>4. MarkHeld' BY <2>1, <2>2 DEF MarkHeld
  <2>5. OwnClient'
    <3> SUFFICES ASSUME NEW v \in IrcRun, ipc'[v] = "store"
                 PROVE  /\ link'[held'[v]] \in {"open", "broken"}
                        /\ \A w \in IrcRun : held'[w] = held'[v] => w = v
      BY DEF OwnClient, Connected
    <3>1. v # u /\ ipc[v] = "store" /\ held'[v] = held[v] /\ held[v] # NoConn BY <2>1
    <3>2. held[u] # held[v] BY <3>1 DEF OwnClient
    <3> QED BY <2>1, <3>1, <3>2 DEF OwnClient, Connected
  <2>6. Leaving' BY <2>1 DEF Leaving
  <2>7. HeldWasMade' BY <2>1 DEF HeldWasMade
  <2>8. RegisteredNotClosed' BY <2>1 DEF RegisteredNotClosed, Connected, Leaving, Disconnect
  <2> QED BY <2>3, <2>4, <2>5, <2>6, <2>7, <2>8
<1>14. ASSUME NEW u \in IrcRun, NEW m \in Message, Read(u, m) PROVE ClientsSafe'
  <2>1. ~Connecting(u) BY <1>14 DEF Read
  <2>2. CASE IrcTo(u, "transfer") /\ UNCHANGED <<aged, link, held, results>>
    BY <1>14, <2>1, <2>2, SafeGoesOn DEF Read
  <2>3. CASE UNCHANGED <<aged, link, held, results, got, ipc>>
    BY <1>14, <2>3, SafeUnmoved DEF Read
  <2>4. CASE NoAnswer(u)
    BY <1>14, <2>1, <2>4, SafeEnds DEF Read, NoAnswer, IrcEnd
  <2> QED BY <1>14, <2>2, <2>3, <2>4 DEF Read
<1>15. ASSUME NEW u \in IrcRun, NEW c \in IrcConn, NEW what \in {"offer", "sorry"},
              Answer(u, c, what)
       PROVE  ClientsSafe'
  BY <1>15, SafeUnmoved DEF Answer
<1>16. ASSUME NEW c \in IrcConn, ServerCloses(c) PROVE ClientsSafe'
  <2> USE DEF IrcInv, ClientsSafe, IrcTypeOK
  <2>1. /\ \A d \in IrcConn : link'[d] = IF d = c THEN "broken" ELSE link[d]
        /\ link[c] = "open" /\ UNCHANGED <<registered, connecting, ipc, held, oddError>>
    BY <1>16 DEF ServerCloses
  <2>2. ConnectsAlone' /\ MarkHeld' /\ Leaving' BY <2>1 DEF ConnectsAlone, MarkHeld, Leaving
  <2>3. OwnClient' BY <2>1 DEF OwnClient, Connected
  <2>4. HeldWasMade' BY <2>1 DEF HeldWasMade
  <2>5. RegisteredNotClosed' BY <2>1 DEF RegisteredNotClosed, Connected
  <2> QED BY <2>2, <2>3, <2>4, <2>5
<1>17. ASSUME TimePasses PROVE ClientsSafe'
  BY <1>17, SafeUnmoved DEF TimePasses
<1>18. ASSUME CleanupIdle PROVE ClientsSafe'
  <2> USE <1>18 DEF IrcInv, ClientsSafe, IrcTypeOK
  <2>1. /\ \A d \in IrcConn : link'[d] = IF d = registered THEN "closed" ELSE link[d]
        /\ registered \in IrcConn /\ registered' = NoConn
        /\ UNCHANGED <<connecting, ipc, held, oddError>>
    BY DEF CleanupIdle
  <2>2. \A u \in IrcRun : ~Connecting(u) BY DEF MarkHeld, CleanupIdle
  <2>3. ConnectsAlone' /\ MarkHeld' /\ OwnClient' BY <2>1, <2>2 DEF ConnectsAlone, MarkHeld, OwnClient
  <2>4. Leaving' BY <2>1 DEF Leaving
  <2>5. HeldWasMade' BY <2>1 DEF HeldWasMade
  <2>6. RegisteredNotClosed' BY <2>1 DEF RegisteredNotClosed
  <2> QED BY <2>3, <2>4, <2>5, <2>6
<1>19. CASE UNCHANGED ircVars
  BY <1>19, SafeUnmoved DEF ircVars
<1> QED
  BY <1>1, <1>2, <1>3, <1>4, <1>5, <1>6, <1>7, <1>8, <1>9, <1>10, <1>11, <1>12, <1>13,
     <1>14, <1>15, <1>16, <1>17, <1>18, <1>19 DEF IrcNext, IrcStep

\* Initially no client is made and nobody connects.
LEMMA IrcInvInit == IrcInit => IrcInv
<1> SUFFICES ASSUME IrcInit PROVE IrcInv
  OBVIOUS
<1>1. IrcTypeOK BY DEF IrcInit, IrcTypeOK, IrcEnd
<1>2. ClientsSafe
  BY DEF IrcInit, ClientsSafe, ConnectsAlone, MarkHeld, OwnClient, Leaving, HeldWasMade,
         RegisteredNotClosed, Connecting, IrcAt
<1> QED BY <1>1, <1>2 DEF IrcInv

-----------------------------------------------------------------------------
(***************************************************************************)
(* The theorems.                                                           *)
(***************************************************************************)
\* The inductive invariant holds in every reachable state.
THEOREM IrcInvariant == IrcSpec => []IrcInv
BY IrcInvInit, IrcInvStep, PTL DEF IrcSpec

\* A run has a client just when its step needs one, and clients are those that there are.
THEOREM IrcTyped == IrcSpec => []IrcTypeOK
<1>1. IrcInv => IrcTypeOK BY DEF IrcInv
<1> QED BY <1>1, IrcInvariant, PTL

\* Two runs that connect would be two elements of the set of those that do.
LEMMA ConnectingCounted ==
  ASSUME ConnectsAlone
  PROVE  Cardinality({u \in IrcRun : Connecting(u)}) <= 1
<1> DEFINE busy == {u \in IrcRun : Connecting(u)}
<1>1. IsFiniteSet(busy) BY FS_Subset, IrcAssumption
<1>2. CASE busy = {} BY <1>2, FS_EmptySet
<1>3. CASE busy # {}
  <2>1. PICK u \in busy : TRUE BY <1>3
  <2>2. busy = {u} BY <2>1 DEF ConnectsAlone
  <2>3. Cardinality(busy) = 1 BY <2>2, FS_Singleton
  <2> QED BY <2>3
<1> QED BY <1>2, <1>3

\* The invariant of the clients is that of the registry.
LEMMA IrcSound == IrcInv => RegistrySound
<1> SUFFICES ASSUME IrcInv PROVE RegistrySound
  OBVIOUS
<1> USE DEF IrcInv, ClientsSafe
<1>1. Cardinality({u \in IrcRun : IrcAt(u, "connect") \/ IrcAt(u, "store")}) <= 1
  BY ConnectingCounted DEF Connecting
<1>2. OneConnector BY <1>1 DEF OneConnector, MarkHeld, Connecting
<1> QED BY <1>2 DEF RegistrySound

\* Whatever the searches, downloads, failures and closed connections, one run
\* connects at a time, its mark is dropped with its attempt, and the client in the
\* registry has not been disconnected.
THEOREM IrcRegistrySound == IrcSpec => []RegistrySound
BY IrcSound, IrcInvariant, PTL

\* Steps that keep the invariant disconnect no stranger, whatever is fair.
LEMMA OnlyPeersDisconnect == []IrcInv /\ [][IrcNext]_ircVars => DisconnectedByPeers
<1> DEFINE Lost(u) ==
      /\ IrcAt(u, "wait") /\ ipc'[u] = "wait"
      /\ link[held[u]] = "open" /\ link'[held[u]] = "closed"
    ByPeer(u) ==
      \/ aged /\ registered = held[u]
      \/ \E v \in IrcRun \ {u} : held[v] = held[u] /\ IrcAt(v, "disconnect")
<1>1. ASSUME IrcTypeOK, [IrcNext]_ircVars, NEW u \in IrcRun, Lost(u) PROVE ByPeer(u)
  <2>1. held[u] \in IrcConn BY <1>1 DEF IrcTypeOK, IrcAt
  <2>2. ASSUME NEW v \in IrcRun, NEW pc \in IrcEnd, IrcEndRun(v, pc) PROVE FALSE
    BY <1>1, <2>1, <2>2, EndRunEffect DEF IrcTypeOK, IrcAt, IrcEnd
  <2>3. ASSUME NEW v \in IrcRun, Connect(v) PROVE FALSE
    BY <1>1, <2>1, <2>3 DEF Connect, IrcTypeOK
  <2>4. ASSUME NEW v \in IrcRun, Disconnect(v) PROVE ByPeer(u)
    BY <1>1, <2>1, <2>4 DEF Disconnect, IrcTypeOK, IrcAt, IrcTo
  <2>5. ASSUME NEW c \in IrcConn, ServerCloses(c) PROVE FALSE
    BY <1>1, <2>1, <2>5 DEF ServerCloses, IrcTypeOK
  <2>6. CASE CleanupIdle
    BY <1>1, <2>1, <2>6 DEF CleanupIdle, IrcTypeOK
  <2>7. link' # link BY <1>1
  <2>8. ASSUME NEW v \in IrcRun, IrcStep(v), ~Connect(v), ~Disconnect(v) PROVE FALSE
    BY <2>2, <2>7, <2>8
       DEF IrcStep, Reuse, GetConnection, WaitTooLong, Store, ConnectFails, Request,
           RequestCancelled, WaitBreaks, Transfer, Read, NoAnswer, IrcEnd
  <2> QED
    BY <1>1, <2>3, <2>4, <2>5, <2>6, <2>7, <2>8
       DEF IrcNext, ircVars, BeginIrc, CancelIrc, Answer, TimePasses
<1>2. IrcTypeOK /\ [IrcNext]_ircVars => [\A u \in IrcRun : Lost(u) => ByPeer(u)]_ircVars
  BY <1>1
<1>3. IrcInv => IrcTypeOK BY DEF IrcInv
<1> QED BY <1>2, <1>3, PTL DEF DisconnectedByPeers

\* A run that waits loses an open connection to the clean-up of an idle connection
\* or to a run that holds the same client, and to nobody else.
THEOREM IrcDisconnectedByPeers == IrcSpec => DisconnectedByPeers
BY OnlyPeersDisconnect, IrcInvariant, PTL DEF IrcSpec

-----------------------------------------------------------------------------
(* CoverCache *)

USE DEF Files

(***************************************************************************)
(* The inductive invariant.  The live index is what its file says, unless  *)
(* a save or a read failed or the old instance wrote the file since;       *)
(* nothing is in it before it is loaded.                                   *)
(***************************************************************************)
IndexState == [CoverId -> IndexEntry]
CoverTypes ==
  /\ index \in [{"live", "old"} -> IndexState] /\ indexFile \in IndexState
  /\ cover \in [Files -> {"absent", "whole", "torn"}]
  /\ fetch \in [CoverFetch -> [on : {"live", "old"}, id : CoverId] \cup {NotFetching}]
  /\ loaded \in BOOLEAN /\ unsaved \in BOOLEAN /\ foreign \in BOOLEAN
  /\ oldHeld = (\E f \in CoverFetch : fetch[f].on = "old") /\ stuck \subseteq Files
InForce ==
  /\ \A f \in CoverFetch : fetch[f].on = "live" => loaded
  /\ ~loaded => index["live"] = EmptyIndex
  /\ loaded /\ ~unsaved /\ ~foreign => indexFile = index["live"]
CoverInv == CoverTypes /\ InForce

\* What a step may do to the image p of a cover.
ComesTorn(p) == Known("live", p)' /\ cover'[p] = "torn" /\ ~(Known("live", p) /\ cover[p] = "torn")
TornByReading(p) == ~loaded \/ unsaved \/ foreign \/ Known("live", p)
Forgotten(p) == Known("live", p) /\ cover[p] = "whole" /\ ~Known("live", p)' /\ cover'[p] = "whole"
Replaced(p) ==
  \/ p \in stuck'
  \/ index'["live"][p[1]] \in (CoverExt \cup {"negative"}) \ {p[2]}
  \/ unsaved \/ foreign \/ Restart
  \/ \E f \in CoverFetch, c \in CoverId : LookupEmpties(f, c)
ImagesFollow ==
  \A p \in Files : (ComesTorn(p) => TornByReading(p)) /\ (Forgotten(p) => Replaced(p))

\* An index with nothing in it, and a run that fetches nothing.
LEMMA CoverFacts ==
  /\ EmptyIndex \in IndexState /\ NotFetching.on = "none"
  /\ \A c \in CoverId, x \in CoverExt : EmptyIndex[c] # x
BY CoverAssumption DEF CoverAssumption, EmptyIndex, IndexState, IndexEntry, NotFetching

\* A save keeps the index of the other instance, and the file up to date or known not to be.
LEMMA Saves ==
  ASSUME CoverInv, NEW i \in {"live", "old"}, NEW ix \in IndexState, Save(i, ix), i = "live" => loaded,
         UNCHANGED loaded
  PROVE  /\ index' \in [{"live", "old"} -> IndexState] /\ indexFile' \in IndexState
         /\ unsaved' \in BOOLEAN /\ foreign' \in BOOLEAN
         /\ index'["live"] = IF i = "live" THEN ix ELSE index["live"]
         /\ ~loaded => index'["live"] = EmptyIndex
         /\ loaded /\ ~unsaved' /\ ~foreign' => indexFile' = index'["live"]
<1>1. index \in [{"live", "old"} -> IndexState] /\ index' = [index EXCEPT ![i] = ix]
  BY DEF CoverInv, CoverTypes, Save
<1>2. /\ index' \in [{"live", "old"} -> IndexState]
      /\ index'["live"] = IF i = "live" THEN ix ELSE index["live"]
  <2>1. CASE i = "live"
    BY <1>1, <2>1
  <2>2. CASE i = "old"
    BY <1>1, <2>2
  <2> QED BY <2>1, <2>2
<1>3. \/ indexFile' = ix /\ foreign' = (foreign \/ i = "old") /\ UNCHANGED unsaved
      \/ UNCHANGED <<indexFile, foreign>> /\ unsaved' = (unsaved \/ i = "live")
  BY DEF Save
<1>4. indexFile' \in IndexState /\ unsaved' \in BOOLEAN /\ foreign' \in BOOLEAN
  BY <1>3 DEF CoverInv, CoverTypes
<1>5. loaded /\ ~unsaved' /\ ~foreign' => indexFile' = index'["live"]
  <2>1. CASE indexFile' = ix /\ foreign' = (foreign \/ i = "old")
    BY <1>2, <2>1
  <2>2. CASE UNCHANGED <<indexFile, foreign>> /\ unsaved' = (unsaved \/ i = "live")
    <3>1. CASE i = "live"
      <4>1. unsaved'
        BY <2>2, <3>1
      <4> QED BY <4>1
    <3>2. CASE i # "live"
      <4>1. ~unsaved' => ~unsaved
        BY <2>2, <3>2
      <4> QED BY <1>2, <2>2, <3>2, <4>1 DEF CoverInv, InForce
    <3> QED BY <3>1, <3>2
  <2> QED BY <1>3, <2>1, <2>2
<1>6. ~loaded => index'["live"] = EmptyIndex
  BY <1>2 DEF CoverInv, InForce
<1> QED BY <1>2, <1>4, <1>5, <1>6

\* A fetch that begins asks the live instance.
LEMMA Fetches ==
  ASSUME CoverInv, loaded, NEW f \in CoverFetch, NEW c \in CoverId, Idle(f),
         Fetching(f, c) \/ UNCHANGED fetch, UNCHANGED <<loaded, oldHeld>>
  PROVE  /\ fetch' \in [CoverFetch -> [on : {"live", "old"}, id : CoverId] \cup {NotFetching}]
         /\ oldHeld' = (\E g \in CoverFetch : fetch'[g].on = "old")
         /\ \A g \in CoverFetch : fetch'[g].on = "live" => loaded'
<1>1. CASE UNCHANGED fetch
  BY <1>1 DEF CoverInv, CoverTypes, InForce
<1>2. CASE Fetching(f, c)
  <2>1. fetch' = [fetch EXCEPT ![f] = [on |-> "live", id |-> c]]
    BY <1>2 DEF Fetching
  <2>2. fetch[f].on # "old" /\ [on |-> "live", id |-> c].on # "old"
    BY CoverFacts DEF Idle
  <2>3. \A g \in CoverFetch : fetch'[g].on = "old" <=> fetch[g].on = "old"
    BY <2>1, <2>2 DEF CoverInv, CoverTypes
  <2>4. fetch' \in [CoverFetch -> [on : {"live", "old"}, id : CoverId] \cup {NotFetching}]
    BY <2>1 DEF CoverInv, CoverTypes
  <2>5. oldHeld' = (\E g \in CoverFetch : fetch'[g].on = "old")
    <3>1. (\E g \in CoverFetch : fetch'[g].on = "old") <=> \E g \in CoverFetch : fetch[g].on = "old"
      BY <2>3
    <3>2. oldHeld' = oldHeld /\ oldHeld = (\E g \in CoverFetch : fetch[g].on = "old")
      BY DEF CoverInv, CoverTypes
    <3> QED BY <3>1, <3>2
  <2> QED BY <2>4, <2>5
<1> QED BY <1>1, <1>2

\* A fetch that ends lets go of its instance.
LEMMA Releases ==
  ASSUME CoverInv, NEW f \in CoverFetch, Released(f), UNCHANGED loaded
  PROVE  /\ fetch' \in [CoverFetch -> [on : {"live", "old"}, id : CoverId] \cup {NotFetching}]
         /\ oldHeld' = (\E g \in CoverFetch : fetch'[g].on = "old")
         /\ \A g \in CoverFetch : fetch'[g].on = "live" => loaded'
<1>1. /\ fetch' = [fetch EXCEPT ![f] = NotFetching]
      /\ oldHeld' = \E g \in CoverFetch \ {f} : fetch[g].on = "old"
  BY DEF Released
<1>2. /\ fetch' \in [CoverFetch -> [on : {"live", "old"}, id : CoverId] \cup {NotFetching}]
      /\ fetch'[f] = NotFetching /\ \A g \in CoverFetch \ {f} : fetch'[g] = fetch[g]
  BY <1>1 DEF CoverInv, CoverTypes
<1>3. (\E g \in CoverFetch : fetch'[g].on = "old") <=> \E g \in CoverFetch \ {f} : fetch[g].on = "old"
  BY <1>2, CoverFacts
<1>4. \A g \in CoverFetch : fetch'[g].on = "live" => loaded'
  BY <1>2, CoverFacts DEF CoverInv, InForce
<1> QED BY <1>1, <1>2, <1>3, <1>4

\* Who fetches has an instance and a cover.
LEMMA Fetcher ==
  ASSUME CoverInv, NEW f \in CoverFetch, ~Idle(f)
  PROVE  /\ fetch[f].on \in {"live", "old"} /\ fetch[f].id \in CoverId
         /\ fetch[f].on = "live" => loaded
         /\ index[fetch[f].on] \in IndexState
<1>1. fetch[f] \in [on : {"live", "old"}, id : CoverId]
  BY DEF CoverInv, CoverTypes, Idle
<1> QED BY <1>1 DEF CoverInv, CoverTypes, InForce

\* The index without the covers that make room.
LEMMA RoomMade ==
  ASSUME NEW ix \in IndexState, NEW gone \in Evictions(ix)
  PROVE  /\ gone \subseteq Images(ix) /\ Without(ix, gone) \in IndexState
         /\ \A c \in CoverId : \/ Without(ix, gone)[c] = ix[c] /\ c \notin gone
                               \/ Without(ix, gone)[c] = "none" /\ (c \in gone \/ ix[c] = "negative")
<1>1. gone \subseteq Images(ix)
  BY DEF Evictions
<1>2. Without(ix, gone) \in IndexState
  BY DEF Without, IndexState, IndexEntry
<1> QED BY <1>1, <1>2 DEF Without

\* An image of a cover is a cover with a type, and is known where the index has the type.
LEMMA ImageFacts ==
  ASSUME NEW p \in Files
  PROVE  /\ p[1] \in CoverId /\ p[2] \in CoverExt /\ p = <<p[1], p[2]>>
         /\ p[2] # "none" /\ p[2] # "negative"
         /\ Known("live", p) <=> index["live"][p[1]] = p[2]
         /\ Known("live", p)' <=> index'["live"][p[1]] = p[2]
BY CoverAssumption DEF CoverAssumption, Known


\* No cover is forgotten or found where the live index stays.
LEMMA LiveKept == ASSUME CoverInv, index'["live"] = index["live"] PROVE ImagesFollow
BY ImageFacts DEF ImagesFollow, ComesTorn, TornByReading, Forgotten, Replaced

\* An instance starts: it is in line with its file, and with nothing it knew before.
LEMMA LoadStep == ASSUME CoverInv, Load PROVE CoverInv' /\ ImagesFollow
<1>1. /\ ~loaded /\ loaded' = TRUE /\ foreign' = FALSE /\ stuck' = {}
      /\ UNCHANGED <<oldHeld, cover, fetch>>
  BY DEF Load
<1>2. PICK read \in {indexFile, EmptyIndex}, adopted \in [CoverId -> CoverExt] :
        /\ index' = [index EXCEPT !["live"] = InLine(read, adopted)]
        /\ \/ InLine(read, adopted) # read /\ indexFile' = InLine(read, adopted) /\ unsaved' = FALSE
           \/ UNCHANGED indexFile /\ unsaved' = (InLine(read, adopted) # indexFile)
  BY DEF Load
<1> DEFINE ix == InLine(read, adopted)
<1>3. /\ index' = [index EXCEPT !["live"] = ix]
      /\ \/ indexFile' = ix /\ unsaved' = FALSE
         \/ UNCHANGED indexFile /\ unsaved' = (ix # indexFile)
  BY <1>2
<1>4. ix \in IndexState
  <2>1. read \in IndexState
    BY CoverFacts DEF CoverInv, CoverTypes
  <2> QED BY <2>1 DEF InLine, IndexState, IndexEntry
<1> HIDE DEF ix
<1>5. /\ index' \in [{"live", "old"} -> IndexState] /\ index'["live"] = ix
      /\ indexFile' \in IndexState /\ unsaved' \in BOOLEAN
  BY <1>3, <1>4 DEF CoverInv, CoverTypes
<1>6. ~unsaved' => indexFile' = ix
  BY <1>3
<1>7. CoverInv'
  BY <1>1, <1>5, <1>6 DEF CoverInv, CoverTypes, InForce
<1>8. \A p \in Files : ~Known("live", p)
  BY <1>1, ImageFacts, CoverFacts DEF CoverInv, InForce
<1>9. ImagesFollow
  BY <1>1, <1>8 DEF ImagesFollow, ComesTorn, TornByReading, Forgotten, Replaced
<1> QED BY <1>7, <1>9

\* A lookup that finds the image, and one that finds that there is none.
LEMMA HitStep ==
  ASSUME CoverInv, NEW f \in CoverFetch, NEW c \in CoverId, LookupHit(f, c) \/ LookupPasses(f, c)
  PROVE  CoverInv' /\ ImagesFollow
<1>1. CASE LookupHit(f, c)
  <2>1. /\ loaded /\ Save("live", index["live"]) /\ stuck' = {} /\ UNCHANGED <<loaded, oldHeld, cover, fetch>>
    BY <1>1 DEF LookupHit
  <2>2. index["live"] \in IndexState
    BY DEF CoverInv, CoverTypes
  <2>3. /\ index' \in [{"live", "old"} -> IndexState] /\ indexFile' \in IndexState
        /\ unsaved' \in BOOLEAN /\ foreign' \in BOOLEAN /\ index'["live"] = index["live"]
        /\ loaded /\ ~unsaved' /\ ~foreign' => indexFile' = index'["live"]
    BY <2>1, <2>2, Saves
  <2>4. CoverInv'
    BY <2>1, <2>3 DEF CoverInv, CoverTypes, InForce
  <2> QED BY <2>3, <2>4, LiveKept
<1>2. CASE LookupPasses(f, c)
  <2>1. /\ loaded /\ Idle(f) /\ Fetching(f, c) /\ stuck' = {}
        /\ UNCHANGED <<index, loaded, oldHeld, indexFile, cover, unsaved, foreign>>
    BY <1>2 DEF LookupPasses
  <2>2. /\ fetch' \in [CoverFetch -> [on : {"live", "old"}, id : CoverId] \cup {NotFetching}]
        /\ oldHeld' = (\E g \in CoverFetch : fetch'[g].on = "old")
        /\ \A g \in CoverFetch : fetch'[g].on = "live" => loaded'
    BY <2>1, Fetches
  <2>3. CoverInv'
    BY <2>1, <2>2 DEF CoverInv, CoverTypes, InForce
  <2> QED BY <2>1, <2>3, LiveKept
<1> QED BY <1>1, <1>2

\* The files that an index leads to, without those that could not be removed.
Keeps(ix, gone, kept) ==
  /\ KeptFiles(ix, gone, kept) \in [Files -> {"absent", "whole", "torn"}]
  /\ Led(ix, gone) \subseteq Files
  /\ \A p \in Files : p[1] \in gone /\ ix[p[1]] = p[2] /\ p \notin kept
       => KeptFiles(ix, gone, kept)[p] = "absent"
  /\ \A p \in Files : ~(p[1] \in gone /\ ix[p[1]] = p[2])
       => KeptFiles(ix, gone, kept)[p] = cover[p]
LEMMA FilesKept == ASSUME CoverInv PROVE \A ix, gone, kept : Keeps(ix, gone, kept)
<1> TAKE ix, gone, kept
<1> DEFINE k == KeptFiles(ix, gone, kept)
<1>1. k = [p \in Files |-> IF p \in Led(ix, gone) \ kept THEN "absent" ELSE cover[p]]
  BY DEF KeptFiles
<1>2. /\ cover \in [Files -> {"absent", "whole", "torn"}]
      /\ \A p \in Files : p \in Led(ix, gone)
           <=> (p[1] \in gone /\ ix[p[1]] = p[2] /\ cover[p] # "absent")
      /\ Led(ix, gone) \subseteq Files
  BY DEF CoverInv, CoverTypes, Led
<1> HIDE DEF k, Files
<1>3. /\ k \in [Files -> {"absent", "whole", "torn"}]
      /\ \A p \in Files : k[p] = IF p \in Led(ix, gone) \ kept THEN "absent" ELSE cover[p]
  BY <1>1, <1>2
<1> QED BY <1>2, <1>3 DEF k, Keeps

\* A lookup that drops the entry drops its image, or cannot.
LEMMA DropStep ==
  ASSUME CoverInv, NEW f \in CoverFetch, NEW c \in CoverId, LookupDrops(f, c)
  PROVE  CoverInv' /\ ImagesFollow
<1> DEFINE ix == [index["live"] EXCEPT ![c] = "none"]
           e == index["live"][c]
<1>1. /\ loaded /\ Idle(f) /\ Save("live", ix) /\ Fetching(f, c) /\ UNCHANGED <<loaded, oldHeld>>
      /\ stuck' \in SUBSET Led(index["live"], {c}) /\ cover' = KeptFiles(index["live"], {c}, stuck')
  BY DEF LookupDrops
<1>2. /\ index["live"] \in IndexState /\ ix \in IndexState /\ ix[c] = "none"
      /\ \A a \in CoverId \ {c} : ix[a] = index["live"][a]
  BY DEF CoverInv, CoverTypes, IndexState, IndexEntry
<1> HIDE DEF ix
<1>3. /\ index' \in [{"live", "old"} -> IndexState] /\ indexFile' \in IndexState
      /\ unsaved' \in BOOLEAN /\ foreign' \in BOOLEAN /\ index'["live"] = ix
      /\ loaded /\ ~unsaved' /\ ~foreign' => indexFile' = index'["live"]
  BY <1>1, <1>2, Saves
<1>4. /\ fetch' \in [CoverFetch -> [on : {"live", "old"}, id : CoverId] \cup {NotFetching}]
      /\ oldHeld' = (\E g \in CoverFetch : fetch'[g].on = "old")
      /\ \A g \in CoverFetch : fetch'[g].on = "live" => loaded'
  BY <1>1, Fetches
<1>5. /\ cover' \in [Files -> {"absent", "whole", "torn"}] /\ stuck' \subseteq Files
      /\ \A p \in Files : p[1] = c /\ e = p[2] => cover'[p] = "absent" \/ p \in stuck'
      /\ \A p \in Files : p[1] # c => cover'[p] = cover[p]
  <2>1. Keeps(index["live"], {c}, stuck')
    BY FilesKept
  <2> HIDE DEF Files
  <2> QED BY <1>1, <2>1 DEF Keeps
<1>6. CoverInv'
  BY <1>1, <1>3, <1>4, <1>5 DEF CoverInv, CoverTypes, InForce
<1>7. ASSUME NEW p \in Files
      PROVE  (ComesTorn(p) => TornByReading(p)) /\ (Forgotten(p) => Replaced(p))
  <2>1. CASE p[1] = c
    BY <1>2, <1>3, <1>5, <2>1, ImageFacts DEF ComesTorn, Forgotten, Replaced
  <2>2. CASE p[1] # c
    BY <1>2, <1>3, <1>5, <2>2, ImageFacts DEF ComesTorn, TornByReading, Forgotten
  <2> QED BY <2>1, <2>2
<1> QED BY <1>6, <1>7 DEF ImagesFollow

\* A lookup that misses takes the index from its file again.
LEMMA MissStep ==
  ASSUME CoverInv, NEW f \in CoverFetch, NEW c \in CoverId, LookupMisses(f, c)
  PROVE  CoverInv' /\ ImagesFollow
<1>1. /\ loaded /\ Idle(f) /\ index' = [index EXCEPT !["live"] = indexFile]
      /\ unsaved' = FALSE /\ foreign' = FALSE /\ (Fetching(f, c) \/ UNCHANGED fetch) /\ stuck' = {}
      /\ UNCHANGED <<loaded, oldHeld, indexFile, cover>>
  BY DEF LookupMisses
<1>2. index' \in [{"live", "old"} -> IndexState] /\ index'["live"] = indexFile
  BY <1>1 DEF CoverInv, CoverTypes
<1>3. /\ fetch' \in [CoverFetch -> [on : {"live", "old"}, id : CoverId] \cup {NotFetching}]
      /\ oldHeld' = (\E g \in CoverFetch : fetch'[g].on = "old")
      /\ \A g \in CoverFetch : fetch'[g].on = "live" => loaded'
  BY <1>1, Fetches
<1>4. CoverInv'
  BY <1>1, <1>2, <1>3 DEF CoverInv, CoverTypes, InForce
<1>5. CASE unsaved \/ foreign
  <2>1. \A p \in Files : TornByReading(p) /\ Replaced(p)
    BY <1>5 DEF TornByReading, Replaced
  <2> QED BY <1>4, <2>1 DEF ImagesFollow
<1>6. CASE ~unsaved /\ ~foreign
  <2>1. index'["live"] = index["live"]
    BY <1>1, <1>2, <1>6 DEF CoverInv, InForce
  <2> QED BY <2>1, <1>4, LiveKept
<1> QED BY <1>4, <1>5, <1>6

\* One that cannot read the file empties the index.
LEMMA EmptiesStep ==
  ASSUME CoverInv, NEW f \in CoverFetch, NEW c \in CoverId, LookupEmpties(f, c)
  PROVE  CoverInv' /\ ImagesFollow
<1>1. /\ loaded /\ Idle(f) /\ index' = [index EXCEPT !["live"] = EmptyIndex]
      /\ unsaved' = TRUE /\ Fetching(f, c) /\ stuck' = {}
      /\ UNCHANGED <<loaded, oldHeld, indexFile, cover, foreign>>
  BY DEF LookupEmpties
<1>2. index' \in [{"live", "old"} -> IndexState] /\ index'["live"] = EmptyIndex
  BY <1>1, CoverFacts DEF CoverInv, CoverTypes
<1>3. /\ fetch' \in [CoverFetch -> [on : {"live", "old"}, id : CoverId] \cup {NotFetching}]
      /\ oldHeld' = (\E g \in CoverFetch : fetch'[g].on = "old")
      /\ \A g \in CoverFetch : fetch'[g].on = "live" => loaded'
  BY <1>1, Fetches
<1>4. CoverInv'
  BY <1>1, <1>2, <1>3 DEF CoverInv, CoverTypes, InForce
<1>5. \A p \in Files : ~ComesTorn(p) /\ Replaced(p)
  BY <1>2, CoverFacts, ImageFacts DEF ComesTorn, Replaced
<1> QED BY <1>4, <1>5 DEF ImagesFollow

\* A put, or a fetch that finds none: the instance makes room, the image and the entry go.
LEMMA PutTypes ==
  ASSUME CoverInv, NEW f \in CoverFetch, ~Idle(f), NEW ix \in IndexState, Save(fetch[f].on, ix),
         Released(f), UNCHANGED loaded, cover' \in [Files -> {"absent", "whole", "torn"}],
         stuck' \subseteq Files
  PROVE  /\ CoverInv'
         /\ index'["live"] = IF fetch[f].on = "live" THEN ix ELSE index["live"]
<1>1. fetch[f].on \in {"live", "old"} /\ (fetch[f].on = "live" => loaded)
  BY Fetcher
<1>2. /\ index' \in [{"live", "old"} -> IndexState] /\ indexFile' \in IndexState
      /\ unsaved' \in BOOLEAN /\ foreign' \in BOOLEAN
      /\ index'["live"] = IF fetch[f].on = "live" THEN ix ELSE index["live"]
      /\ ~loaded => index'["live"] = EmptyIndex
      /\ loaded /\ ~unsaved' /\ ~foreign' => indexFile' = index'["live"]
  <2> HIDE DEF CoverInv
  <2> QED BY <1>1, Saves
<1>3. /\ fetch' \in [CoverFetch -> [on : {"live", "old"}, id : CoverId] \cup {NotFetching}]
      /\ oldHeld' = (\E g \in CoverFetch : fetch'[g].on = "old")
      /\ \A g \in CoverFetch : fetch'[g].on = "live" => loaded'
  BY Releases
<1> QED BY <1>2, <1>3 DEF CoverInv, CoverTypes, InForce

\* A put that succeeds.
LEMMA PutStep == ASSUME CoverInv, NEW f \in CoverFetch, NEW x \in CoverExt, PutCover(f, x)
                 PROVE  CoverInv' /\ ImagesFollow
<1> DEFINE i == fetch[f].on
           c == fetch[f].id
<1>1. ~Idle(f) /\ Released(f) /\ UNCHANGED loaded
  BY DEF PutCover
<1>2. PICK gone \in Evictions(index[i]) :
        /\ stuck' \in SUBSET Led(index[i], gone)
        /\ cover' = [KeptFiles(index[i], gone, stuck') EXCEPT ![<<c, x>>] = "whole"]
        /\ Save(i, [Without(index[i], gone) EXCEPT ![c] = x])
  BY DEF PutCover
<1>3. i \in {"live", "old"} /\ c \in CoverId /\ index[i] \in IndexState
  BY <1>1, Fetcher
<1> DEFINE w == Without(index[i], gone)
           k == KeptFiles(index[i], gone, stuck')
           ix == [w EXCEPT ![c] = x]
<1>4. /\ gone \subseteq Images(index[i]) /\ w \in IndexState
      /\ \A a \in CoverId : \/ w[a] = index[i][a] /\ a \notin gone
                            \/ w[a] = "none" /\ (a \in gone \/ index[i][a] = "negative")
  BY <1>3, RoomMade
<1>5. /\ k \in [Files -> {"absent", "whole", "torn"}] /\ stuck' \subseteq Files
      /\ \A p \in Files : p[1] \in gone /\ index[i][p[1]] = p[2]
           => k[p] = "absent" \/ p \in stuck'
      /\ \A p \in Files : ~(p[1] \in gone /\ index[i][p[1]] = p[2]) => k[p] = cover[p]
  <2>1. Keeps(index[i], gone, stuck')
    BY FilesKept
  <2> HIDE DEF Files
  <2> QED BY <1>2, <2>1 DEF k, Keeps
<1> HIDE DEF w, k
<1>6. cover' = [k EXCEPT ![<<c, x>>] = "whole"] /\ Save(i, ix)
  BY <1>2 DEF w, k
<1>7. /\ cover' \in [Files -> {"absent", "whole", "torn"}]
      /\ cover'[<<c, x>>] = "whole"
      /\ \A p \in Files : p # <<c, x>> => cover'[p] = k[p]
  BY <1>3, <1>5, <1>6
<1>8. ix \in IndexState /\ ix[c] = x /\ \A a \in CoverId \ {c} : ix[a] = w[a]
  BY <1>3, <1>4 DEF IndexState, IndexEntry
<1> HIDE DEF ix
<1>9. CoverInv' /\ index'["live"] = IF i = "live" THEN ix ELSE index["live"]
  BY <1>1, <1>5, <1>6, <1>7, <1>8, PutTypes
<1>10. CASE i = "old"
  BY <1>9, <1>10, LiveKept
<1>11. CASE i = "live"
  <2>1. ASSUME NEW p \in Files
        PROVE  (ComesTorn(p) => TornByReading(p)) /\ (Forgotten(p) => Replaced(p))
    <3>1. CASE p[1] = c
      <4>1. index'["live"][p[1]] = x
        BY <1>8, <1>9, <1>11, <3>1
      <4>2. ~ComesTorn(p)
        BY <1>7, <3>1, <4>1, ImageFacts DEF ComesTorn
      <4>3. Forgotten(p) => Replaced(p)
        BY <4>1, ImageFacts DEF Forgotten, Replaced
      <4> QED BY <4>2, <4>3
    <3>2. CASE p[1] # c
      <4>1. index'["live"][p[1]] = w[p[1]] /\ cover'[p] = k[p]
        BY <1>7, <1>8, <1>9, <1>11, <3>2, ImageFacts
      <4>2. Known("live", p)' => Known("live", p)
        BY <1>4, <1>11, <4>1, ImageFacts
      <4>3. Forgotten(p) => Replaced(p)
        <5>1. CASE p[1] \in gone /\ index["live"][p[1]] = p[2]
          BY <1>5, <1>11, <4>1, <5>1 DEF Forgotten, Replaced
        <5>2. CASE ~(p[1] \in gone /\ index["live"][p[1]] = p[2])
          BY <1>4, <1>11, <4>1, <5>2, ImageFacts DEF Forgotten
        <5> QED BY <5>1, <5>2
      <4> QED BY <4>2, <4>3 DEF ComesTorn, TornByReading
    <3> QED BY <3>1, <3>2
  <2> QED BY <1>9, <2>1 DEF ImagesFollow
<1> QED BY <1>3, <1>10, <1>11

\* A put that fails leaves the evicted images and entries gone.
LEMMA PutFailsStep == ASSUME CoverInv, NEW f \in CoverFetch, NEW x \in CoverExt, PutFails(f, x)
                      PROVE  CoverInv' /\ ImagesFollow
<1> DEFINE i == fetch[f].on
           c == fetch[f].id
<1>1. ~Idle(f) /\ Released(f) /\ UNCHANGED loaded
  BY DEF PutFails
<1>2. PICK gone \in Evictions(index[i]), opened \in BOOLEAN :
        /\ stuck' \in SUBSET Led(index[i], gone)
        /\ cover' = IF opened THEN [KeptFiles(index[i], gone, stuck') EXCEPT ![<<c, x>>] = "torn"]
                    ELSE KeptFiles(index[i], gone, stuck')
        /\ Save(i, Without(index[i], gone))
  BY DEF PutFails
<1>3. i \in {"live", "old"} /\ c \in CoverId /\ index[i] \in IndexState
  BY <1>1, Fetcher
<1> DEFINE w == Without(index[i], gone)
           k == KeptFiles(index[i], gone, stuck')
<1>4. /\ gone \subseteq Images(index[i]) /\ w \in IndexState
      /\ \A a \in CoverId : \/ w[a] = index[i][a] /\ a \notin gone
                            \/ w[a] = "none" /\ (a \in gone \/ index[i][a] = "negative")
  BY <1>3, RoomMade
<1>5. /\ k \in [Files -> {"absent", "whole", "torn"}] /\ stuck' \subseteq Files
      /\ \A p \in Files : p[1] \in gone /\ index[i][p[1]] = p[2]
           => k[p] = "absent" \/ p \in stuck'
      /\ \A p \in Files : ~(p[1] \in gone /\ index[i][p[1]] = p[2]) => k[p] = cover[p]
  <2>1. Keeps(index[i], gone, stuck')
    BY FilesKept
  <2> HIDE DEF Files
  <2> QED BY <1>2, <2>1 DEF k, Keeps
<1> HIDE DEF w, k
<1>6. (cover' = IF opened THEN [k EXCEPT ![<<c, x>>] = "torn"] ELSE k) /\ Save(i, w)
  BY <1>2 DEF w, k
<1>7. /\ cover' \in [Files -> {"absent", "whole", "torn"}]
      /\ \A p \in Files : cover'[p] \in {k[p], "torn"}
  BY <1>3, <1>5, <1>6
<1>8. CoverInv' /\ index'["live"] = IF i = "live" THEN w ELSE index["live"]
  BY <1>1, <1>4, <1>5, <1>6, <1>7, PutTypes
<1>9. CASE i = "old"
  BY <1>8, <1>9, LiveKept
<1>10. CASE i = "live"
  <2>1. ASSUME NEW p \in Files
        PROVE  (ComesTorn(p) => TornByReading(p)) /\ (Forgotten(p) => Replaced(p))
    <3>1. Known("live", p)' => Known("live", p)
      BY <1>4, <1>8, <1>10, ImageFacts
    <3>2. Forgotten(p) => Replaced(p)
      BY <1>4, <1>5, <1>7, <1>8, <1>10, ImageFacts DEF Forgotten, Replaced
    <3> QED BY <3>1, <3>2 DEF ComesTorn, TornByReading
  <2> QED BY <1>8, <2>1 DEF ImagesFollow
<1> QED BY <1>3, <1>9, <1>10

\* A cover is known to be missing: its image is forgotten, and stays.
LEMMA NegativeStep == ASSUME CoverInv, NEW f \in CoverFetch, PutNegative(f)
                      PROVE  CoverInv' /\ ImagesFollow
<1> DEFINE i == fetch[f].on
           c == fetch[f].id
           ix == [index[i] EXCEPT ![c] = "negative"]
<1>1. ~Idle(f) /\ Save(i, ix) /\ Released(f) /\ stuck' = {} /\ UNCHANGED <<loaded, cover>>
  BY DEF PutNegative
<1>2. i \in {"live", "old"} /\ c \in CoverId /\ index[i] \in IndexState
  BY <1>1, Fetcher
<1>3. ix \in IndexState /\ ix[c] = "negative" /\ \A a \in CoverId \ {c} : ix[a] = index[i][a]
  BY <1>2 DEF IndexState, IndexEntry
<1> HIDE DEF ix
<1>4. cover' \in [Files -> {"absent", "whole", "torn"}]
  BY <1>1 DEF CoverInv, CoverTypes
<1>5. CoverInv' /\ index'["live"] = IF i = "live" THEN ix ELSE index["live"]
  BY <1>1, <1>3, <1>4, PutTypes
<1>6. ASSUME NEW p \in Files
      PROVE  (ComesTorn(p) => TornByReading(p)) /\ (Forgotten(p) => Replaced(p))
  <2>1. CASE i = "live" /\ p[1] = c
    BY <1>3, <1>5, <2>1, ImageFacts DEF ComesTorn, Forgotten, Replaced
  <2>2. CASE ~(i = "live" /\ p[1] = c)
    <3>1. index'["live"][p[1]] = index["live"][p[1]]
      BY <1>2, <1>3, <1>5, <2>2, ImageFacts
    <3> QED BY <3>1, ImageFacts DEF ComesTorn, TornByReading, Forgotten
  <2> QED BY <2>1, <2>2
<1> QED BY <1>5, <1>6 DEF ImagesFollow

\* A fetch gives up.
LEMMA GivesUpStep == ASSUME CoverInv, NEW f \in CoverFetch, FetchGivesUp(f)
                     PROVE  CoverInv' /\ ImagesFollow
<1>1. Released(f) /\ stuck' = {} /\ UNCHANGED <<index, loaded, indexFile, cover, unsaved, foreign>>
  BY DEF FetchGivesUp
<1>2. /\ fetch' \in [CoverFetch -> [on : {"live", "old"}, id : CoverId] \cup {NotFetching}]
      /\ oldHeld' = (\E g \in CoverFetch : fetch'[g].on = "old")
      /\ \A g \in CoverFetch : fetch'[g].on = "live" => loaded'
  BY <1>1, Releases
<1>3. CoverInv'
  BY <1>1, <1>2 DEF CoverInv, CoverTypes, InForce
<1> QED BY <1>1, <1>3, LiveKept

\* The cache is cleared, files and entries; fetches go on with the instance that was.
LEMMA ClearCoversStep == ASSUME CoverInv, ClearCovers PROVE CoverInv' /\ ImagesFollow
<1>1. /\ loaded' = FALSE /\ index' = [i \in {"live", "old"} |-> EmptyIndex]
      /\ stuck' \in SUBSET Led(index["live"], CoverId)
      /\ cover' = KeptFiles(index["live"], CoverId, stuck')
      /\ UNCHANGED <<unsaved, foreign>> /\ (indexFile' = EmptyIndex \/ UNCHANGED indexFile)
      /\ fetch' = [f \in CoverFetch |-> IF Idle(f) THEN fetch[f] ELSE [fetch[f] EXCEPT !.on = "old"]]
      /\ oldHeld' = \E f \in CoverFetch : ~Idle(f)
  BY DEF ClearCovers
<1>2. ASSUME NEW f \in CoverFetch
      PROVE  /\ fetch'[f] \in [on : {"live", "old"}, id : CoverId] \cup {NotFetching}
             /\ fetch'[f].on = "old" <=> ~Idle(f)
             /\ fetch'[f].on # "live"
  <2>1. CASE Idle(f)
    BY <1>1, <2>1, CoverFacts DEF Idle
  <2>2. CASE ~Idle(f)
    <3>1. fetch[f] \in [on : {"live", "old"}, id : CoverId]
      BY <2>2 DEF CoverInv, CoverTypes, Idle
    <3>2. fetch'[f] = [fetch[f] EXCEPT !.on = "old"]
      BY <1>1, <2>2
    <3> QED BY <2>2, <3>1, <3>2
  <2> QED BY <2>1, <2>2
<1>3. fetch' \in [CoverFetch -> [on : {"live", "old"}, id : CoverId] \cup {NotFetching}]
  BY <1>1, <1>2
<1>4. oldHeld' = (\E f \in CoverFetch : fetch'[f].on = "old")
  <2>1. (\E f \in CoverFetch : ~Idle(f)) <=> \E f \in CoverFetch : fetch'[f].on = "old"
    BY <1>2
  <2> QED BY <1>1, <2>1
<1>5. /\ cover' \in [Files -> {"absent", "whole", "torn"}] /\ stuck' \subseteq Files
      /\ \A p \in Files : index["live"][p[1]] = p[2] => cover'[p] = "absent" \/ p \in stuck'
  <2>1. Keeps(index["live"], CoverId, stuck')
    BY FilesKept
  <2>2. \A p \in Files : p[1] \in CoverId
    BY ImageFacts
  <2> HIDE DEF Files
  <2> QED BY <1>1, <2>1, <2>2 DEF Keeps
<1>6. CoverInv'
  BY <1>1, <1>2, <1>3, <1>4, <1>5, CoverFacts DEF CoverInv, CoverTypes, InForce
<1>7. ASSUME NEW p \in Files
      PROVE  (ComesTorn(p) => TornByReading(p)) /\ (Forgotten(p) => Replaced(p))
  BY <1>1, <1>5, ImageFacts, CoverFacts DEF ComesTorn, Forgotten, Replaced
<1> QED BY <1>6, <1>7 DEF ImagesFollow

\* The process ends, perhaps with an image half written.
LEMMA RestartStep == ASSUME CoverInv, Restart PROVE CoverInv' /\ ImagesFollow
<1>1. /\ loaded' = FALSE /\ oldHeld' = FALSE /\ unsaved' = FALSE /\ foreign' = FALSE /\ stuck' = {}
      /\ index' = [i \in {"live", "old"} |-> EmptyIndex]
      /\ fetch' = [f \in CoverFetch |-> NotFetching] /\ UNCHANGED indexFile
  BY DEF Restart
<1>2. cover' \in [Files -> {"absent", "whole", "torn"}]
  <2>1. CASE UNCHANGED cover
    BY <2>1 DEF CoverInv, CoverTypes
  <2>2. ASSUME NEW f \in CoverFetch, NEW x \in CoverExt, NEW state \in {"whole", "torn"},
               ~Idle(f), cover' = [cover EXCEPT ![<<fetch[f].id, x>>] = state]
        PROVE  cover' \in [Files -> {"absent", "whole", "torn"}]
    BY <2>2 DEF CoverInv, CoverTypes
  <2> QED BY <2>1, <2>2 DEF Restart
<1>3. CoverInv'
  BY <1>1, <1>2, CoverFacts DEF CoverInv, CoverTypes, InForce
<1>4. ASSUME NEW p \in Files
      PROVE  (ComesTorn(p) => TornByReading(p)) /\ (Forgotten(p) => Replaced(p))
  BY <1>1, ImageFacts, CoverFacts DEF ComesTorn, Replaced
<1> QED BY <1>3, <1>4 DEF ImagesFollow

\* Every step.
LEMMA CoverStep == ASSUME CoverInv, CoverNext PROVE CoverInv' /\ ImagesFollow
<1>1. ASSUME NEW f \in CoverFetch, NEW c \in CoverId,
             \/ LookupHit(f, c) \/ LookupDrops(f, c) \/ LookupPasses(f, c)
             \/ LookupMisses(f, c) \/ LookupEmpties(f, c)
      PROVE  CoverInv' /\ ImagesFollow
  BY <1>1, HitStep, DropStep, MissStep, EmptiesStep
<1>2. ASSUME NEW f \in CoverFetch, NEW x \in CoverExt, PutCover(f, x) \/ PutFails(f, x)
      PROVE  CoverInv' /\ ImagesFollow
  BY <1>2, PutStep, PutFailsStep
<1>3. ASSUME NEW f \in CoverFetch, PutNegative(f) \/ FetchGivesUp(f)
      PROVE  CoverInv' /\ ImagesFollow
  BY <1>3, NegativeStep, GivesUpStep
<1> QED BY <1>1, <1>2, <1>3, LoadStep, ClearCoversStep, RestartStep DEF CoverNext

\* Nothing is cached and nobody fetches at first.
LEMMA CoverInitInv == ASSUME CoverInit PROVE CoverInv
<1>1. CoverTypes
  BY CoverFacts DEF CoverInit, CoverTypes
<1>2. InForce
  BY CoverFacts DEF CoverInit, InForce
<1> QED BY <1>1, <1>2 DEF CoverInv

\* The live index is what its file says, but for failed saves and the old instance's.
THEOREM CoverInvariant == CoverSpec => []CoverInv
<1>1. CoverInit => CoverInv
  BY CoverInitInv
<1>2. CoverInv /\ [CoverNext]_coverVars => CoverInv'
  <2>1. CASE CoverInv /\ UNCHANGED coverVars
    BY <2>1 DEF coverVars, CoverInv, CoverTypes, InForce
  <2> QED BY <2>1, CoverStep
<1> QED BY <1>1, <1>2, PTL DEF CoverSpec

\* The types of the index, the files and the fetches; whoever fetches for an instance keeps it.
THEOREM CoverTyped == CoverSpec => []CoverTypeOK
<1>1. CoverInv => CoverTypeOK
  BY DEF CoverInv, CoverTypes, InForce, CoverTypeOK, IndexState
<1> QED BY <1>1, CoverInvariant, PTL

\* Whatever covers and types are looked up, stored, evicted and cleared, a truncated image
\* comes into the live index, and a whole one is lost to it, only in the cases the property
\* names.
THEOREM CoverIndexMatchesFiles == CoverSpec => IndexMatchesFiles
<1> DEFINE TornStep == \A p \in Files : ComesTorn(p) => TornByReading(p)
           ForgetsStep == \A p \in Files : Forgotten(p) => Replaced(p)
<1>1. CoverInv /\ [CoverNext]_coverVars => [TornStep]_coverVars /\ [ForgetsStep]_coverVars
  BY CoverStep DEF ImagesFollow
<1>2. TornIsNotIndexed <=> [][TornStep]_coverVars
  BY DEF TornIsNotIndexed, ComesTorn, TornByReading
<1>3. FilesGoWithEntries <=> [][ForgetsStep]_coverVars
  BY DEF FilesGoWithEntries, Forgotten, Replaced
<1> QED BY <1>1, <1>2, <1>3, CoverInvariant, PTL DEF CoverSpec, IndexMatchesFiles

-----------------------------------------------------------------------------
(* BookTargets *)

(***************************************************************************)
(* The inductive invariant: types, and that a view which is wrong is       *)
(* blamed or about to be dropped.  A request that changes the shelf drops  *)
(* what it changes, as far as the state it read is Hardcover's still.      *)
(***************************************************************************)
TargetRunType ==
  [pc : {"idle", "found", "query", "resolve", "answered", "state", "change", "drop"},
   key : ViewKey, answer : {"none", "yes", "no"}, slug : UserList \cup {NoTarget},
   target : Target \cup {NoTarget}, selected : BOOLEAN, status : BookStatus \cup {NoTarget},
   lists : SUBSET UserList, drop : SUBSET ViewKey]
TargetTypes ==
  /\ onStatus \in BookStatus \cup {NoTarget} /\ onLists \subseteq UserList
  /\ views \in [ViewKey -> {"none", "yes", "no"}] /\ blamed \subseteq Cached
  /\ trun \in [TargetRun -> TargetRunType]
  /\ puts \in 0..PutLimit /\ gets \in 0..GetLimit
RunsFit ==
  \A r \in TargetRun :
    /\ TargetAt(r, "found") \/ TargetAt(r, "answered") => trun[r].answer # "none"
    /\ TargetAt(r, "resolve") => trun[r].slug # NoTarget
    /\ TargetAt(r, "state") \/ TargetAt(r, "change") => trun[r].target # NoTarget
Bounded == IsFiniteSet(Cached) /\ Cardinality(Cached) <= CacheLimit
TargetInv == TargetTypes /\ RunsFit /\ Bounded /\ StaleOnlyByRace

\* The views, and a request that does nothing.
LEMMA TargetFacts ==
  /\ OptionsView \in ViewKey /\ \A t \in Target : TargetView(t) \in ViewKey /\ TargetView(t)[2] = t
  /\ \A l \in UserList : SlugView(l) \in ViewKey
  /\ \A k \in {"target"} \X Target : k = TargetView(k[2]) /\ k[2] \in Target /\ k # OptionsView
  /\ IdleTargetRun \in TargetRunType /\ IdleTargetRun.pc = "idle" /\ IdleTargetRun.target = NoTarget
  /\ BookStatus \subseteq Target /\ UserList \subseteq Target /\ NoTarget \notin Target
  /\ \A k \in ViewKey : Truth(k) \in {"yes", "no"}
BY TargetAssumption DEF TargetAssumption, OptionsView, ViewKey, TargetView, SlugView, Target,
  IdleTargetRun, TargetRunType, Truth

\* A step of one request that leaves the shelf and the cache alone, unless it stops to drop.
LEMMA TargetRunMoves ==
  ASSUME TargetInv, NEW r \in TargetRun, NEW c \in TargetRunType, Becoming(r, c),
         UNCHANGED <<onStatus, onLists, views, blamed>>, puts' \in 0..PutLimit, gets' \in 0..GetLimit,
         c.pc \in {"found", "answered"} => c.answer # "none",
         c.pc = "resolve" => c.slug # NoTarget,
         c.pc \in {"state", "change"} => c.target # NoTarget,
         ~TargetAt(r, "drop")
  PROVE  TargetInv'
<1>1. TargetTypes /\ RunsFit /\ Bounded /\ StaleOnlyByRace
  BY DEF TargetInv
<1>2. trun' \in [TargetRun -> TargetRunType] /\ trun'[r] = c /\ \A q \in TargetRun \ {r} : trun'[q] = trun[q]
  BY <1>1 DEF TargetTypes, Becoming
<1>3. Cached' = Cached
  BY DEF Cached
<1>4. TargetTypes'
  BY <1>1, <1>2, <1>3 DEF TargetTypes
<1>5. RunsFit'
  BY <1>1, <1>2 DEF RunsFit, TargetAt
<1>6. Bounded'
  BY <1>1, <1>3 DEF Bounded
<1>7. StaleOnlyByRace'
  <2> SUFFICES ASSUME NEW k \in Cached \cap ({"target"} \X Target), views[k] # Truth(k)', k \notin blamed
               PROVE  \E q \in TargetRun : TargetAt(q, "drop")' /\ k \in trun'[q].drop
    BY <1>3 DEF StaleOnlyByRace
  <2>1. Truth(k)' = Truth(k)
    BY DEF Truth, Holds
  <2>2. PICK q \in TargetRun : TargetAt(q, "drop") /\ k \in trun[q].drop
    BY <1>1, <2>1 DEF StaleOnlyByRace
  <2>3. q # r
    BY <2>2
  <2> QED BY <1>2, <2>2, <2>3 DEF TargetAt
<1> QED BY <1>4, <1>5, <1>6, <1>7 DEF TargetInv

\* A view that is cached says something.
LEMMA CachedSays == ASSUME TargetInv, NEW k \in Cached PROVE k \in ViewKey /\ views[k] \in {"yes", "no"}
BY DEF Cached, TargetInv, TargetTypes

\* What a request is, and which fields it may change.
LEMMA TargetRunFields ==
  ASSUME TargetInv, NEW r \in TargetRun
  PROVE  /\ trun[r] \in TargetRunType
         /\ puts \in 0..PutLimit /\ gets \in 0..GetLimit
         /\ gets < GetLimit => gets + 1 \in 0..GetLimit
         /\ puts < PutLimit => puts + 1 \in 0..PutLimit
BY TargetAssumption DEF TargetAssumption, TargetInv, TargetTypes

\* A look into the cache finds the view or asks for it.
LEMMA LooksUp ==
  ASSUME TargetInv, NEW r \in TargetRun, ~TargetAt(r, "drop"), NEW k \in ViewKey, NEW run \in TargetRunType,
         LookUp(r, k, NoTarget, run), run.slug = NoTarget,
         UNCHANGED <<onStatus, onLists, views, blamed>>, puts' \in 0..PutLimit, gets' \in 0..GetLimit
  PROVE  TargetInv'
<1>1. CASE k \in Cached
  <2> DEFINE c == [run EXCEPT !.pc = "found", !.key = k, !.answer = views[k]]
  <2>1. Becoming(r, c)
    BY <1>1 DEF LookUp
  <2>2. c \in TargetRunType /\ c.pc = "found" /\ c.answer # "none"
    BY <1>1, CachedSays DEF TargetRunType
  <2> HIDE DEF c
  <2> QED BY <2>1, <2>2, TargetRunMoves
<1>2. CASE k \notin Cached
  <2> DEFINE c == [run EXCEPT !.pc = "query", !.key = k, !.slug = NoTarget]
  <2>1. Becoming(r, c)
    BY <1>2 DEF LookUp
  <2>2. c \in TargetRunType /\ c.pc = "query"
    BY DEF TargetRunType
  <2> HIDE DEF c
  <2> QED BY <2>1, <2>2, TargetRunMoves
<1> QED BY <1>1, <1>2

\* A look-up that does not know the user gets by without the cache.
LEMMA AsksNobody ==
  ASSUME TargetInv, NEW r \in TargetRun, ~TargetAt(r, "drop"), NEW k \in ViewKey, NEW run \in TargetRunType,
         WithoutUser(r, k, run),
         UNCHANGED <<onStatus, onLists, views, blamed>>, puts' \in 0..PutLimit, gets' \in 0..GetLimit
  PROVE  TargetInv'
<1>1. PICK told \in {"yes", "no"} : Becoming(r, [run EXCEPT !.pc = "found", !.key = k, !.answer = told])
  BY DEF WithoutUser
<1> DEFINE c == [run EXCEPT !.pc = "found", !.key = k, !.answer = told]
<1>2. c \in TargetRunType /\ c.pc = "found" /\ c.answer # "none"
  BY DEF TargetRunType
<1>3. Becoming(r, c)
  BY <1>1
<1> HIDE DEF c
<1> QED BY <1>2, <1>3, TargetRunMoves

\* A view is read, by id or by slug.
LEMMA ReadSteps ==
  ASSUME TargetInv, NEW r \in TargetRun,
         \/ \E k \in ViewKey \ ({"slug"} \X UserList) : ReadView(r, k)
         \/ \E l \in UserList : ReadSlug(r, l)
  PROVE  TargetInv'
<1>1. ASSUME NEW k \in ViewKey, ReadView(r, k) PROVE TargetInv'
  <2>1. /\ LookUp(r, k, NoTarget, IdleTargetRun) \/ WithoutUser(r, k, IdleTargetRun)
        /\ ~TargetAt(r, "drop")
        /\ UNCHANGED <<onStatus, onLists, views, blamed>> /\ puts' \in 0..PutLimit /\ gets' \in 0..GetLimit
    BY <1>1, TargetRunFields DEF ReadView, TargetAt, remoteShelf
  <2>2. IdleTargetRun \in TargetRunType /\ IdleTargetRun.slug = NoTarget
    BY TargetFacts DEF IdleTargetRun
  <2> QED BY <2>1, <2>2, LooksUp, AsksNobody
<1>2. ASSUME NEW l \in UserList, ReadSlug(r, l) PROVE TargetInv'
  <2>1. /\ ~TargetAt(r, "drop") /\ UNCHANGED <<onStatus, onLists, views, blamed>>
        /\ puts' \in 0..PutLimit /\ gets' \in 0..GetLimit
    BY <1>2, TargetRunFields DEF ReadSlug, TargetAt, remoteShelf
  <2>2. CASE SlugView(l) \in Cached
    <3> DEFINE c == [IdleTargetRun EXCEPT !.pc = "found", !.key = SlugView(l), !.answer = views[SlugView(l)]]
    <3>1. Becoming(r, c)
      BY <1>2, <2>2 DEF ReadSlug
    <3>2. c \in TargetRunType /\ c.pc = "found" /\ c.answer # "none"
      BY <2>2, CachedSays, TargetFacts DEF TargetRunType
    <3> HIDE DEF c
    <3> QED BY <2>1, <3>1, <3>2, TargetRunMoves
  <2>3. CASE SlugView(l) \notin Cached
    <3> DEFINE c == [IdleTargetRun EXCEPT !.pc = "resolve", !.slug = l]
    <3>1. Becoming(r, c)
      BY <1>2, <2>3 DEF ReadSlug
    <3>2. c \in TargetRunType /\ c.pc = "resolve" /\ c.slug # NoTarget
      BY TargetFacts DEF TargetRunType
    <3> HIDE DEF c
    <3> QED BY <2>1, <3>1, <3>2, TargetRunMoves
  <2> QED BY <2>2, <2>3
<1> QED BY <1>1, <1>2

\* A slug is resolved, and the view by id asked for.
LEMMA SlugStep == ASSUME TargetInv, NEW r \in TargetRun, SlugResolved(r) PROVE TargetInv'
<1> DEFINE l == trun[r].slug
           a == [trun[r] EXCEPT !.pc = "answered", !.key = SlugView(l), !.answer = views[TargetView(l)], !.slug = NoTarget]
           b == [trun[r] EXCEPT !.pc = "query", !.key = TargetView(l)]
           c == [trun[r] EXCEPT !.pc = "answered", !.key = SlugView(l), !.answer = "no", !.slug = NoTarget]
<1>1. /\ TargetAt(r, "resolve") /\ ~TargetAt(r, "drop")
      /\ UNCHANGED <<onStatus, onLists, views, blamed>> /\ puts' \in 0..PutLimit /\ gets' \in 0..GetLimit
  BY TargetRunFields DEF SlugResolved, TargetAt, remoteShelf
<1>2. trun[r] \in TargetRunType /\ l \in UserList
  BY <1>1, TargetRunFields DEF TargetInv, RunsFit, TargetRunType
<1>3. \/ TargetView(l) \in Cached /\ Becoming(r, a)
      \/ Becoming(r, b)
      \/ Becoming(r, c)
  BY DEF SlugResolved
<1>4. TargetView(l) \in Cached => a \in TargetRunType /\ a.pc = "answered" /\ a.answer # "none"
  BY <1>2, CachedSays, TargetFacts DEF TargetRunType
<1>5. b \in TargetRunType /\ b.pc = "query" /\ c \in TargetRunType /\ c.pc = "answered" /\ c.answer # "none"
  BY <1>2, TargetFacts DEF TargetRunType
<1> HIDE DEF l, a, b, c
<1> QED BY <1>1, <1>3, <1>4, <1>5, TargetRunMoves

\* Hardcover answers.
LEMMA AnswerStep == ASSUME TargetInv, NEW r \in TargetRun, QueryAnswered(r) PROVE TargetInv'
<1>1. /\ TargetAt(r, "query") /\ ~TargetAt(r, "drop")
      /\ UNCHANGED <<onStatus, onLists, views, blamed>> /\ puts' \in 0..PutLimit /\ gets' \in 0..GetLimit
  BY TargetRunFields DEF QueryAnswered, TargetAt, remoteShelf
<1>2. trun[r] \in TargetRunType
  BY TargetRunFields
<1>3. PICK told \in {Truth(trun[r].key), "no"} :
        Becoming(r, [trun[r] EXCEPT !.pc = "answered", !.answer = told])
  BY DEF QueryAnswered
<1>4. told \in {"yes", "no"}
  BY <1>2, TargetFacts DEF TargetRunType
<1> DEFINE c == [trun[r] EXCEPT !.pc = "answered", !.answer = told]
<1>5. c \in TargetRunType /\ c.pc = "answered" /\ c.answer # "none"
  BY <1>2, <1>4 DEF TargetRunType
<1>6. Becoming(r, c)
  BY <1>3
<1> HIDE DEF c
<1> QED BY <1>1, <1>5, <1>6, TargetRunMoves

\* A request ends, learns the targets or the state, or finds nothing to change.
LEMMA QuietSteps ==
  ASSUME TargetInv, NEW r \in TargetRun,
         \/ ReadDone(r) \/ OptionsKnown(r) \/ StateRead(r) \/ NothingToChange(r)
         \/ \E t \in Target, on \in BOOLEAN : SetTarget(r, t, on)
  PROVE  TargetInv'
<1>1. trun[r] \in TargetRunType
  BY TargetRunFields
<1>2. ASSUME ~TargetAt(r, "drop"), Becoming(r, IdleTargetRun), UNCHANGED <<onStatus, onLists, views, blamed>>,
             puts' \in 0..PutLimit, gets' \in 0..GetLimit
      PROVE  TargetInv'
  BY <1>2, TargetRunMoves, TargetFacts
<1>3. CASE ReadDone(r) \/ NothingToChange(r)
  BY <1>2, <1>3, TargetRunFields DEF ReadDone, NothingToChange, TargetAt, remoteShelf
<1>4. CASE OptionsKnown(r)
  <2> DEFINE c == [trun[r] EXCEPT !.pc = "state"]
  <2>1. /\ ~TargetAt(r, "drop") /\ UNCHANGED <<onStatus, onLists, views, blamed>> /\ trun[r].target # NoTarget
        /\ puts' \in 0..PutLimit /\ gets' \in 0..GetLimit /\ (Becoming(r, IdleTargetRun) \/ Becoming(r, c))
    BY <1>4, TargetRunFields DEF OptionsKnown, TargetAt, remoteShelf
  <2>2. c \in TargetRunType /\ c.pc = "state" /\ c.target = trun[r].target
    BY <1>1 DEF TargetRunType
  <2> HIDE DEF c
  <2> QED BY <1>2, <2>1, <2>2, TargetRunMoves
<1>5. CASE StateRead(r)
  <2> DEFINE c == [trun[r] EXCEPT !.pc = "change", !.status = onStatus, !.lists = onLists]
  <2>1. /\ TargetAt(r, "state") /\ ~TargetAt(r, "drop") /\ UNCHANGED <<onStatus, onLists, views, blamed>>
        /\ puts' \in 0..PutLimit /\ gets' \in 0..GetLimit /\ (Becoming(r, IdleTargetRun) \/ Becoming(r, c))
    BY <1>5, TargetRunFields DEF StateRead, TargetAt, remoteShelf
  <2>2. trun[r].target # NoTarget
    BY <2>1 DEF TargetInv, RunsFit
  <2>3. c \in TargetRunType /\ c.pc = "change" /\ c.target = trun[r].target
    BY <1>1 DEF TargetRunType, TargetInv, TargetTypes
  <2> HIDE DEF c
  <2> QED BY <1>2, <2>1, <2>2, <2>3, TargetRunMoves
<1>6. ASSUME NEW t \in Target, NEW on \in BOOLEAN, SetTarget(r, t, on) PROVE TargetInv'
  <2> DEFINE c == [IdleTargetRun EXCEPT !.target = t, !.selected = on]
  <2>1. /\ ~TargetAt(r, "drop") /\ UNCHANGED <<onStatus, onLists, views, blamed>>
        /\ puts' \in 0..PutLimit /\ gets' \in 0..GetLimit
        /\ LookUp(r, OptionsView, NoTarget, c) \/ WithoutUser(r, OptionsView, c)
    BY <1>6, TargetRunFields DEF SetTarget, TargetAt, remoteShelf
  <2>2. c \in TargetRunType /\ c.slug = NoTarget
    BY TargetFacts DEF TargetRunType, IdleTargetRun
  <2> HIDE DEF c
  <2> QED BY <2>1, <2>2, LooksUp, AsksNobody, TargetFacts
<1> QED BY <1>3, <1>4, <1>5, <1>6

\* What is stored is what the cache says then, nothing else is added, and the limit holds.
LEMMA StoresWithin ==
  ASSUME TargetTypes, Bounded, NEW k \in ViewKey, NEW v \in {"yes", "no"}, Stored(k, v)
  PROVE  /\ views' \in [ViewKey -> {"none", "yes", "no"}] /\ views'[k] = v
         /\ \A x \in ViewKey \ {k} : views'[x] = views[x] \/ views'[x] = "none"
         /\ Bounded'
<1>1. views \in [ViewKey -> {"none", "yes", "no"}] /\ IsFiniteSet(Cached) /\ Cardinality(Cached) <= CacheLimit
  BY DEF TargetTypes, Bounded
<1>2. Cardinality(Cached) \in Nat /\ CacheLimit \in Nat \ {0}
  BY <1>1, FS_CardinalityType, TargetAssumption DEF TargetAssumption
<1>3. CASE Cardinality(Cached) < CacheLimit /\ views' = [views EXCEPT ![k] = v]
  <2>1. Cached' = Cached \cup {k}
    BY <1>1, <1>3 DEF Cached
  <2>2. IsFiniteSet(Cached \cup {k}) /\ Cardinality(Cached \cup {k}) <= Cardinality(Cached) + 1
    BY <1>1, <1>2, FS_AddElement
  <2>3. Bounded'
    BY <1>2, <1>3, <2>1, <2>2, FS_CardinalityType DEF Bounded
  <2> QED BY <1>1, <1>3, <2>3
<1>4. ASSUME NEW g \in Cached,
             views' = [x \in ViewKey |-> IF x = k THEN v ELSE IF x \in {g} THEN "none" ELSE views[x]]
      PROVE  /\ views' \in [ViewKey -> {"none", "yes", "no"}] /\ views'[k] = v
             /\ \A x \in ViewKey \ {k} : views'[x] = views[x] \/ views'[x] = "none"
             /\ Bounded'
  <2>1. Cached' = (Cached \ {g}) \cup {k}
    BY <1>1, <1>4 DEF Cached
  <2>2. IsFiniteSet(Cached \ {g}) /\ Cardinality(Cached \ {g}) = Cardinality(Cached) - 1
    BY <1>1, FS_RemoveElement
  <2>3. /\ IsFiniteSet((Cached \ {g}) \cup {k})
        /\ Cardinality((Cached \ {g}) \cup {k}) <= Cardinality(Cached \ {g}) + 1
    BY <1>2, <2>2, FS_AddElement
  <2>4. Bounded'
    BY <1>1, <1>2, <2>1, <2>2, <2>3, FS_CardinalityType DEF Bounded
  <2> QED BY <1>1, <1>4, <2>4
<1>5. \/ Cardinality(Cached) < CacheLimit /\ views' = [views EXCEPT ![k] = v]
      \/ \E g \in Cached :
           views' = [x \in ViewKey |-> IF x = k THEN v ELSE IF x \in {g} THEN "none" ELSE views[x]]
  BY DEF Stored, Evicted
<1> QED BY <1>3, <1>4, <1>5

\* An answer is stored: what it gets wrong is blamed on it.
LEMMA StoreStep == ASSUME TargetInv, NEW r \in TargetRun, StoreAnswer(r) PROVE TargetInv'
<1> DEFINE key == trun[r].key
           v == trun[r].answer
           b == [trun[r] EXCEPT !.pc = "found"]
           c == [trun[r] EXCEPT !.key = SlugView(trun[r].slug), !.slug = NoTarget]
<1>1. /\ TargetTypes /\ RunsFit /\ Bounded /\ StaleOnlyByRace /\ trun[r] \in TargetRunType
  BY TargetRunFields DEF TargetInv
<1>2. TargetAt(r, "answered") /\ Stored(key, v) /\ UNCHANGED <<onStatus, onLists, puts, gets>>
  BY DEF StoreAnswer, StoreView, remoteShelf
<1>3. blamed' = {x \in blamed \cup {key} : x # OptionsView /\ views'[x] \notin {"none", Truth(x)}}
  BY DEF StoreAnswer, StoreView
<1>4. key \in ViewKey /\ v \in {"yes", "no"}
  BY <1>1, <1>2 DEF RunsFit, TargetRunType
<1>5. /\ views' \in [ViewKey -> {"none", "yes", "no"}] /\ views'[key] = v
      /\ \A x \in ViewKey \ {key} : views'[x] = views[x] \/ views'[x] = "none"
      /\ Bounded'
  BY <1>1, <1>2, <1>4, StoresWithin
<1>6. \/ trun[r].slug = NoTarget /\ Becoming(r, b)
      \/ trun[r].slug # NoTarget /\ Becoming(r, c)
  BY DEF StoreAnswer
<1>7. /\ b \in TargetRunType /\ b.pc = "found" /\ b.answer # "none"
      /\ trun[r].slug # NoTarget => c \in TargetRunType /\ c.pc = "answered" /\ c.answer # "none"
  BY <1>1, <1>2, <1>4, TargetFacts DEF TargetRunType, TargetAt
<1> HIDE DEF b, c
<1>8. PICK d \in TargetRunType : Becoming(r, d) /\ d.pc \in {"found", "answered"} /\ d.answer # "none"
  BY <1>6, <1>7
<1>9. trun' \in [TargetRun -> TargetRunType] /\ trun'[r] = d /\ \A q \in TargetRun \ {r} : trun'[q] = trun[q]
  BY <1>1, <1>8 DEF TargetTypes, Becoming
<1> HIDE DEF key, v
<1>10. TargetTypes'
  <2>1. blamed' \subseteq Cached'
    BY <1>1, <1>3, <1>4 DEF TargetTypes, Cached
  <2> QED BY <1>1, <1>2, <1>5, <1>9, <2>1 DEF TargetTypes
<1>11. RunsFit'
  BY <1>1, <1>8, <1>9 DEF RunsFit, TargetAt
<1>12. StaleOnlyByRace'
  <2> SUFFICES ASSUME NEW k \in Cached' \cap ({"target"} \X Target), views'[k] # Truth(k)', k \notin blamed'
               PROVE  \E q \in TargetRun : TargetAt(q, "drop")' /\ k \in trun'[q].drop
    BY DEF StaleOnlyByRace
  <2>1. Truth(k)' = Truth(k) /\ k \in ViewKey /\ views'[k] # "none" /\ k # OptionsView
    BY <1>2, TargetFacts DEF Truth, Holds, Cached
  <2>2. k # key /\ k \notin blamed
    BY <1>3, <2>1
  <2>3. views[k] = views'[k] /\ k \in Cached
    BY <1>5, <2>1, <2>2 DEF Cached
  <2>4. PICK q \in TargetRun : TargetAt(q, "drop") /\ k \in trun[q].drop
    BY <1>1, <2>1, <2>2, <2>3 DEF StaleOnlyByRace
  <2>5. q # r
    BY <1>2, <2>4 DEF TargetAt
  <2> QED BY <1>9, <2>4, <2>5 DEF TargetAt
<1> QED BY <1>5, <1>10, <1>11, <1>12 DEF TargetInv

\* What a view that disagrees with Hardcover is: a wrong one.
LEMMA DisagreesIsWrong ==
  ASSUME TargetInv, NEW k \in Cached \cap ({"target"} \X Target), views[k] # Truth(k)'
  PROVE  k \in Wrong(onStatus', onLists')
<1>1. k # OptionsView /\ views[k] \in {"yes", "no"}
  BY CachedSays, TargetFacts
<1>2. CASE Holds(onStatus', onLists', k[2])
  <2>1. Truth(k)' = "yes"
    BY <1>2 DEF Truth
  <2> QED BY <1>1, <1>2, <2>1 DEF Wrong
<1>3. CASE ~Holds(onStatus', onLists', k[2])
  <2>1. Truth(k)' = "no"
    BY <1>1, <1>3 DEF Truth
  <2>2. views[k] = "yes"
    BY <1>1, <2>1
  <2> QED BY <1>1, <1>3, <2>2 DEF Wrong
<1> QED BY <1>2, <1>3

\* Views go: one that expires, or those a change has touched; what ought to go and stays
\* is blamed when it is wrong.
LEMMA ViewsGo ==
  ASSUME TargetInv, NEW gone \in SUBSET ViewKey, NEW stay \in SUBSET ViewKey,
         views' = [k \in ViewKey |-> IF k \in gone THEN "none" ELSE views[k]],
         blamed' = (blamed \ gone) \cup ((stay \ gone) \cap Wrong(onStatus, onLists)),
         UNCHANGED <<onStatus, onLists>>, puts' \in 0..PutLimit, gets' \in 0..GetLimit,
         trun' \in [TargetRun -> TargetRunType],
         \A q \in TargetRun : trun'[q] = trun[q] \/ trun'[q] = IdleTargetRun,
         \A q \in TargetRun : trun'[q] # trun[q] /\ TargetAt(q, "drop") => trun[q].drop \subseteq stay
  PROVE  TargetInv'
<1>1. TargetTypes /\ RunsFit /\ Bounded /\ StaleOnlyByRace
  BY DEF TargetInv
<1>2. Cached' = Cached \ gone
  BY <1>1 DEF TargetTypes, Cached
<1>3. TargetTypes'
  <2>1. views' \in [ViewKey -> {"none", "yes", "no"}]
    BY <1>1 DEF TargetTypes
  <2>2. blamed' \subseteq Cached'
    BY <1>1, <1>2 DEF TargetTypes, Wrong
  <2> QED BY <1>1, <2>1, <2>2 DEF TargetTypes
<1>4. RunsFit'
  BY <1>1, TargetFacts DEF RunsFit, TargetAt
<1>5. Bounded'
  <2>1. /\ IsFiniteSet(Cached') /\ Cardinality(Cached') <= Cardinality(Cached)
        /\ Cardinality(Cached) \in Nat /\ Cardinality(Cached') \in Nat
    BY <1>1, <1>2, FS_Subset, FS_CardinalityType DEF Bounded
  <2> QED BY <1>1, <2>1, TargetAssumption DEF Bounded, TargetAssumption
<1>6. StaleOnlyByRace'
  <2> SUFFICES ASSUME NEW k \in Cached' \cap ({"target"} \X Target), views'[k] # Truth(k)', k \notin blamed'
               PROVE  \E q \in TargetRun : TargetAt(q, "drop")' /\ k \in trun'[q].drop
    BY DEF StaleOnlyByRace
  <2>1. Truth(k)' = Truth(k) /\ k \in Cached /\ k \notin gone /\ k \notin blamed
    BY <1>2 DEF Truth, Holds
  <2>2. views'[k] = views[k]
    BY <2>1 DEF Cached
  <2>3. PICK q \in TargetRun : TargetAt(q, "drop") /\ k \in trun[q].drop
    BY <1>1, <2>1, <2>2 DEF StaleOnlyByRace
  <2>4. k \in Wrong(onStatus', onLists') /\ Wrong(onStatus', onLists') = Wrong(onStatus, onLists)
    BY <2>1, <2>2, DisagreesIsWrong
  <2>5. k \notin stay
    BY <2>1, <2>4
  <2>6. trun'[q] = trun[q]
    BY <2>3, <2>5
  <2> QED BY <2>3, <2>6 DEF TargetAt
<1> QED BY <1>3, <1>4, <1>5, <1>6 DEF TargetInv

\* A view expires, or a request drops the views its change has touched.
LEMMA DropSteps ==
  ASSUME TargetInv, (\E k \in ViewKey : Expires(k)) \/ (\E r \in TargetRun : Invalidate(r))
  PROVE  TargetInv'
<1>1. TargetTypes
  BY DEF TargetInv
<1>2. ASSUME NEW k \in ViewKey, Expires(k) PROVE TargetInv'
  <2>1. /\ views' = [views EXCEPT ![k] = "none"] /\ blamed' = blamed \ {k}
        /\ UNCHANGED <<onStatus, onLists, trun, puts, gets>>
    BY <1>2 DEF Expires
  <2>2. /\ views' = [x \in ViewKey |-> IF x \in {k} THEN "none" ELSE views[x]]
        /\ blamed' = (blamed \ {k}) \cup (({k} \ {k}) \cap Wrong(onStatus, onLists))
    BY <1>1, <2>1 DEF TargetTypes
  <2>3. trun' \in [TargetRun -> TargetRunType] /\ puts' \in 0..PutLimit /\ gets' \in 0..GetLimit
    BY <1>1, <2>1 DEF TargetTypes
  <2>4. {k} \in SUBSET ViewKey /\ \A q \in TargetRun : trun'[q] = trun[q]
    BY <2>1
  <2> QED BY <2>1, <2>2, <2>3, <2>4, ViewsGo
<1>3. ASSUME NEW r \in TargetRun, Invalidate(r) PROVE TargetInv'
  <2>1. PICK gone \in {trun[r].drop, trun[r].drop \cap ({"target"} \X UserList)} :
          /\ views' = [k \in ViewKey |-> IF k \in gone THEN "none" ELSE views[k]]
          /\ blamed' = (blamed \ gone) \cup ((trun[r].drop \ gone) \cap Wrong(onStatus, onLists))
          /\ UNCHANGED <<onStatus, onLists, puts, gets>> /\ Becoming(r, IdleTargetRun)
    BY <1>3 DEF Invalidate, remoteShelf
  <2>2. /\ trun' \in [TargetRun -> TargetRunType] /\ puts' \in 0..PutLimit /\ gets' \in 0..GetLimit
        /\ trun'[r] = IdleTargetRun /\ \A q \in TargetRun \ {r} : trun'[q] = trun[q]
    BY <1>1, <2>1, TargetFacts DEF TargetTypes, Becoming
  <2>3. trun[r].drop \in SUBSET ViewKey /\ gone \in SUBSET ViewKey
    BY TargetRunFields DEF TargetRunType
  <2>4. \A q \in TargetRun : trun'[q] = trun[q] \/ trun'[q] = IdleTargetRun
    BY <2>2
  <2>5. \A q \in TargetRun : trun'[q] # trun[q] /\ TargetAt(q, "drop") => trun[q].drop \subseteq trun[r].drop
    BY <2>2
  <2> QED BY <2>1, <2>2, <2>3, <2>4, <2>5, ViewsGo
<1> QED BY <1>2, <1>3

\* A change that starts from Hardcover's own state touches every view it makes wrong.
LEMMA TouchedCovers ==
  ASSUME TargetInv, NEW r \in TargetRun, TargetAt(r, "change"), Changed(trun[r]),
         trun[r].status = onStatus, trun[r].lists = onLists,
         NEW k \in {"target"} \X Target, Holds(onStatus', onLists', k[2]) # Holds(onStatus, onLists, k[2])
  PROVE  k \in Touched(trun[r])
<1>1. k = TargetView(k[2]) /\ k[2] \in Target /\ k[2] # NoTarget
  BY TargetFacts
<1>2. trun[r].target \in Target
  BY TargetRunFields DEF TargetRunType, TargetInv, RunsFit
<1>3. CASE trun[r].target \in BookStatus
  <2>1. onLists' = onLists /\ onStatus' \in {trun[r].target, NoTarget}
    BY <1>3 DEF Changed
  <2>2. k[2] = onStatus \/ k[2] = onStatus'
    BY <2>1 DEF Holds
  <2>3. k[2] = trun[r].status \/ k[2] = trun[r].target
    BY <1>1, <2>1, <2>2
  <2> QED BY <1>1, <1>3, <2>3 DEF Touched
<1>4. CASE trun[r].target \notin BookStatus
  <2>1. onStatus' = onStatus /\ onLists' \in {onLists \cup {trun[r].target}, onLists \ {trun[r].target}}
    BY <1>4 DEF Changed
  <2>2. k[2] = trun[r].target
    BY <2>1 DEF Holds
  <2> QED BY <1>1, <2>2 DEF Touched
<1> QED BY <1>3, <1>4

\* A change that takes effect keeps the invariant when what it makes wrong is blamed, or
\* named by the request that is about to drop it.
LEMMA ChangeTakesEffect ==
  ASSUME TargetInv, NEW r \in TargetRun, TargetAt(r, "change"), Changed(trun[r]),
         NEW c \in TargetRunType, Becoming(r, c), c.pc \in {"idle", "drop"},
         UNCHANGED <<views, puts, gets>>, blamed' \subseteq Wrong(onStatus', onLists'),
         \A k \in Cached \cap ({"target"} \X Target) :
           k \in Wrong(onStatus', onLists') /\ k \in blamed => k \in blamed',
         \A k \in Cached \cap ({"target"} \X Target) :
           k \in Wrong(onStatus', onLists') /\ Holds(onStatus', onLists', k[2]) # Holds(onStatus, onLists, k[2])
             => k \in blamed' \/ (c.pc = "drop" /\ k \in c.drop)
  PROVE  TargetInv'
<1>1. TargetTypes /\ RunsFit /\ Bounded /\ StaleOnlyByRace /\ trun[r] \in TargetRunType
  BY TargetRunFields DEF TargetInv
<1>2. trun' \in [TargetRun -> TargetRunType] /\ trun'[r] = c /\ \A q \in TargetRun \ {r} : trun'[q] = trun[q]
  BY <1>1 DEF TargetTypes, Becoming
<1>3. Cached' = Cached
  BY DEF Cached
<1>4. onStatus' \in BookStatus \cup {NoTarget} /\ onLists' \subseteq UserList
  <2>1. trun[r].target \in Target
    BY <1>1 DEF RunsFit, TargetRunType
  <2> QED BY <1>1, <2>1 DEF Changed, Target, TargetTypes
<1>5. TargetTypes'
  <2>1. blamed' \subseteq Cached
    BY DEF Wrong
  <2> QED BY <1>1, <1>2, <1>3, <1>4, <2>1 DEF TargetTypes
<1>6. RunsFit'
  BY <1>1, <1>2 DEF RunsFit, TargetAt
<1>7. Bounded'
  BY <1>1, <1>3 DEF Bounded
<1>8. StaleOnlyByRace'
  <2> SUFFICES ASSUME NEW k \in Cached \cap ({"target"} \X Target), views[k] # Truth(k)', k \notin blamed'
               PROVE  \E q \in TargetRun : TargetAt(q, "drop")' /\ k \in trun'[q].drop
    BY <1>3 DEF StaleOnlyByRace
  <2>1. k \in Wrong(onStatus', onLists') /\ k # OptionsView
    BY DisagreesIsWrong, TargetFacts
  <2>2. CASE Holds(onStatus', onLists', k[2]) # Holds(onStatus, onLists, k[2])
    <3>1. c.pc = "drop" /\ k \in c.drop
      BY <2>1, <2>2
    <3> QED BY <1>2, <3>1 DEF TargetAt
  <2>3. CASE Holds(onStatus', onLists', k[2]) = Holds(onStatus, onLists, k[2])
    <3>1. Truth(k)' = Truth(k)
      BY <2>3 DEF Truth
    <3>2. k \notin blamed
      BY <2>1
    <3>3. PICK q \in TargetRun : TargetAt(q, "drop") /\ k \in trun[q].drop
      BY <1>1, <3>1, <3>2 DEF StaleOnlyByRace
    <3>4. q # r
      BY <3>3 DEF TargetAt
    <3> QED BY <1>2, <3>3, <3>4 DEF TargetAt
  <2> QED BY <2>2, <2>3
<1> QED BY <1>5, <1>6, <1>7, <1>8 DEF TargetInv

\* The shelf changes; the answer may be lost, or nothing may have been changed.
LEMMA MutateStep == ASSUME TargetInv, NEW r \in TargetRun, Mutate(r) PROVE TargetInv'
<1> DEFINE drop == Touched(trun[r])
           stale == trun[r].status # onStatus \/ trun[r].lists # onLists
           c == [trun[r] EXCEPT !.pc = "drop", !.drop = drop]
<1>1. TargetAt(r, "change") /\ UNCHANGED <<views, puts, gets>>
  BY DEF Mutate
<1>2. \/ /\ Changed(trun[r]) /\ Becoming(r, c)
         /\ blamed' = (blamed \cup IF stale THEN ViewKey \ drop ELSE {}) \cap Wrong(onStatus', onLists')
      \/ /\ Changed(trun[r]) /\ Becoming(r, IdleTargetRun)
         /\ blamed' = Wrong(onStatus', onLists')
      \/ /\ Becoming(r, IdleTargetRun) /\ UNCHANGED <<onStatus, onLists, blamed>>
  BY DEF Mutate, remoteShelf
<1>3. drop \in SUBSET ViewKey
  BY <1>1, TargetRunFields, TargetFacts DEF Touched, TargetRunType, TargetInv, RunsFit
<1>4. c \in TargetRunType /\ c.pc = "drop" /\ c.drop = drop
  BY <1>3, TargetRunFields DEF TargetRunType
<1>5. ASSUME Changed(trun[r]), ~stale, NEW k \in Cached \cap ({"target"} \X Target),
             Holds(onStatus', onLists', k[2]) # Holds(onStatus, onLists, k[2])
      PROVE  k \in drop
  BY <1>1, <1>5, TouchedCovers
<1> HIDE DEF c, drop, stale
<1>6. CASE /\ Changed(trun[r]) /\ Becoming(r, c)
           /\ blamed' = (blamed \cup IF stale THEN ViewKey \ drop ELSE {}) \cap Wrong(onStatus', onLists')
  <2>1. blamed' \subseteq Wrong(onStatus', onLists')
    BY <1>6
  <2>2. \A k \in Cached \cap ({"target"} \X Target) :
          k \in Wrong(onStatus', onLists') /\ k \in blamed => k \in blamed'
    BY <1>6
  <2>3. ASSUME NEW k \in Cached \cap ({"target"} \X Target), k \in Wrong(onStatus', onLists'),
               Holds(onStatus', onLists', k[2]) # Holds(onStatus, onLists, k[2])
        PROVE  k \in blamed' \/ (c.pc = "drop" /\ k \in c.drop)
    <3>1. k \in ViewKey
      BY CachedSays
    <3>2. CASE stale
      BY <1>4, <1>6, <2>3, <3>1, <3>2
    <3>3. CASE ~stale
      <4>1. k \in drop
        BY <1>5, <1>6, <2>3, <3>3
      <4> QED BY <1>4, <4>1
    <3> QED BY <3>2, <3>3
  <2> QED BY <1>1, <1>4, <1>6, <2>1, <2>2, <2>3, ChangeTakesEffect
<1>7. CASE Changed(trun[r]) /\ Becoming(r, IdleTargetRun) /\ blamed' = Wrong(onStatus', onLists')
  <2>1. IdleTargetRun \in TargetRunType /\ IdleTargetRun.pc \in {"idle", "drop"}
    BY TargetFacts
  <2>2. /\ blamed' \subseteq Wrong(onStatus', onLists')
        /\ \A k \in Cached \cap ({"target"} \X Target) :
             k \in Wrong(onStatus', onLists') /\ k \in blamed => k \in blamed'
    BY <1>7
  <2> QED BY <1>1, <1>7, <2>1, <2>2, ChangeTakesEffect
<1>8. CASE Becoming(r, IdleTargetRun) /\ UNCHANGED <<onStatus, onLists, blamed>>
  <2>1. puts' \in 0..PutLimit /\ gets' \in 0..GetLimit /\ ~TargetAt(r, "drop")
    BY <1>1, TargetRunFields DEF TargetAt
  <2> QED BY <1>1, <1>8, <2>1, TargetRunMoves, TargetFacts
<1> QED BY <1>2, <1>6, <1>7, <1>8

\* Nothing is cached at first.
LEMMA TargetInitInv == ASSUME TargetInit PROVE TargetInv
<1>1. Cached = {}
  BY DEF TargetInit, Cached
<1>2. Bounded
  BY <1>1, FS_EmptySet, TargetAssumption DEF Bounded, TargetAssumption
<1>3. TargetTypes
  BY <1>1, TargetFacts, TargetAssumption DEF TargetInit, TargetTypes, TargetAssumption
<1>4. RunsFit
  BY TargetFacts DEF TargetInit, RunsFit, TargetAt
<1>5. StaleOnlyByRace
  BY <1>1 DEF StaleOnlyByRace
<1> QED BY <1>2, <1>3, <1>4, <1>5 DEF TargetInv

\* The shelf's requests keep the cache within its limit, and know why a view is wrong.
THEOREM TargetInvariant == TargetSpec => []TargetInv
<1>1. TargetInit => TargetInv
  BY TargetInitInv
<1>2. TargetInv /\ [TargetNext]_targetVars => TargetInv'
  <2>1. CASE TargetInv /\ UNCHANGED targetVars
    BY <2>1 DEF targetVars, TargetInv, TargetTypes, RunsFit, Bounded, StaleOnlyByRace, Cached, Truth, Holds, TargetAt
  <2>2. CASE TargetInv /\ TargetNext
    BY <2>2, DropSteps, ReadSteps, QuietSteps, SlugStep, AnswerStep, StoreStep, MutateStep DEF TargetNext
  <2> QED BY <2>1, <2>2
<1> QED BY <1>1, <1>2, PTL DEF TargetSpec

\* The types of the shelf, the views and the requests' counts, and the cache's size limit: an
\* entry is evicted before one is added, whichever request adds it.
THEOREM TargetTyped == TargetSpec => []TargetTypeOK
<1>1. TargetInv => TargetTypeOK
  BY DEF TargetInv, TargetTypes, Bounded, TargetTypeOK
<1> QED BY <1>1, TargetInvariant, PTL

\* However many requests read and change the shelf, a cached view is wrong only for one of
\* the reasons the property names.
THEOREM TargetStaleOnlyByRace == TargetSpec => []StaleOnlyByRace
<1>1. TargetInv => StaleOnlyByRace
  BY DEF TargetInv
<1> QED BY <1>1, TargetInvariant, PTL

-----------------------------------------------------------------------------
(* MCFetching *)

(***************************************************************************)
(* Beside the others a component does what it does alone: a step is one of *)
(* a single component.                                                     *)
(***************************************************************************)
LEMMA FetchingRunsEach ==
  FetchingSpec => /\ QbtSpec /\ CoverSpec /\ TargetSpec
                  /\ []ClientInv /\ [][ExternalNext]_clientVars
                  /\ []IrcInv /\ [][IrcNext]_ircVars
<1>1. FetchingInit => QbtInit /\ CoverInit /\ TargetInit /\ ClientInv /\ IrcInv
  BY ClientInvInit, IrcInvInit DEF FetchingInit
<1>2. [FetchingNext]_FetchingVars => [QbtNext]_qbtVars
  BY DEF FetchingVars, FetchingNext, ExternalPart, IrcPart, TargetPart, CoverPart, QbtPart
<1>3. [FetchingNext]_FetchingVars => [CoverNext]_coverVars
  BY DEF FetchingVars, FetchingNext, ExternalPart, IrcPart, TargetPart, CoverPart, QbtPart
<1>4. [FetchingNext]_FetchingVars => [TargetNext]_targetVars
  BY DEF FetchingVars, FetchingNext, ExternalPart, IrcPart, TargetPart, CoverPart, QbtPart
<1>5. [FetchingNext]_FetchingVars => [ExternalNext]_clientVars
  BY DEF FetchingVars, FetchingNext, ExternalPart, IrcPart, TargetPart, CoverPart, QbtPart
<1>6. [FetchingNext]_FetchingVars => [IrcNext]_ircVars
  BY DEF FetchingVars, FetchingNext, ExternalPart, IrcPart, TargetPart, CoverPart, QbtPart
<1> QED BY <1>1, <1>2, <1>3, <1>4, <1>5, <1>6, ClientInvStep, IrcInvStep, PTL
  DEF FetchingSpec, QbtSpec, CoverSpec, TargetSpec

(***************************************************************************)
(* Every variable of the clients, the IRC connections, qBittorrent and the *)
(* caches keeps its type.                                                  *)
(***************************************************************************)
THEOREM FetchingTyped == FetchingSpec => []FetchingTypeOK
<1>1. ClientInv /\ IrcInv => ExternalTypeOK /\ IrcTypeOK BY DEF ClientInv, IrcInv
<1>2. ExternalTypeOK /\ IrcTypeOK /\ TargetTypeOK /\ CoverTypeOK /\ QbtTypeOK => FetchingTypeOK
  BY DEF FetchingTypeOK
<1> QED BY <1>1, <1>2, FetchingRunsEach, QbtTyped, CoverTyped, TargetTyped, PTL

(***************************************************************************)
(* What the run checks of the clients, the IRC connections, qBittorrent and*)
(* the shelf holds in a process that has them all.                         *)
(***************************************************************************)
THEOREM FetchingSafe ==
  FetchingSpec => [](/\ NoStrayDownload /\ FailedOnlyWhenFound /\ RegistrySound
                     /\ StaleOnlyByRace /\ AnswersAreTrue)
<1>1. ClientInv /\ IrcInv => NoStrayDownload /\ FailedOnlyWhenFound /\ RegistrySound
  BY ClientIsFollowed, ClientFindsFailed, IrcSound
<1> QED BY <1>1, FetchingRunsEach, QbtAnswersAreTrue, TargetStaleOnlyByRace, PTL

(***************************************************************************)
(* What the run checks of the steps: data is deleted, a connection is      *)
(* closed and an image is forgotten in the cases the properties name, in a *)
(* process that has the clients, the connections and the cache.            *)
(***************************************************************************)
THEOREM FetchingMoves == FetchingSpec => DataKept /\ DisconnectedByPeers /\ IndexMatchesFiles
<1> QED BY FetchingRunsEach, DataIsKept, OnlyPeersDisconnect, CoverIndexMatchesFiles, PTL
=============================================================================
