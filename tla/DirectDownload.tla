---- MODULE DirectDownload ----
\* A direct download (release_sources/direct_download.py): the cascade over sources
\* and their links, the resolution of a link, the transfer with its retries and
\* resumptions (download/http.py download_url), and the file staged under the book's
\* name, which a download of another edition may share, until it is delivered or, when
\* that fails, kept for a retry (download/orchestrator.py _download_task).  One download
\* is followed step by step, the rival by what it does to that file.
EXTENDS Lists

CONSTANTS
  DirectConfigs,    \* fast and slow source lists, the disabled ones, key and bypass
  NoSource,
  LinkCounts,       \* how many links a page may list
  FailureLimit,     \* _SOURCE_FAILURE_THRESHOLD
  TransferLimit,    \* MAX_DOWNLOAD_RETRIES
  ResumeLimit,      \* MAX_RESUME_ATTEMPTS
  CountdownLimit,   \* how many countdowns the recursion limit lets through
  BookPieces        \* a whole book; each piece is more than _MIN_VALID_FILE_SIZE

DirectSource == {"aa-fast", "libgen", "aa-slow-nowait", "aa-slow-wait", "welib", "zlib"}
BypassRequired == {"aa-slow-nowait", "aa-slow-wait", "zlib", "welib"}
AaPageSource == {"aa-slow-nowait", "aa-slow-wait"}

ASSUME DirectAssumption ==
  /\ \A c \in DirectConfigs :
       /\ c.fast \in Seq({"aa-fast", "libgen"})
       /\ c.slow \in Seq(DirectSource \ {"aa-fast", "libgen"})
       /\ c.off \subseteq DirectSource /\ c.key \in BOOLEAN /\ c.bypass \in BOOLEAN
  /\ NoSource \notin DirectSource /\ LinkCounts \subseteq Nat /\ 0 \in LinkCounts
  /\ {FailureLimit, TransferLimit, ResumeLimit, BookPieces} \subseteq Nat \ {0}
  /\ CountdownLimit \in Nat

VARIABLES
  direct,     \* the download
  staged,     \* what lies at its file name: "none", "part", "own" or "rival"
  stagedPath, \* task.staged_path names that file
  rival,      \* a download of another book of that name has staged its file
  crossed,    \* history: the rival changed the file after the download wrote it
  left        \* history: a delivery or a removal failed and left the file that lies there

directVars == <<direct, staged, stagedPath, rival, crossed, left>>

NoLinks == [s \in AaPageSource |-> 0]
NoDownload ==
  [pc |-> "idle", todo |-> <<>>, bypass |-> FALSE, source |-> NoSource, links |-> NoLinks,
   urls |-> 0, failed |-> 0, waits |-> 0, attempt |-> 0, resumes |-> 0, refreshed |-> FALSE,
   buffer |-> <<>>, from |-> 0, pos |-> 0, ok |-> FALSE, cancelled |-> FALSE,
   got |-> "nothing"]
DirectInit ==
  /\ direct = NoDownload /\ staged = "none" /\ stagedPath = FALSE /\ rival = FALSE
  /\ crossed = FALSE /\ left = FALSE

DirectAt(pc) == direct.pc = pc
DirectTo(pc) == [direct EXCEPT !.pc = pc]
FileAlone == UNCHANGED <<staged, stagedPath, rival, crossed, left>>
Becomes(d) == direct' = d /\ FileAlone
\* The file is removed, or an error of that is logged, or ends the handler, and it stays.
Removed ==
  \/ staged' = "none" /\ left' = FALSE
  \/ staged # "none" /\ staged' = staged /\ left' = TRUE

(* The cascade: _download_book. *)
\* _get_source_priority: fast sources first, without those that are not configured.
SourcePriority(c) ==
  Picked(c.fast, {i \in DOMAIN c.fast : c.fast[i] \notin c.off /\ (c.fast[i] = "aa-fast" => c.key)})
    \o Picked(c.slow, {i \in DOMAIN c.slow : c.slow[i] \notin c.off})
StartDirect(c) ==
  /\ DirectAt("idle")
  /\ direct' = [NoDownload EXCEPT !.pc = "source", !.todo = SourcePriority(c),
                                  !.bypass = c.bypass]
  /\ stagedPath' = FALSE /\ UNCHANGED <<staged, rival, crossed, left>>
\* A retry whose file lies there, whoever wrote it, downloads nothing.
RetryStaged ==
  /\ DirectAt("idle") /\ stagedPath /\ staged # "none"
  /\ Becomes([NoDownload EXCEPT !.pc = "reused", !.ok = TRUE])
CancelDirect ==
  /\ ~DirectAt("idle") /\ ~direct.cancelled /\ Becomes([direct EXCEPT !.cancelled = TRUE])

\* The links of a source: one by template where a mirror is configured, libgen's
\* mirrors, or from the book's page.
NextSource ==
  /\ DirectAt("source")
  /\ IF direct.cancelled \/ direct.todo = <<>> THEN Becomes(DirectTo("returned"))
     ELSE LET s == Head(direct.todo)
              d == [direct EXCEPT !.todo = Tail(@), !.source = s, !.failed = 0] IN
          \/ s \in BypassRequired /\ ~direct.bypass /\ Becomes(d)
          \/ /\ s \notin BypassRequired \/ direct.bypass
             /\ \/ s \in {"aa-fast", "zlib", "welib"} /\ Becomes([d EXCEPT !.pc = "url", !.urls = 1])
                \/ s \in {"zlib", "welib"} /\ Becomes(d)
                \/ /\ s = "libgen"
                   /\ \E n \in LinkCounts \ {0} : Becomes([d EXCEPT !.pc = "url", !.urls = n])
                \/ /\ s \in AaPageSource /\ d.links = NoLinks
                   /\ Becomes([d EXCEPT !.pc = "list"])
                \/ /\ s \in AaPageSource /\ d.links # NoLinks
                   /\ Becomes([d EXCEPT !.pc = "url", !.urls = d.links[s]])
\* The book's page lists the links of both slow sources and is asked for again only
\* while it has listed none.
ListLinks ==
  /\ DirectAt("list")
  /\ \E l \in [AaPageSource -> LinkCounts] :
       Becomes([direct EXCEPT !.pc = "url", !.links = l, !.urls = l[direct.source]])
NextLink ==
  /\ DirectAt("url")
  /\ Becomes(IF direct.cancelled THEN DirectTo("returned")
             ELSE IF direct.urls = 0 THEN DirectTo("source")
             ELSE [direct EXCEPT !.pc = "resolve", !.urls = @ - 1, !.waits = 0])
\* _try_download_url returned None.
UrlFailed(d) ==
  LET q == [d EXCEPT !.failed = @ + 1, !.buffer = <<>>, !.from = 0, !.pos = 0,
                     !.attempt = 0, !.resumes = 0, !.refreshed = FALSE] IN
  IF q.failed >= FailureLimit THEN [q EXCEPT !.pc = "source", !.urls = 0]
  ELSE [q EXCEPT !.pc = "url"]

(* _get_download_url and its helpers. *)
Resolved == DirectAt("resolve") /\ Becomes(DirectTo("connect"))
LinkFails == DirectAt("resolve") /\ Becomes(UrlFailed(direct))
\* A zlib page without a link may be the page of a challenge: it is asked for once more.
ZlibAgain ==
  /\ DirectAt("resolve") /\ direct.source = "zlib" /\ direct.waits = 0
  /\ Becomes([direct EXCEPT !.waits = 1])
Countdown ==
  /\ DirectAt("resolve") /\ direct.source \in AaPageSource /\ Becomes(DirectTo("countdown"))
\* The wait ends by itself or by the cancel; then the page is asked for again, one
\* call deeper, until the recursion limit raises.
CountdownEnds ==
  /\ DirectAt("countdown")
  /\ Becomes(IF direct.cancelled \/ direct.waits = CountdownLimit THEN UrlFailed(direct)
             ELSE [direct EXCEPT !.pc = "resolve", !.waits = @ + 1])

(* download_url. *)
ConnectLink ==
  /\ DirectAt("connect")
  /\ Becomes(IF direct.attempt = TransferLimit \/ direct.cancelled THEN UrlFailed(direct)
             ELSE [direct EXCEPT !.pc = "stream", !.buffer = <<>>, !.from = 0, !.pos = 0])
NextTransfer(d) == [d EXCEPT !.pc = "connect", !.attempt = @ + 1, !.resumes = 0]
\* A chunk; the flag is looked at after each one.
Chunk(d) == [d EXCEPT !.buffer = Append(@, d.pos + 1), !.pos = @ + 1, !.from = @ + 1]
StreamChunk ==
  /\ DirectAt("stream") /\ direct.pos < BookPieces
  /\ Becomes(IF direct.cancelled THEN UrlFailed(direct) ELSE Chunk(direct))
\* A whole buffer, or one that ended early without an error, is written unless it is
\* too small or HTML; a failed write leaves what it wrote.
SaveTrusting ==
  \/ Becomes(UrlFailed(direct)) /\ direct.pos < BookPieces
  \/ /\ direct.buffer # <<>> /\ staged' \in {"part", "own"}
     /\ direct' = [direct EXCEPT !.pc = "returned", !.ok = TRUE]
     /\ crossed' = FALSE /\ left' = FALSE /\ UNCHANGED <<stagedPath, rival>>
Save ==
  \/ Becomes(UrlFailed(direct)) /\ direct.pos < BookPieces
  \/ /\ direct.buffer # <<>> /\ staged' = "own"
     /\ direct' = [direct EXCEPT !.pc = "returned", !.ok = TRUE]
     /\ crossed' = FALSE /\ left' = FALSE /\ UNCHANGED <<stagedPath, rival>>
  \/ /\ direct.buffer # <<>> /\ staged' = "part"
     /\ direct' = UrlFailed(direct) /\ left' = FALSE
     /\ UNCHANGED <<stagedPath, rival, crossed>>
StreamEnds == DirectAt("stream") /\ Save
\* 403 and 404, 429, a timeout.
Refused == DirectAt("stream") /\ direct.buffer = <<>> /\ Becomes(UrlFailed(direct))
\* A 403 of zlib: new cookies, once for each transfer, outside the count of attempts.
RefreshCookiesAlways ==
  /\ DirectAt("stream") /\ direct.buffer = <<>> /\ direct.source = "zlib"
  /\ direct.bypass /\ Becomes(DirectTo("refresh"))
RefreshCookies ==
  /\ DirectAt("stream") /\ direct.buffer = <<>> /\ direct.source = "zlib"
  /\ direct.bypass /\ ~direct.refreshed
  /\ Becomes([direct EXCEPT !.pc = "refresh", !.refreshed = TRUE])
CookiesRefreshed ==
  /\ DirectAt("refresh")
  /\ Becomes(DirectTo("connect")) \/ Becomes(UrlFailed(direct))
\* The connection is lost: what came is resumed; with nothing the mirror or the DNS
\* is rotated, and the attempt counts whether or not it was.
StreamLost ==
  /\ DirectAt("stream")
  /\ Becomes(IF direct.buffer # <<>> THEN DirectTo("backoff") ELSE NextTransfer(direct))

(* _try_resume: no look at the flag before a request. *)
Resume ==
  /\ DirectAt("backoff")
  /\ Becomes(IF direct.resumes = ResumeLimit THEN NextTransfer(direct)
             ELSE [direct EXCEPT !.pc = "resumed", !.resumes = @ + 1, !.pos = direct.from])
\* The whole file again, or no such range.
Unresumable == DirectAt("resumed") /\ Becomes(NextTransfer(direct))
ResumeChunk ==
  /\ DirectAt("resumed") /\ direct.pos < BookPieces
  /\ Becomes(IF direct.cancelled THEN NextTransfer(direct) ELSE Chunk(direct))
ResumeLost == DirectAt("resumed") /\ Becomes(DirectTo("backoff"))
ResumeEnds == DirectAt("resumed") /\ Save

(* _execute_download and, after it, _download_task. *)
EndDirect(got) == direct' = [NoDownload EXCEPT !.got = got]
\* A cancelled download removes whatever lies at the book's name.
ReturnedFile ==
  /\ DirectAt("returned") /\ UNCHANGED <<stagedPath, rival, crossed>>
  /\ \/ direct.cancelled /\ Removed /\ EndDirect("nothing")
     \/ ~direct.cancelled /\ direct.ok /\ direct' = DirectTo("handed") /\ UNCHANGED <<staged, left>>
     \/ ~direct.cancelled /\ ~direct.ok /\ EndDirect("nothing") /\ UNCHANGED <<staged, left>>
\* The file that was returned is looked for, the one that is reused has been; from here
\* on the task has its path.
Handed ==
  /\ direct.pc \in {"handed", "reused"} /\ UNCHANGED <<rival, crossed>>
  /\ \/ /\ DirectAt("handed") /\ staged = "none" /\ EndDirect("missing")
        /\ UNCHANGED <<staged, stagedPath, left>>
     \/ /\ DirectAt("handed") => staged # "none"
        /\ \/ direct.cancelled /\ Removed /\ EndDirect("nothing") /\ UNCHANGED stagedPath
           \/ /\ ~direct.cancelled /\ direct' = DirectTo("posting") /\ stagedPath' = TRUE
              /\ UNCHANGED <<staged, left>>
\* Post-processing, which Delivery models, delivers the file and takes it away, and the
\* path with it; or ends before that, the file gone, a cancel having it removed, or it
\* failing: the file and its path are kept for a retry.
Post ==
  /\ DirectAt("posting") /\ UNCHANGED <<rival, crossed>>
  /\ \/ staged # "none" /\ Removed /\ stagedPath' = FALSE /\ EndDirect(staged)
     \/ staged = "none" /\ UNCHANGED <<staged, stagedPath, left>> /\ EndDirect("missing")
     \/ direct.cancelled /\ Removed /\ UNCHANGED stagedPath /\ EndDirect("nothing")
     \/ /\ staged # "none" /\ left' = TRUE /\ UNCHANGED <<staged, stagedPath>>
        /\ EndDirect("nothing")

(* The rival, by the same code; it may be fetching at any time. *)
WroteFile == direct.ok \/ stagedPath
RivalTouches(content) ==
  /\ staged' = content /\ crossed' = (crossed \/ WroteFile) /\ left' = FALSE
  /\ UNCHANGED <<direct, stagedPath>>
RivalWrites ==
  \/ rival' = TRUE /\ RivalTouches("rival")
  \/ UNCHANGED rival /\ RivalTouches("part")
\* Cancelled, it removes the file, its own or not; delivered, it takes it away; it may
\* keep it for ever.
RivalRemoves == rival' = FALSE /\ RivalTouches("none")

DirectStep ==
  \/ NextSource \/ ListLinks \/ NextLink
  \/ Resolved \/ LinkFails \/ ZlibAgain \/ Countdown \/ CountdownEnds
  \/ ConnectLink \/ StreamChunk \/ StreamEnds \/ Refused \/ RefreshCookies
  \/ CookiesRefreshed \/ StreamLost
  \/ Resume \/ Unresumable \/ ResumeChunk \/ ResumeLost \/ ResumeEnds
  \/ ReturnedFile \/ Handed \/ Post
RivalStep == RivalWrites \/ RivalRemoves
DirectNext ==
  \/ \E c \in DirectConfigs : StartDirect(c)
  \/ RetryStaged \/ CancelDirect \/ DirectStep \/ RivalStep
\* Requests end by their timeouts, countdowns and delays by the clock.
DirectSpec == DirectInit /\ [][DirectNext]_directVars /\ WF_directVars(DirectStep)

-----------------------------------------------------------------------------
\* Types; transfers and failures stay within their limits.
DirectTypeOK ==
  /\ direct.source \in DirectSource \cup {NoSource} /\ direct.attempt \in 0..TransferLimit
  /\ direct.resumes \in 0..ResumeLimit /\ direct.failed \in 0..FailureLimit
  /\ direct.buffer \in Seq(1..BookPieces)
  /\ direct.got \in {"nothing", "missing", "part", "own", "rival"}
  /\ staged \in {"none", "part", "own", "rival"} /\ rival \in BOOLEAN
  /\ stagedPath \in BOOLEAN

\* However often a transfer was resumed, the buffer holds the file from its first piece
\* on without a gap or a repetition.
BufferHasNoGap == \A i \in 1..Len(direct.buffer) : direct.buffer[i] = i

\* What is delivered is the download's own book, whole as far as it was written, also by
\* a retry that takes the file an earlier run has left; only a download of another
\* edition under the same file name can take or replace it.
OwnBookUnlessCrossed == direct.got \in {"rival", "part", "missing"} => crossed

\* When no download holds it, what lies at the file name is what a failed write has left,
\* or is there because its delivery or its removal failed: a book that nobody asks for
\* any more is removed.
LeftoverExplained ==
  DirectAt("idle") /\ ~rival => staged \in {"none", "part"} \/ left

\* Every download ends, whatever the servers answer and whether it is cancelled or not:
\* retries, resumptions, countdowns and fresh cookies run out.
DirectEnds == []<>DirectAt("idle")

\* A download delivers its own book, and leaves no other behind.
OwnBook == BufferHasNoGap /\ OwnBookUnlessCrossed /\ LeftoverExplained
====
