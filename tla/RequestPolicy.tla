---------------------------- MODULE RequestPolicy ---------------------------
(***************************************************************************)
(* What a user may download, request, or not have (core/request_policy),   *)
(* and the submission of a batch of requests under that policy             *)
(* (core/request_routes, core/requests_service.create_requests).           *)
(* Greenlets: a batch yields between the rows it creates and each download *)
(* it queues.                                                              *)
(***************************************************************************)
EXTENDS Lists

CONSTANTS
  PolicySource,     \* sources a release can come from
  ReleaseSource,    \* those whose search results are releases
  ContentType,
  Title,
  PendingLimit,     \* MAX_PENDING_REQUESTS_PER_USER
  GlobalRuleCount,  \* bounds: rules of the settings and of the user
  UserRuleCount,
  RequestCount,     \* bound: requests in the table
  AnyKey               \* "*"

ASSUME PolicyAssumption ==
  /\ ReleaseSource \subseteq PolicySource /\ AnyKey \notin PolicySource \cup ContentType
  /\ PendingLimit \in Nat \ {0} /\ RequestCount \in Nat

VARIABLES
  globalRules,  \* REQUEST_POLICY_RULES of the settings
  userRules,    \* and of the user,
  userHasRules, \* whose settings may have none, or an empty list of them
  ceiling,      \* REQUEST_POLICY_DEFAULT_<type>, the user's own if there is one
  pending,      \* pending requests of the user: how many for each title
  fulfilled,
  queuedNow,    \* titles the queue has
  batch         \* the batch whose downloads are being queued

policyVars ==
  <<globalRules, userRules, userHasRules, ceiling, pending, fulfilled, queuedNow, batch>>

\* PolicyMode, most permissive first; a rule cannot ask for a book-level request.
Strictness == [download |-> 0, request_release |-> 1, request_book |-> 2, blocked |-> 3]
PolicyMode == DOMAIN Strictness
RuleMode == PolicyMode \ {"request_book"}
PolicyRule == [source : PolicySource \cup {AnyKey}, type : ContentType \cup {AnyKey}, mode : RuleMode]
SameKey(a, b) == a.source = b.source /\ a.type = b.type
CapMode(mode, limit) == IF Strictness[mode] < Strictness[limit] THEN limit ELSE mode

\* Mutant: the user's rules are put in front of a copy of the global ones.
MergeRulesAppend(global, user, has) == IF has THEN global \o user ELSE global

\* The indices that bring a new key, the one that brings the n-th, and the mode that
\* a key was given last.
Firsts(all) == {i \in 1..Len(all) : \A j \in 1..(i - 1) : ~SameKey(all[j], all[i])}
NthKey(all, n) == CHOOSE i \in Firsts(all) : Cardinality(Firsts(all) \cap (1..i)) = n
LastMode(all, i) ==
  all[CHOOSE j \in 1..Len(all) : /\ SameKey(all[j], all[i])
                                 /\ \A k \in (j + 1)..Len(all) : ~SameKey(all[k], all[i])].mode
\* merge_request_policy_settings goes through a dictionary when the user's settings hold
\* a list of rules, be it empty: a key keeps the place where it came first and the mode
\* that came last.
Overlay(global, user) ==
  LET all == global \o user IN
  [n \in 1..Cardinality(Firsts(all)) |->
     [all[NthKey(all, n)] EXCEPT !.mode = LastMode(all, NthKey(all, n))]]
MergeRules(global, user, has) == IF has THEN Overlay(global, user) ELSE global

\* The four candidates, the most specific first, and the first rule for a key.
Matches(rules, s, t) == {i \in 1..Len(rules) : rules[i].source \in {s, AnyKey} /\ rules[i].type \in {t, AnyKey}}
Specific(rule) == (IF rule.source = AnyKey THEN 0 ELSE 2) + (IF rule.type = AnyKey THEN 0 ELSE 1)
Chosen(rules, s, t) ==
  CHOOSE i \in Matches(rules, s, t) : \A j \in Matches(rules, s, t) :
     \/ Specific(rules[i]) > Specific(rules[j])
     \/ Specific(rules[i]) = Specific(rules[j]) /\ i <= j

Limited(rules, s, t, limit) ==
  IF Matches(rules, s, t) = {} THEN limit ELSE CapMode(rules[Chosen(rules, s, t)].mode, limit)

\* A source whose results are releases knows no book-level request.
ReleaseResultMode(s, mode) ==
  IF mode = "request_book" /\ s \in ReleaseSource THEN "request_release" ELSE mode

\* resolve_policy_mode
ResolveMode(global, user, has, limit, s, t) ==
  ReleaseResultMode(s, Limited(MergeRules(global, user, has), s, t, limit))

-----------------------------------------------------------------------------
(* Batches.  Every item has one content type, whose default is the ceiling. *)

Rows(f) == UNION {{k} \X (1..f[k]) : k \in Title}
RowCount(f) == Cardinality(Rows(f))

\* An item: its title, source, and whether it carries a release.
BatchItem == [title : Title, source : PolicySource, release : BOOLEAN]
\* _normalize_release_result_request_payload builds the release from the book.
HasRelease(item) == item.release \/ item.source \in ReleaseSource
SourceModes ==
  [s \in PolicySource |->
     ResolveMode(globalRules, userRules, userHasRules, ceiling, s, CHOOSE t \in ContentType : TRUE)]
IdleBatch == [open |-> FALSE, toQueue |-> <<>>, created |-> {}, answer |-> "none"]

PolicyInit ==
  /\ globalRules = <<>> /\ userRules = <<>> /\ userHasRules = FALSE /\ ceiling = "download"
  /\ pending = [k \in Title |-> 0] /\ fulfilled = [k \in Title |-> 0]
  /\ queuedNow = {} /\ batch = IdleBatch

SettingsOpen == batch = IdleBatch /\ RowCount(pending) + RowCount(fulfilled) = 0

SetDefault(mode) ==
  /\ SettingsOpen /\ ceiling # mode
  /\ ceiling' = mode
  /\ UNCHANGED <<globalRules, userRules, userHasRules, pending, fulfilled, queuedNow, batch>>

AddGlobalRule(r) ==
  /\ SettingsOpen /\ Len(globalRules) < GlobalRuleCount
  /\ globalRules' = Append(globalRules, r)
  /\ UNCHANGED <<userRules, userHasRules, ceiling, pending, fulfilled, queuedNow, batch>>

AddUserRule(r) ==
  /\ SettingsOpen /\ Len(userRules) < UserRuleCount
  /\ userRules' = Append(userRules, r) /\ userHasRules' = TRUE
  /\ UNCHANGED <<globalRules, ceiling, pending, fulfilled, queuedNow, batch>>

\* The user's settings are saved with an empty list of rules.
SaveNoRules ==
  /\ SettingsOpen /\ userHasRules = FALSE
  /\ userHasRules' = TRUE
  /\ UNCHANGED <<globalRules, userRules, ceiling, pending, fulfilled, queuedNow, batch>>

\* _prepare_request_create_arguments refuses the batch for one bad item.
Prepared(items, mode) ==
  \A i \in DOMAIN items :
    /\ mode[items[i].source] # "blocked"
    /\ mode[items[i].source] = "request_book" => ~HasRelease(items[i])

\* create_requests checks all before it writes any: keys seen in the batch, the
\* limit with the batch's own, and the pending requests of the table.
\* Mutant: the batch's own requests do not count.
AcceptedApart(items, asked) ==
  /\ \A i, j \in asked : i # j => items[i].title # items[j].title
  /\ \A i \in asked : RowCount(pending) < PendingLimit /\ pending[items[i].title] = 0
Accepted(items, asked) ==
  /\ \A i, j \in asked : i # j => items[i].title # items[j].title
  /\ asked # {} => RowCount(pending) + Cardinality(asked) <= PendingLimit
  /\ \A i \in asked : pending[items[i].title] = 0

Submit(items, mode) ==
  LET asked == {i \in DOMAIN items : mode[items[i].source] # "download"}
      direct == Picked(items, DOMAIN items \ asked)
      new == {items[i].title : i \in asked}
  IN
  /\ ~batch.open /\ RowCount(pending) + RowCount(fulfilled) + Cardinality(asked) <= RequestCount
  /\ IF Prepared(items, mode) /\ Accepted(items, asked)
     THEN /\ batch' = [open |-> TRUE, toQueue |-> direct, created |-> new, answer |-> "none"]
          /\ pending' = [k \in Title |-> pending[k] + (IF k \in new THEN 1 ELSE 0)]
     ELSE /\ batch' = [IdleBatch EXCEPT !.answer = "refused"] /\ UNCHANGED pending
  /\ UNCHANGED <<globalRules, userRules, userHasRules, ceiling, fulfilled, queuedNow>>

\* _queue_prepared_download_submission: no release, a title that is queued already,
\* or another refusal of the queue ends the batch.
QueueItem ==
  /\ batch.open /\ batch.toQueue # <<>>
  /\ LET item == Head(batch.toQueue) IN
     \/ /\ HasRelease(item) /\ item.title \notin queuedNow
        /\ queuedNow' = queuedNow \cup {item.title}
        /\ batch' = [batch EXCEPT !.toQueue = Tail(@)]
     \/ batch' = [batch EXCEPT !.open = FALSE, !.answer = "queue_failed"] /\ UNCHANGED queuedNow
  /\ UNCHANGED <<globalRules, userRules, userHasRules, ceiling, pending, fulfilled>>

BatchDone ==
  /\ batch.open /\ batch.toQueue = <<>>
  /\ batch' = [batch EXCEPT !.open = FALSE, !.answer = "created"]
  /\ UNCHANGED <<globalRules, userRules, userHasRules, ceiling, pending, fulfilled, queuedNow>>

\* What happens to a request afterwards: approved, refused, reopened after a failure.
DecideRequest(k, approve) ==
  /\ pending[k] > 0
  /\ pending' = [pending EXCEPT ![k] = @ - 1]
  /\ fulfilled' = IF approve THEN [fulfilled EXCEPT ![k] = @ + 1] ELSE fulfilled
  /\ UNCHANGED <<globalRules, userRules, userHasRules, ceiling, queuedNow, batch>>

ReopenRequest(k) ==
  /\ fulfilled[k] > 0
  /\ fulfilled' = [fulfilled EXCEPT ![k] = @ - 1]
  /\ pending' = [pending EXCEPT ![k] = @ + 1]
  /\ UNCHANGED <<globalRules, userRules, userHasRules, ceiling, queuedNow, batch>>

DownloadEnds(k) ==
  /\ k \in queuedNow /\ queuedNow' = queuedNow \ {k}
  /\ UNCHANGED <<globalRules, userRules, userHasRules, ceiling, pending, fulfilled, batch>>

\* Bound: batches of at most two items, under the default and at most one rule of the
\* user; every mode of every source occurs.
PolicyNext ==
  \/ \E mode \in PolicyMode : SetDefault(mode)
  \/ \E r \in PolicyRule : AddGlobalRule(r) \/ AddUserRule(r)
  \/ SaveNoRules
  \/ /\ globalRules = <<>>
     /\ \E mode \in {SourceModes}, items \in [1..1 -> BatchItem] \cup [1..2 -> BatchItem] : Submit(items, mode)
  \/ QueueItem \/ BatchDone
  \/ \E k \in Title : DecideRequest(k, TRUE) \/ DecideRequest(k, FALSE) \/ ReopenRequest(k) \/ DownloadEnds(k)

PolicySpec == PolicyInit /\ [][PolicyNext]_policyVars

-----------------------------------------------------------------------------
(* Properties *)

PolicyTypeOK ==
  /\ globalRules \in Seq(PolicyRule) /\ userRules \in Seq(PolicyRule) /\ ceiling \in PolicyMode
  /\ userHasRules \in BOOLEAN /\ (userRules # <<>> => userHasRules = TRUE)
  /\ pending \in [Title -> 0..RequestCount] /\ fulfilled \in [Title -> 0..RequestCount]
  /\ queuedNow \subseteq Title
  /\ batch.toQueue \in Seq(BatchItem) /\ batch.created \subseteq Title
  /\ batch.answer \in {"none", "refused", "queue_failed", "created"}

\* No rule, of the settings or of the user, makes a source more permissive than the
\* default of the content type; the default counts as request_release for a source
\* whose results are releases.
RulesOnlyRestrict ==
  \A s \in PolicySource, t \in ContentType :
    LET mode == ResolveMode(globalRules, userRules, userHasRules, ceiling, s, t) IN
    /\ Strictness[mode] >= Strictness[ReleaseResultMode(s, ceiling)]
    /\ mode = "request_book" => s \notin ReleaseSource

Repeated == \E i, j \in DOMAIN globalRules : i # j /\ SameKey(globalRules[i], globalRules[j])

\* A user's rules change the mode of no source and type that they do not match, and
\* where one is the most specific match it decides, unless the settings hold a key
\* twice: its first mode counts for a user without a list of rules, its last for one
\* who has a list, even an empty one (merge_request_policy_settings).
OverridesAreLocal ==
  \A s \in PolicySource, t \in ContentType :
    LET mode == ResolveMode(globalRules, userRules, userHasRules, ceiling, s, t)
        own == Matches(userRules, s, t)
        best == Chosen(userRules, s, t)
    IN ~Repeated =>
       /\ own = {} => mode = ResolveMode(globalRules, <<>>, FALSE, ceiling, s, t)
       /\ /\ own # {} /\ Len(userRules) = 1
          /\ \A i \in Matches(globalRules, s, t) : Specific(globalRules[i]) <= Specific(userRules[best])
          => mode = ReleaseResultMode(s, CapMode(userRules[best].mode, ceiling))

\* A batch adds no request beyond the limit and none for a title that is pending,
\* its own items included, whatever decisions and reopenings come between batches.
BatchWithinLimits ==
  [][~batch.open /\ batch' # batch /\ pending' # pending
       => /\ RowCount(pending') <= PendingLimit
          /\ \A k \in Title : pending'[k] > pending[k] => pending'[k] = 1]_policyVars

\* A mode is what the rules say, restricted by the default and no further.
ModesFollowRules == RulesOnlyRestrict /\ OverridesAreLocal
=============================================================================
