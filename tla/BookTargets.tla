---- MODULE BookTargets ----
\* The shelves of a Hardcover user as Shelfmark shows and changes them
\* (metadata_providers/hardcover.py) through the metadata cache (core/cache.py):
\* reads fetch and store, writes change the remote shelf and invalidate the views
\* they know to be touched.  One book, one user.  A step ends where the code waits
\* for Hardcover's answer.
EXTENDS Naturals, FiniteSets

CONSTANTS
  BookStatus,     \* want to read, reading, ...: a book has at most one
  UserList,       \* lists, each one also looked up by its slug
  NoTarget,
  TargetRun,      \* requests to the metadata routes
  CacheLimit,     \* max_size
  PutLimit, GetLimit  \* bounds: requests that write and that read

ASSUME TargetAssumption ==
  /\ NoTarget \notin BookStatus \cup UserList /\ BookStatus \cap UserList = {}
  /\ CacheLimit \in Nat \ {0} /\ PutLimit \in Nat /\ GetLimit \in Nat

VARIABLES
  onStatus, onLists, \* Hardcover: the book's status and the lists that hold it
  views,        \* _metadata_cache: what each cached view says of the book
  blamed,       \* history: views that are wrong for a reason the code accepts
  trun,         \* the requests in progress
  puts, gets

targetVars == <<onStatus, onLists, views, blamed, trun, puts, gets>>

Target == BookStatus \cup UserList
TargetView(t) == <<"target", t>>
SlugView(l) == <<"slug", l>>
OptionsView == <<"options", NoTarget>>
ViewKey == ({"target"} \X Target) \cup ({"slug"} \X UserList) \cup {OptionsView}
Cached == {k \in ViewKey : views[k] # "none"}

IdleTargetRun == [pc |-> "idle", key |-> OptionsView, answer |-> "none", slug |-> NoTarget,
                  target |-> NoTarget, selected |-> TRUE, status |-> NoTarget, lists |-> {},
                  drop |-> {}]
TargetInit ==
  /\ onStatus = NoTarget /\ onLists = {}
  /\ views = [k \in ViewKey |-> "none"] /\ blamed = {}
  /\ trun = [r \in TargetRun |-> IdleTargetRun] /\ puts = 0 /\ gets = 0

Holds(status, lists, k) == k = status \/ k \in lists
Truth(k) ==
  IF k = OptionsView \/ Holds(onStatus, onLists, k[2]) THEN "yes" ELSE "no"

TargetAt(r, pc) == trun[r].pc = pc
Becoming(r, fields) == trun' = [trun EXCEPT ![r] = fields]
remoteShelf == <<onStatus, onLists>>

(* The cache. *)
\* _evict_oldest: a tenth of the entries, at least one, also for a key that is
\* in the cache already.  Any entry may be the one that expires first.
Evicted == {{k} : k \in Cached}
StoredAtOverflow(k, v) ==
  \/ /\ Cardinality(Cached) <= CacheLimit
     /\ views' = [views EXCEPT ![k] = v]
  \/ /\ Cardinality(Cached) > CacheLimit
     /\ \E gone \in Evicted :
          views' = [x \in ViewKey |-> IF x = k THEN v ELSE IF x \in gone THEN "none" ELSE views[x]]
Stored(k, v) ==
  \/ /\ Cardinality(Cached) < CacheLimit
     /\ views' = [views EXCEPT ![k] = v]
  \/ /\ Cardinality(Cached) >= CacheLimit
     /\ \E gone \in Evicted :
          views' = [x \in ViewKey |-> IF x = k THEN v ELSE IF x \in gone THEN "none" ELSE views[x]]
\* What was read before a change, or could not be read, is stored all the same.
StoreView(k, v) ==
  /\ Stored(k, v)
  /\ blamed' = {x \in blamed \cup {k} : x # OptionsView /\ views'[x] \notin {"none", Truth(x)}}
Expires(k) ==
  /\ k \in Cached
  /\ views' = [views EXCEPT ![k] = "none"] /\ blamed' = blamed \ {k}
  /\ UNCHANGED <<onStatus, onLists, trun, puts, gets>>

(* Reading: cacheable looks the key up, fetches, stores. *)
LookUp(r, k, slug, run) ==
  IF k \in Cached /\ slug = NoTarget
  THEN Becoming(r, [run EXCEPT !.pc = "found", !.key = k, !.answer = views[k]])
  ELSE Becoming(r, [run EXCEPT !.pc = "query", !.key = k, !.slug = slug])
\* _resolve_current_user_id: the settings' connection test clears the saved id whenever
\* Hardcover refuses it, and then the query for it may fail.  The options are fetched
\* past the cache, and a status shelf is empty.
WithoutUser(r, k, run) ==
  /\ k \notin {"target"} \X UserList
  /\ \E answer \in IF k = OptionsView THEN {"yes", "no"} ELSE {"no"} :
       Becoming(r, [run EXCEPT !.pc = "found", !.key = k, !.answer = answer])
ReadView(r, k) ==
  /\ TargetAt(r, "idle") /\ gets < GetLimit /\ gets' = gets + 1
  /\ LookUp(r, k, NoTarget, IdleTargetRun) \/ WithoutUser(r, k, IdleTargetRun)
  /\ UNCHANGED <<remoteShelf, views, blamed, puts>>
\* _fetch_list_books: the slug is resolved, then the view by id is asked for.
ReadSlug(r, l) ==
  /\ TargetAt(r, "idle") /\ gets < GetLimit /\ gets' = gets + 1
  /\ IF SlugView(l) \in Cached
     THEN Becoming(r, [IdleTargetRun EXCEPT !.pc = "found", !.key = SlugView(l), !.answer = views[SlugView(l)]])
     ELSE Becoming(r, [IdleTargetRun EXCEPT !.pc = "resolve", !.slug = l])
  /\ UNCHANGED <<remoteShelf, views, blamed, puts>>
SlugResolved(r) ==
  /\ TargetAt(r, "resolve")
  /\ \/ LET l == trun[r].slug IN
        IF TargetView(l) \in Cached
        THEN Becoming(r, [trun[r] EXCEPT !.pc = "answered", !.key = SlugView(l), !.answer = views[TargetView(l)], !.slug = NoTarget])
        ELSE Becoming(r, [trun[r] EXCEPT !.pc = "query", !.key = TargetView(l)])
     \/ Becoming(r, [trun[r] EXCEPT !.pc = "answered", !.key = SlugView(trun[r].slug), !.answer = "no", !.slug = NoTarget])
  /\ UNCHANGED <<remoteShelf, views, blamed, puts, gets>>
\* Hardcover answers the query; the answer is on its way.  A query that fails
\* gives an empty result.
QueryAnswered(r) ==
  /\ TargetAt(r, "query")
  /\ \E answer \in {Truth(trun[r].key), "no"} :
       Becoming(r, [trun[r] EXCEPT !.pc = "answered", !.answer = answer])
  /\ UNCHANGED <<remoteShelf, views, blamed, puts, gets>>
StoreAnswer(r) ==
  /\ TargetAt(r, "answered")
  /\ StoreView(trun[r].key, trun[r].answer)
  /\ IF trun[r].slug = NoTarget
     THEN Becoming(r, [trun[r] EXCEPT !.pc = "found"])
     ELSE Becoming(r, [trun[r] EXCEPT !.key = SlugView(trun[r].slug), !.slug = NoTarget])
  /\ UNCHANGED <<remoteShelf, puts, gets>>
ReadDone(r) ==
  /\ TargetAt(r, "found") /\ trun[r].target = NoTarget
  /\ Becoming(r, IdleTargetRun)
  /\ UNCHANGED <<remoteShelf, views, blamed, puts, gets>>

(* Writing: set_book_target_state. *)
SetTarget(r, t, on) ==
  /\ TargetAt(r, "idle") /\ puts < PutLimit /\ puts' = puts + 1
  /\ LET run == [IdleTargetRun EXCEPT !.target = t, !.selected = on]
     IN LookUp(r, OptionsView, NoTarget, run) \/ WithoutUser(r, OptionsView, run)
  /\ UNCHANGED <<remoteShelf, views, blamed, gets>>
\* _get_writable_targets: with an empty listing every target is unsupported.
OptionsKnown(r) ==
  /\ TargetAt(r, "found") /\ trun[r].target # NoTarget
  /\ IF trun[r].answer = "no" THEN Becoming(r, IdleTargetRun)
     ELSE Becoming(r, [trun[r] EXCEPT !.pc = "state"])
  /\ UNCHANGED <<remoteShelf, views, blamed, puts, gets>>
\* _fetch_book_target_state; a failure raises.
StateRead(r) ==
  /\ TargetAt(r, "state")
  /\ \/ Becoming(r, [trun[r] EXCEPT !.pc = "change", !.status = onStatus, !.lists = onLists])
     \/ Becoming(r, IdleTargetRun)
  /\ UNCHANGED <<remoteShelf, views, blamed, puts, gets>>
\* _set_status_target_state, _set_list_target_state: nothing is sent for what the
\* state read already says.
Sends(run) == run.selected # Holds(run.status, run.lists, run.target)
NothingToChange(r) ==
  /\ TargetAt(r, "change") /\ ~Sends(trun[r])
  /\ Becoming(r, IdleTargetRun)
  /\ UNCHANGED <<remoteShelf, views, blamed, puts, gets>>
\* The views to drop come from the state that was read, not from Hardcover.
TouchedNewOnly(run) == {TargetView(run.target), OptionsView}
Touched(run) ==
  {TargetView(run.target), OptionsView}
    \cup (IF run.target \in BookStatus /\ run.status # NoTarget THEN {TargetView(run.status)} ELSE {})
Changed(run) ==
  IF run.target \in BookStatus
  THEN /\ onStatus' = IF run.selected THEN run.target ELSE NoTarget
       /\ UNCHANGED onLists
  ELSE /\ onLists' = IF run.selected THEN onLists \cup {run.target} ELSE onLists \ {run.target}
       /\ UNCHANGED onStatus
Wrong(status, lists) ==
  {k \in Cached \ {OptionsView} : (views[k] = "yes") # Holds(status, lists, k[2])}
\* The mutation takes effect; its answer may be lost, and views that the state
\* read did not name stay.
Mutate(r) ==
  /\ TargetAt(r, "change") /\ Sends(trun[r])
  /\ LET drop == Touched(trun[r])
         stale == trun[r].status # onStatus \/ trun[r].lists # onLists
     IN \/ /\ Changed(trun[r])
           /\ Becoming(r, [trun[r] EXCEPT !.pc = "drop", !.drop = drop])
           /\ blamed' = (blamed \cup IF stale THEN ViewKey \ drop ELSE {}) \cap Wrong(onStatus', onLists')
        \/ /\ Changed(trun[r]) /\ Becoming(r, IdleTargetRun)
           /\ blamed' = Wrong(onStatus', onLists')
        \/ /\ Becoming(r, IdleTargetRun) /\ UNCHANGED <<remoteShelf, blamed>>
  /\ UNCHANGED <<views, puts, gets>>
\* _invalidate_book_target_caches; the views by slug are not among them, and without a
\* user only the lists are.
Invalidate(r) ==
  /\ TargetAt(r, "drop")
  /\ \E gone \in {trun[r].drop, trun[r].drop \cap ({"target"} \X UserList)} :
       /\ views' = [k \in ViewKey |-> IF k \in gone THEN "none" ELSE views[k]]
       /\ blamed' = (blamed \ gone) \cup ((trun[r].drop \ gone) \cap Wrong(onStatus, onLists))
  /\ Becoming(r, IdleTargetRun)
  /\ UNCHANGED <<remoteShelf, puts, gets>>

TargetNext ==
  \/ \E k \in ViewKey : Expires(k)
  \/ \E r \in TargetRun :
       \/ \E k \in ViewKey \ ({"slug"} \X UserList) : ReadView(r, k)
       \/ \E l \in UserList : ReadSlug(r, l)
       \/ \E t \in Target, on \in BOOLEAN : SetTarget(r, t, on)
       \/ SlugResolved(r) \/ QueryAnswered(r) \/ StoreAnswer(r) \/ ReadDone(r)
       \/ OptionsKnown(r) \/ StateRead(r) \/ NothingToChange(r) \/ Mutate(r) \/ Invalidate(r)

TargetSpec == TargetInit /\ [][TargetNext]_targetVars

-----------------------------------------------------------------------------
\* The variables keep their types, and the cache its size limit: an entry is
\* evicted before one is added, whichever request adds it.
TargetTypeOK ==
  /\ onStatus \in BookStatus \cup {NoTarget} /\ onLists \subseteq UserList
  /\ views \in [ViewKey -> {"none", "yes", "no"}] /\ blamed \subseteq Cached
  /\ DOMAIN trun = TargetRun /\ puts \in 0..PutLimit /\ gets \in 0..GetLimit
  /\ Cardinality(Cached) <= CacheLimit

\* A cached view of a status or a list (by id) disagrees with Hardcover only when
\* it was stored after the change it missed, from a query that began before it or
\* failed; when a change was answered by an error although it took effect; when
\* the request that changed the shelf had read its state before another one
\* changed it, or could not tell whose shelf it was; or until the request that is about to drop it runs.
StaleOnlyByRace ==
  \A k \in Cached \cap ({"target"} \X Target) :
    views[k] # Truth(k)
      => k \in blamed \/ \E r \in TargetRun : TargetAt(r, "drop") /\ k \in trun[r].drop
====
