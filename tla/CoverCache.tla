---- MODULE CoverCache ----
\* The cover cache: image files, an index in memory and its copy on disk
\* (core/image_cache.py), used by the cover route and cleared from the settings.
\* Every operation holds the instance's lock; a fetch runs between a lookup and a
\* put.  After a clear a new instance is made while fetches still hold the old one.
EXTENDS Naturals, FiniteSets

CONSTANTS
  CoverId, CoverExt, \* covers and the types an image may turn out to have
  CoverFetch,        \* requests to the cover route
  CoverLimit,        \* max_size_bytes, in images of one size
  FetchLimit         \* bound: fetches in a behaviour

ASSUME CoverAssumption ==
  /\ IsFiniteSet(CoverId) /\ {"none", "negative"} \cap CoverExt = {} /\ CoverLimit \in Nat \ {0}
  /\ FetchLimit \in Nat

VARIABLES
  index,      \* index[i]: the _index of the "live" and of the "old" instance
  loaded,     \* _instance is not None
  oldHeld,    \* a fetch holds the instance from before the clear
  indexFile,  \* cache_index.json
  cover,      \* the image files by name: absent, whole or truncated
  fetch,      \* fetch[f]: the instance and the cover a request is fetching
  fetches,    \* fetches begun
  unsaved, foreign, \* history: the live index is not what it saved or read; the old
                    \* instance has written the file since the live one read it
  stuck             \* history: the files that the last operation could not remove

coverVars == <<index, loaded, oldHeld, indexFile, cover, fetch, fetches, unsaved,
               foreign, stuck>>

Files == CoverId \X CoverExt
IndexEntry == {"none", "negative"} \cup CoverExt
EmptyIndex == [c \in CoverId |-> "none"]
NotFetching == [on |-> "none", id |-> CHOOSE c \in CoverId : TRUE]
Images(ix) == {c \in CoverId : ix[c] \in CoverExt}
HasFile(c) == \E x \in CoverExt : cover[c, x] # "absent"

CoverInit ==
  /\ index = [i \in {"live", "old"} |-> EmptyIndex] /\ loaded = FALSE /\ oldHeld = FALSE
  /\ indexFile = EmptyIndex /\ cover = [p \in Files |-> "absent"]
  /\ fetch = [f \in CoverFetch |-> NotFetching] /\ fetches = 0 /\ unsaved = FALSE /\ foreign = FALSE
  /\ stuck = {}

\* _save_index: written aside and renamed; an error is swallowed.
Save(i, ix) ==
  /\ index' = [index EXCEPT ![i] = ix]
  /\ \/ indexFile' = ix /\ foreign' = (foreign \/ i = "old") /\ UNCHANGED unsaved
     \/ UNCHANGED <<indexFile, foreign>> /\ unsaved' = (unsaved \/ i = "live")
\* unlink's OSError is swallowed: of the files an index leads to for the covers in
\* gone, those that cannot be removed stay.
Led(ix, gone) == {p \in Files : p[1] \in gone /\ ix[p[1]] = p[2] /\ cover[p] # "absent"}
KeptFiles(ix, gone, kept) ==
  [p \in Files |-> IF p \in Led(ix, gone) \ kept THEN "absent" ELSE cover[p]]
\* __init__: the index is read, as empty if it cannot be, and brought in line with
\* the files: files it does not know are adopted, whatever they hold, and entries
\* without a file dropped.  It is saved if that changes it.
InLine(ix, adopted) ==
  [c \in CoverId |-> IF ix[c] \in CoverExt THEN IF HasFile(c) THEN ix[c] ELSE "none"
                     ELSE IF ix[c] = "none" /\ HasFile(c) THEN adopted[c] ELSE ix[c]]
Load ==
  /\ ~loaded /\ loaded' = TRUE /\ foreign' = FALSE /\ stuck' = {}
  /\ \E read \in {indexFile, EmptyIndex}, adopted \in [CoverId -> CoverExt] :
       LET ix == InLine(read, adopted)
       IN /\ \A c \in CoverId : HasFile(c) => cover[c, adopted[c]] # "absent"
          /\ index' = [index EXCEPT !["live"] = ix]
          /\ \/ ix # read /\ indexFile' = ix /\ unsaved' = FALSE
             \/ UNCHANGED indexFile /\ unsaved' = (ix # indexFile)
  /\ UNCHANGED <<oldHeld, cover, fetch, fetches>>

\* The cover route.  A lookup that misses reads the index file again; a cover that
\* is known to be missing is asked for all the same, as get answers None for it.
Fetching(f, c) ==
  /\ fetches < FetchLimit /\ fetches' = fetches + 1
  /\ fetch' = [fetch EXCEPT ![f] = [on |-> "live", id |-> c]]
Idle(f) == fetch[f] = NotFetching
LookupHit(f, c) ==
  /\ loaded /\ Idle(f) /\ index["live"][c] \in CoverExt
  /\ cover[c, index["live"][c]] # "absent"
  /\ Save("live", index["live"]) /\ stuck' = {}
  /\ UNCHANGED <<loaded, oldHeld, cover, fetch, fetches>>
\* The file is gone, or the entry too old.
LookupDrops(f, c) ==
  /\ loaded /\ Idle(f) /\ index["live"][c] # "none"
  /\ stuck' \in SUBSET Led(index["live"], {c})
  /\ cover' = KeptFiles(index["live"], {c}, stuck')
  /\ Save("live", [index["live"] EXCEPT ![c] = "none"])
  /\ Fetching(f, c) /\ UNCHANGED <<loaded, oldHeld>>
\* Known to be missing, or an image that cannot be opened: nothing is dropped.
LookupPasses(f, c) ==
  /\ loaded /\ Idle(f) /\ index["live"][c] # "none" /\ stuck' = {}
  /\ index["live"][c] \in CoverExt => cover[c, index["live"][c]] # "absent"
  /\ Fetching(f, c) /\ UNCHANGED <<index, loaded, oldHeld, indexFile, cover, unsaved, foreign>>
LookupMisses(f, c) ==
  /\ loaded /\ Idle(f) /\ index["live"][c] = "none" /\ stuck' = {}
  /\ index' = [index EXCEPT !["live"] = indexFile]
  /\ unsaved' = FALSE /\ foreign' = FALSE
  /\ IF indexFile[c] = "none" THEN Fetching(f, c) ELSE UNCHANGED <<fetch, fetches>>
  /\ UNCHANGED <<loaded, oldHeld, indexFile, cover>>
\* The index file cannot be read: the live index is emptied, its files stay.
LookupEmpties(f, c) ==
  /\ loaded /\ Idle(f) /\ index["live"][c] = "none" /\ stuck' = {}
  /\ index' = [index EXCEPT !["live"] = EmptyIndex]
  /\ unsaved' = TRUE /\ Fetching(f, c)
  /\ UNCHANGED <<loaded, oldHeld, indexFile, cover, foreign>>

\* _evict_if_needed: by last access, which the missing entries do not have; the
\* cover that is about to be written counts twice if it is there already.
Evictions(ix) ==
  LET n == Cardinality(Images(ix)) IN
  IF n < CoverLimit THEN {{}}
  ELSE {gone \in SUBSET Images(ix) : Cardinality(gone) = n - (CoverLimit - 1)}
Without(ix, gone) ==
  [c \in CoverId |-> IF c \in gone \/ (gone # {} /\ ix[c] = "negative") THEN "none" ELSE ix[c]]
Released(f) ==
  /\ fetch' = [fetch EXCEPT ![f] = NotFetching] /\ UNCHANGED fetches
  /\ oldHeld' = \E g \in CoverFetch \ {f} : fetch[g].on = "old"
\* put: evict, write the file, then the index.
PutCover(f, x) ==
  LET i == fetch[f].on
      c == fetch[f].id
  IN /\ ~Idle(f)
     /\ \E gone \in Evictions(index[i]) :
          /\ stuck' \in SUBSET Led(index[i], gone)
          /\ cover' = [KeptFiles(index[i], gone, stuck') EXCEPT ![<<c, x>>] = "whole"]
          /\ Save(i, [Without(index[i], gone) EXCEPT ![c] = x])
     /\ Released(f) /\ UNCHANGED loaded
PutFailsRecorded(f, x) ==
  LET i == fetch[f].on
      c == fetch[f].id
  IN /\ ~Idle(f)
     /\ \E gone \in Evictions(index[i]) :
          /\ stuck' \in SUBSET Led(index[i], gone)
          /\ cover' = [KeptFiles(index[i], gone, stuck') EXCEPT ![<<c, x>>] = "torn"]
          /\ Save(i, [Without(index[i], gone) EXCEPT ![c] = x])
     /\ Released(f) /\ UNCHANGED loaded
\* The file cannot be opened (nothing is left) or written (a part is left).
PutFails(f, x) ==
  LET i == fetch[f].on
      c == fetch[f].id
  IN /\ ~Idle(f)
     /\ \E gone \in Evictions(index[i]), opened \in BOOLEAN :
          /\ stuck' \in SUBSET Led(index[i], gone)
          /\ cover' = LET kept == KeptFiles(index[i], gone, stuck') IN
                      IF opened THEN [kept EXCEPT ![<<c, x>>] = "torn"] ELSE kept
          /\ Save(i, Without(index[i], gone))
     /\ Released(f) /\ UNCHANGED loaded
\* put_negative forgets the image, not its file.
PutNegative(f) ==
  /\ ~Idle(f) /\ stuck' = {}
  /\ Save(fetch[f].on, [index[fetch[f].on] EXCEPT ![fetch[f].id] = "negative"])
  /\ Released(f) /\ UNCHANGED <<loaded, cover>>
\* A redirect to a place that may not be asked, or another request error.
FetchGivesUp(f) ==
  /\ ~Idle(f) /\ Released(f) /\ stuck' = {}
  /\ UNCHANGED <<index, loaded, indexFile, cover, unsaved, foreign>>

\* _clear_covers_cache: clear, then reset_image_cache.
ClearCovers ==
  /\ loaded /\ ~oldHeld /\ loaded' = FALSE
  /\ stuck' \in SUBSET Led(index["live"], CoverId)
  /\ cover' = KeptFiles(index["live"], CoverId, stuck')
  /\ index' = [i \in {"live", "old"} |-> EmptyIndex]
  /\ \/ indexFile' = EmptyIndex /\ UNCHANGED <<unsaved, foreign>>
     \/ UNCHANGED <<indexFile, unsaved, foreign>>
  /\ fetch' = [f \in CoverFetch |-> IF Idle(f) THEN fetch[f] ELSE [fetch[f] EXCEPT !.on = "old"]]
  /\ oldHeld' = \E f \in CoverFetch : ~Idle(f)
  /\ UNCHANGED fetches

\* The process ends, between two operations or inside a put.
Restart ==
  /\ loaded' = FALSE /\ oldHeld' = FALSE /\ unsaved' = FALSE /\ foreign' = FALSE /\ stuck' = {}
  /\ index' = [i \in {"live", "old"} |-> EmptyIndex]
  /\ fetch' = [f \in CoverFetch |-> NotFetching] /\ UNCHANGED <<indexFile, fetches>>
  /\ \/ UNCHANGED cover
     \/ \E f \in CoverFetch, x \in CoverExt, state \in {"whole", "torn"} :
          ~Idle(f) /\ cover' = [cover EXCEPT ![<<fetch[f].id, x>>] = state]

CoverNext ==
  \/ Load \/ ClearCovers \/ Restart
  \/ \E f \in CoverFetch :
       \/ \E c \in CoverId :
            \/ LookupHit(f, c) \/ LookupDrops(f, c) \/ LookupPasses(f, c)
            \/ LookupMisses(f, c) \/ LookupEmpties(f, c)
       \/ \E x \in CoverExt : PutCover(f, x) \/ PutFails(f, x)
       \/ PutNegative(f) \/ FetchGivesUp(f)

CoverSpec == CoverInit /\ [][CoverNext]_coverVars

-----------------------------------------------------------------------------
\* The variables keep their types; a fetch on the old instance keeps it alive, and
\* the fetches of the live one exist only while there is one.
CoverTypeOK ==
  /\ index \in [{"live", "old"} -> [CoverId -> IndexEntry]] /\ indexFile \in [CoverId -> IndexEntry]
  /\ cover \in [Files -> {"absent", "whole", "torn"}]
  /\ stuck \subseteq Files /\ oldHeld = \E f \in CoverFetch : fetch[f].on = "old"
  /\ \A f \in CoverFetch : fetch[f].on = "live" => loaded

Known(i, p) == index[i][p[1]] = p[2]
\* An image that the live index leads to, and is lost to it, stays on disk only when
\* removing it fails, the cover's new image has another type, the cover is now known
\* to be missing, the index file it is read from anew is out of date or cannot be
\* read, or the service restarts: evicting, expiring and clearing otherwise remove
\* the file with the entry.
FilesGoWithEntries ==
  [][\A p \in Files :
       Known("live", p) /\ cover[p] = "whole" /\ ~Known("live", p)' /\ cover'[p] = "whole"
         => \/ p \in stuck'
            \/ index'["live"][p[1]] \in (CoverExt \cup {"negative"}) \ {p[2]}
            \/ unsaved \/ foreign \/ Restart
            \/ \E f \in CoverFetch, c \in CoverId : LookupEmpties(f, c)]_coverVars

\* An entry of the live index comes to lead to a truncated image only when the
\* index is loaded (it adopts any file), reads a file the old instance wrote or
\* that it had failed to save or read, or when a rewrite of that very image is cut short.
TornIsNotIndexed ==
  [][\A p \in Files :
       Known("live", p)' /\ cover'[p] = "torn" /\ ~(Known("live", p) /\ cover[p] = "torn")
         => ~loaded \/ unsaved \/ foreign \/ Known("live", p)]_coverVars

\* Entries and image files go together, but for the races and crashes named above.
IndexMatchesFiles == TornIsNotIndexed /\ FilesGoWithEntries
====
