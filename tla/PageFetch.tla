---- MODULE PageFetch ----
\* Fetching a page of Anna's Archive (download/http.py html_get_page) over mirrors
\* and DNS providers that all fetches share (download/network.py) and the one
\* browser that passes a challenge (bypass/internal_bypasser.py).  One fetch is
\* followed step by step, the others by what they do to the shared state.  A step
\* ends where the code waits: for an answer, the DNS lock, a look-up, the browser.
EXTENDS Integers, FiniteSets

CONSTANTS
  NoPage,
  MirrorCount, ProviderCount,
  RetryLimit,     \* MAX_RETRY
  PageModes,      \* is AA_BASE_URL "auto", or one mirror
  PageWays        \* "strict": no bypass on a 403; "soft": bypass; "hard": bypass at once

SystemDns == -1
Provider == 0..(ProviderCount - 1)
DnsChoice == {SystemDns} \cup Provider
Mirror == 0..(MirrorCount - 1)

ASSUME PageAssumption ==
  /\ NoPage \notin {"fetch", "others", "settings"}
  /\ MirrorCount \in Nat \ {0} /\ ProviderCount \in Nat \ {0} /\ RetryLimit \in Nat \ {0}
  /\ PageModes \subseteq BOOLEAN
  /\ PageWays \subseteq {"strict", "soft", "hard"}

VARIABLES
  pageMode,     \* the settings, and whether the service has started
  base,         \* _aa_base_url, as a mirror's index
  provider,     \* _current_dns_index
  resolver,     \* who resolves names: a provider, or the system
  dnsLock,      \* who holds _dns_switch_lock
  page,         \* the fetch
  others,       \* the other fetches: "idle", "lock" or "switch"
  dnsSave,      \* the settings route: "none", "lock", "switch" or "done"
  early         \* history: the DNS was being rotated when it was saved

pageVars == <<pageMode, base, provider, resolver, dnsLock, page, others, dnsSave,
              early>>

NoFetch == [pc |-> "idle", way |-> "soft", link |-> 0, own |-> 0, url |-> 0, tried |-> 0,
            attempt |-> 1, why |-> "none", how |-> "none", last |-> FALSE,
            cancelled |-> FALSE]
PageInit ==
  /\ pageMode = [up |-> FALSE, autoMirror |-> TRUE, autoDns |-> TRUE, dns |-> SystemDns]
  /\ base = 0 /\ provider = SystemDns /\ resolver = SystemDns
  /\ dnsLock = NoPage /\ page = NoFetch /\ others = "idle"
  /\ dnsSave = "none" /\ early = FALSE

PageAt(pc) == page.pc = pc
AutoMirror == pageMode.autoMirror
AutoDns == pageMode.autoDns

\* network.init: the first mirror that answers, or the configured one.
StartService ==
  /\ ~pageMode.up
  /\ \E auto \in PageModes : pageMode' = [pageMode EXCEPT !.up = TRUE, !.autoMirror = auto]
  /\ UNCHANGED <<base, provider, resolver, dnsLock, page, others, dnsSave, early>>

\* A request looks its host up through system_failover_getaddrinfo, "asked", as long
\* as no provider has been in force; a provider's resolver falls back on the system.
Sending == IF resolver = SystemDns /\ dnsLock = NoPage THEN "asked" ELSE "sent"
InFlight == page.pc \in {"asked", "sent"}

(* How a fetch goes on. *)
Returned == NoFetch
NextAttempt(p) ==
  IF p.attempt < RetryLimit THEN [p EXCEPT !.pc = "top", !.attempt = @ + 1] ELSE Returned
\* After a rotation: the redirect loop goes on, which counts nothing and does not
\* look at the cancel flag; the attempt loop, the browser or the look-up goes on.
Continued(p) ==
  LET q == [p EXCEPT !.why = "none", !.how = "none"] IN
  CASE p.why = "redirect" -> [q EXCEPT !.pc = Sending]
    [] p.why = "resolve" -> [q EXCEPT !.pc = "sent"]
    [] p.why = "bypass" -> [q EXCEPT !.pc = "bypass", !.last = TRUE]
    [] p.why \in {"retry", "blocked"} -> NextAttempt(q)
GaveUp(p) ==
  LET q == [p EXCEPT !.why = "none", !.how = "none"] IN
  CASE p.why \in {"redirect", "bypass", "blocked"} -> Returned
    [] p.why = "resolve" -> [q EXCEPT !.pc = "unresolved"]
    [] p.why = "retry" -> NextAttempt(q)
SetPage(p, newBase) == page' = p /\ base' = newBase

(* The selector, AAMirrorSelector.next_mirror_or_rotate_dns. *)
MirrorsToTry == IF AutoMirror THEN MirrorCount ELSE 1
FreshSelector(p) ==
  [p EXCEPT !.own = 0, !.url = 0, !.tried = 0]
\* rotate_dns_provider: past the last provider the index starts over, unlocked.
RotateDnsAnyMode(p, how) ==
  /\ provider' = IF provider + 1 >= ProviderCount THEN SystemDns ELSE provider
  /\ SetPage([p EXCEPT !.pc = "lock", !.how = how], base)
RotateDns(p, how) ==
  IF AutoDns
  THEN /\ provider' = IF provider + 1 >= ProviderCount THEN SystemDns ELSE provider
       /\ SetPage([p EXCEPT !.pc = "lock", !.how = how], base)
  ELSE SetPage(GaveUp(p), base) /\ UNCHANGED provider
SelectNext(p) ==
  LET q == [p EXCEPT !.tried = @ + 1]
      next == (p.own + 1) % MirrorCount
  IN IF q.tried >= MirrorsToTry THEN RotateDns(q, "reset")
     ELSE /\ SetPage(Continued([q EXCEPT !.own = next, !.url = next]), next)
          /\ UNCHANGED provider
\* _try_rotation: a fetch whose mirror is no longer the global one leaves its
\* selector out and rotates the DNS.
TryRotation(why) ==
  LET p == [page EXCEPT !.why = why] IN
  IF p.url = base THEN SelectNext(p) ELSE RotateDns(p, "plain")

(* html_get_page. *)
Begin ==
  /\ pageMode.up /\ PageAt("idle")
  /\ \E way \in PageWays :
       page' = [NoFetch EXCEPT !.pc = "top", !.way = way, !.link = base, !.own = base,
                               !.url = base]
  /\ UNCHANGED <<pageMode, base, provider, resolver, dnsLock, others, dnsSave, early>>
CancelPage ==
  /\ ~PageAt("idle") /\ ~page.cancelled
  /\ page' = [page EXCEPT !.cancelled = TRUE]
  /\ UNCHANGED <<pageMode, base, provider, resolver, dnsLock, others, dnsSave, early>>
Top ==
  /\ PageAt("top")
  /\ page' =
       IF page.cancelled THEN Returned
       ELSE [page EXCEPT !.pc = IF page.way = "hard" THEN "bypass" ELSE Sending]
  /\ UNCHANGED <<pageMode, base, provider, resolver, dnsLock, others, dnsSave, early>>
\* The page is there, or known not to be (404).
Answered ==
  /\ InFlight
  /\ page' = Returned
  /\ UNCHANGED <<pageMode, base, provider, resolver, dnsLock, others, dnsSave, early>>
\* The mirror redirects to another host: only in auto mode is another one tried.
Redirected ==
  /\ InFlight
  /\ IF AutoMirror THEN TryRotation("redirect")
     ELSE SetPage(Returned, base) /\ UNCHANGED provider
  /\ UNCHANGED <<pageMode, resolver, dnsLock, others, dnsSave, early>>
\* A connection error, a 429 or a 5xx.
Unavailable ==
  /\ (InFlight \/ PageAt("unresolved")) /\ TryRotation("retry")
  /\ UNCHANGED <<pageMode, resolver, dnsLock, others, dnsSave, early>>
\* A 403: cookies that another fetch has brought meanwhile are tried first.
Forbidden ==
  /\ InFlight
  /\ IF page.way = "strict" THEN TryRotation("blocked")
     ELSE /\ \E way \in {"soft", "hard"} : SetPage(NextAttempt([page EXCEPT !.way = way]), base)
          /\ UNCHANGED provider
  /\ UNCHANGED <<pageMode, resolver, dnsLock, others, dnsSave, early>>
\* Any other failure, too many redirects on one host included.
Failed ==
  /\ InFlight /\ SetPage(NextAttempt(page), base)
  /\ UNCHANGED <<pageMode, provider, resolver, dnsLock, others, dnsSave, early>>
\* system_failover_getaddrinfo: the name does not resolve.
NotResolved ==
  /\ PageAt("asked") /\ AutoDns /\ provider + 1 < ProviderCount
  /\ SetPage([page EXCEPT !.pc = "lock", !.why = "resolve", !.how = "keep"], base)
  /\ UNCHANGED <<pageMode, provider, resolver, dnsLock, others, dnsSave, early>>

(* switch_dns_provider, under its lock. *)
TakeDnsLock ==
  /\ PageAt("lock") /\ dnsLock = NoPage
  /\ IF provider + 1 >= ProviderCount
     THEN SetPage(GaveUp(page), base) /\ UNCHANGED <<provider, dnsLock, resolver>>
     ELSE /\ provider' = provider + 1 /\ dnsLock' = "fetch" /\ resolver' = provider'
          /\ SetPage([page EXCEPT !.pc = "switch"], base)
  /\ UNCHANGED <<pageMode, others, dnsSave, early>>
\* Until the name of the DoH server is resolved, the system resolves all names.
Switched ==
  /\ PageAt("switch") /\ dnsLock' = NoPage
  /\ CASE page.how = "reset" -> SetPage(Continued(FreshSelector(page)), 0)
       [] page.how = "plain" -> SetPage(Continued([page EXCEPT !.url = page.link]), base)
       [] page.how = "keep" -> SetPage(Continued(page), base)
  /\ UNCHANGED <<pageMode, provider, resolver, others, dnsSave, early>>

(* The settings route, _apply_dns_settings: saved, then set_dns_provider. *)
SaveDns ==
  /\ pageMode.up /\ dnsSave = "none" /\ dnsSave' = "lock"
  /\ \E choice \in DnsChoice : pageMode' = [pageMode EXCEPT !.autoDns = FALSE, !.dns = choice]
  /\ early' = (page.pc \in {"lock", "switch"} \/ others \in {"lock", "switch"})
  /\ UNCHANGED <<base, provider, resolver, dnsLock, page, others>>
SetDnsProvider ==
  /\ dnsSave = "lock" /\ dnsLock = NoPage
  /\ resolver' = pageMode.dns /\ provider' = pageMode.dns
  /\ IF pageMode.dns = SystemDns
     THEN dnsSave' = "done" /\ UNCHANGED dnsLock
     ELSE dnsSave' = "switch" /\ dnsLock' = "settings"
  /\ UNCHANGED <<pageMode, base, page, others, early>>
DnsProviderSet ==
  /\ dnsSave = "switch" /\ dnsSave' = "done" /\ dnsLock' = NoPage
  /\ UNCHANGED <<pageMode, base, provider, resolver, page, others, early>>

(* get_bypassed_page: cookies that work, or the browser, one fetch at a time. *)
\* Passed, not passed (an empty page), or cancelled.
Bypassed ==
  /\ PageAt("bypass") /\ page' = Returned
  /\ UNCHANGED <<pageMode, base, provider, resolver, dnsLock, others, dnsSave, early>>
\* The browser or its helper process fails: one more mirror is tried.
BrowserFails ==
  /\ PageAt("bypass")
  /\ LET p == [page EXCEPT !.why = "bypass"] IN
     IF p.cancelled \/ p.last THEN SetPage(Returned, base) /\ UNCHANGED provider
     ELSE SelectNext(p)
  /\ UNCHANGED <<pageMode, resolver, dnsLock, others, dnsSave, early>>

(* The other fetches, by the same code. *)
OthersMove(b) ==
  /\ pageMode.up /\ AutoMirror /\ b # base
  /\ SetPage(page, b)
  /\ UNCHANGED <<pageMode, provider, resolver, dnsLock, others, dnsSave, early>>
OthersRotate ==
  /\ pageMode.up /\ AutoDns /\ others = "idle" /\ others' = "lock"
  /\ \/ provider' = IF provider + 1 >= ProviderCount THEN SystemDns ELSE provider
     \/ provider + 1 < ProviderCount /\ UNCHANGED provider
  /\ UNCHANGED <<pageMode, base, resolver, dnsLock, page, dnsSave, early>>
OthersTakeDnsLock ==
  /\ others = "lock" /\ dnsLock = NoPage
  /\ IF provider + 1 >= ProviderCount
     THEN others' = "idle" /\ UNCHANGED <<provider, dnsLock, resolver>>
     ELSE /\ provider' = provider + 1 /\ dnsLock' = "others" /\ resolver' = provider'
          /\ others' = "switch"
  /\ UNCHANGED <<pageMode, base, page, dnsSave, early>>
OthersSwitched ==
  /\ others = "switch" /\ others' = "idle" /\ dnsLock' = NoPage
  /\ \E b \in {base, 0} : SetPage(page, b)
  /\ UNCHANGED <<pageMode, provider, resolver, dnsSave, early>>
FetchStep ==
  \/ Top \/ Answered \/ Redirected \/ Unavailable \/ Forbidden \/ Failed
  \/ NotResolved \/ TakeDnsLock \/ Switched
  \/ Bypassed \/ BrowserFails
OthersStep == OthersTakeDnsLock \/ OthersSwitched

PageNext ==
  \/ StartService \/ SaveDns \/ SetDnsProvider \/ DnsProviderSet
  \/ Begin \/ CancelPage \/ FetchStep
  \/ (\E b \in Mirror : OthersMove(b)) \/ OthersRotate \/ OthersTakeDnsLock
  \/ OthersSwitched

\* A request ends by its timeouts, a look-up and the browser by theirs, and a lock is
\* handed to those that wait for it in turn.
PageFairness ==
  /\ WF_pageVars(DnsProviderSet) /\ WF_pageVars(FetchStep) /\ WF_pageVars(OthersStep)
  /\ SF_pageVars(TakeDnsLock)
PageSpec == PageInit /\ [][PageNext]_pageVars /\ PageFairness

-----------------------------------------------------------------------------
\* The variables keep their types: the index of the DNS provider stays among the
\* providers although it starts over outside the lock that guards its increment.
PageTypeOK ==
  /\ base \in Mirror /\ provider \in {SystemDns} \cup Provider
  /\ resolver \in {SystemDns} \cup Provider
  /\ dnsLock \in {NoPage, "fetch", "others", "settings"}
  /\ others \in {"idle", "lock", "switch"}
  /\ page.own \in Mirror /\ page.url \in Mirror /\ page.attempt \in 1..RetryLimit
  /\ PageAt("switch") <=> dnsLock = "fetch"

\* When nobody switches the DNS, or is about to, the resolver in force is the one
\* of the current provider, whatever rotations and settings have crossed before.
ResolverIsProviders ==
  dnsLock = NoPage /\ dnsSave # "lock" /\ ~PageAt("lock") /\ others # "lock"
    => resolver = provider

\* A DNS provider chosen in the settings stays in force: only a rotation that had
\* found the DNS in automatic mode before it was saved replaces it.
ChosenDnsStays ==
  dnsSave = "done" /\ dnsLock = NoPage /\ ~early => resolver = pageMode.dns

\* Every fetch comes to its end, unless mirrors go on redirecting it for ever.
FetchEnds ==
  []<>PageAt("idle") \/ []<>(PageAt("lock") /\ page.why = "redirect")

\* What html_get_page documents: a maximum number of attempts before it gives up, and
\* a flag to abort them early.  A fetch that is cancelled ends.
PagesEnd == page.cancelled ~> PageAt("idle")

\* The resolver in force is the one that was chosen, by the settings or the rotation.
DnsInForce == ResolverIsProviders /\ ChosenDnsStays
====
