--------------------------- MODULE TransferProofs ---------------------------
(***************************************************************************)
(* Proofs about the components that fetch over HTTP and about the accounts:*)
(* PageFetch, for any mirrors, providers and attempts; DirectDownload, for *)
(* any sources, links and pieces; Accounts, for any names and identities.  *)
(***************************************************************************)
EXTENDS MCTransfers, ListProofs

-----------------------------------------------------------------------------
(***************************************************************************)
(* PageFetch.  Each of two indexes is written outside the lock: a rotation *)
(* that starts over takes the provider to the system's, and then it or     *)
(* another goes on to the lock, where it will set both or find that others *)
(* have done so.  A provider's resolver is in force whenever the index is a*)
(* provider's.                                                             *)
(***************************************************************************)
RotationWaits == PageAt("lock") \/ others = "lock"

Agree ==
  /\ provider # SystemDns => resolver = provider
  /\ provider = SystemDns /\ resolver # SystemDns => RotationWaits

Chosen ==
  /\ dnsSave # "none" => ~AutoDns
  /\ dnsSave # "none" /\ ~early =>
       page.pc \notin {"lock", "switch"} /\ others \notin {"lock", "switch"}
  /\ dnsSave \in {"switch", "done"} /\ ~early => resolver = pageMode.dns

PageState ==
  [pc : {"idle", "top", "asked", "sent", "unresolved", "lock", "switch", "bypass"},
   way : {"strict", "soft", "hard"}, link : Mirror, own : Mirror, url : Mirror,
   tried : Nat, attempt : 1..RetryLimit,
   why : {"none", "redirect", "resolve", "bypass", "retry", "blocked"},
   how : {"none", "reset", "plain", "keep"}, last : BOOLEAN, cancelled : BOOLEAN]

PageFields ==
  /\ page \in PageState
  /\ pageMode \in [up : BOOLEAN, autoMirror : BOOLEAN, autoDns : BOOLEAN, dns : DnsChoice]
  /\ base \in Mirror /\ provider \in DnsChoice /\ resolver \in DnsChoice
  /\ dnsLock \in {NoPage, "fetch", "others", "settings"}
  /\ others \in {"idle", "lock", "switch"}
  /\ dnsSave \in {"none", "lock", "switch", "done"} /\ early \in BOOLEAN
  /\ PageAt("switch") <=> dnsLock = "fetch"
  /\ (others = "switch") <=> dnsLock = "others"
  /\ (dnsSave = "switch") <=> dnsLock = "settings"
  /\ page.pc \in {"lock", "switch"} => page.why # "none" /\ page.how # "none"

PageInv == PageFields /\ Agree /\ Chosen

\* Where a fetch goes that neither waits for the lock nor holds it.
Elsewhere == {"idle", "top", "asked", "sent", "unresolved", "bypass"}

\* The next attempt, or the end.
LEMMA NextAttemptGoes ==
  ASSUME NEW p \in PageState
  PROVE  NextAttempt(p) \in PageState /\ NextAttempt(p).pc \in Elsewhere
<1> USE PageAssumption DEF PageState, Elsewhere, Mirror
<1>1. Returned \in PageState /\ Returned.pc = "idle"
  BY DEF Returned, NoFetch
<1>2. CASE p.attempt < RetryLimit
  <2> DEFINE n == p.attempt + 1
  <2>1. n \in 1..RetryLimit
    BY <1>2
  <2>2. NextAttempt(p) = [p EXCEPT !.pc = "top", !.attempt = n]
    BY <1>2 DEF NextAttempt
  <2> HIDE DEF n
  <2> QED BY <2>1, <2>2
<1>3. CASE ~(p.attempt < RetryLimit)
  BY <1>1, <1>3 DEF NextAttempt
<1> QED BY <1>2, <1>3

\* After a rotation, and after one that found nothing, a fetch has left the lock.
LEMMA ContinuedGoes ==
  ASSUME NEW p \in PageState, p.why # "none"
  PROVE  Continued(p) \in PageState /\ Continued(p).pc \in Elsewhere
<1> DEFINE q == [p EXCEPT !.why = "none", !.how = "none"]
<1>1. q \in PageState
  BY DEF PageState
<1>2. CASE p.why \in {"retry", "blocked"}
  BY <1>1, <1>2, NextAttemptGoes DEF Continued
<1>3. CASE p.why = "redirect"
  BY <1>1, <1>3 DEF Continued, Sending, PageState, Elsewhere
<1>4. CASE p.why = "resolve"
  BY <1>1, <1>4 DEF Continued, PageState, Elsewhere
<1>5. CASE p.why = "bypass"
  BY <1>1, <1>5 DEF Continued, PageState, Elsewhere
<1> QED BY <1>2, <1>3, <1>4, <1>5 DEF PageState

\* A page that gives up goes on elsewhere, without a reason to rotate.
LEMMA GaveUpGoes ==
  ASSUME NEW p \in PageState, p.why # "none"
  PROVE  GaveUp(p) \in PageState /\ GaveUp(p).pc \in Elsewhere
<1> DEFINE q == [p EXCEPT !.why = "none", !.how = "none"]
<1>1. q \in PageState
  BY DEF PageState
<1>2. CASE p.why = "retry"
  BY <1>1, <1>2, NextAttemptGoes DEF GaveUp
<1>3. CASE p.why \in {"redirect", "bypass", "blocked"}
  <2>1. Returned \in PageState /\ Returned.pc = "idle"
    BY PageAssumption DEF Returned, NoFetch, PageState, Mirror
  <2> QED BY <1>3, <2>1 DEF GaveUp, Elsewhere
<1>4. CASE p.why = "resolve"
  BY <1>1, <1>4 DEF GaveUp, PageState, Elsewhere
<1> QED BY <1>2, <1>3, <1>4 DEF PageState

\* A rotation of mirrors is over at once; one of the DNS goes to the lock, in
\* automatic mode only.
Rotates ==
  /\ page' \in PageState /\ base' \in Mirror
  /\ \/ /\ page'.pc = "lock" /\ page'.why # "none" /\ page'.how # "none"
        /\ AutoDns /\ provider' \in {provider, SystemDns}
     \/ page'.pc \in Elsewhere /\ provider' = provider

\* A rotation of the provider goes to the lock or leaves the provider alone.
LEMMA RotateDnsEffect ==
  ASSUME PageFields, NEW p \in PageState, p.why # "none",
         NEW how \in {"reset", "plain"}, RotateDns(p, how)
  PROVE  Rotates
<1>1. CASE AutoDns
  <2>1. page' = [p EXCEPT !.pc = "lock", !.how = how] /\ base' = base
        /\ provider' \in {provider, SystemDns}
    BY <1>1 DEF RotateDns, SetPage
  <2>2. page' \in PageState /\ page'.pc = "lock" /\ page'.why # "none" /\ page'.how # "none"
    BY <2>1 DEF PageState
  <2> QED BY <1>1, <2>1, <2>2 DEF Rotates, PageFields
<1>2. CASE ~AutoDns
  BY <1>2, GaveUpGoes DEF RotateDns, SetPage, Rotates, PageFields
<1> QED BY <1>1, <1>2

\* So does the choice of the next mirror, which may have to start over.
LEMMA SelectNextEffect ==
  ASSUME PageFields, NEW p \in PageState, p.why # "none", SelectNext(p)
  PROVE  Rotates
<1> DEFINE q == [p EXCEPT !.tried = @ + 1]
           next == (p.own + 1) % MirrorCount
           m == [q EXCEPT !.own = next, !.url = next]
<1>1. q \in PageState /\ q.why # "none"
  BY DEF PageState
<1>2. next \in Mirror
  BY PageAssumption DEF PageState, Mirror
<1>3. m \in PageState /\ m.why # "none"
  <2> HIDE DEF next, q
  <2> QED BY <1>1, <1>2 DEF PageState
<1>4. \/ RotateDns(q, "reset")
      \/ page' = Continued(m) /\ base' = next /\ provider' = provider
  BY DEF SelectNext, SetPage
<1> HIDE DEF next, q, m
<1> QED BY <1>1, <1>2, <1>3, <1>4, RotateDnsEffect, ContinuedGoes DEF Rotates

\* And any rotation a page tries.
LEMMA TryRotationEffect ==
  ASSUME PageFields, NEW why \in {"redirect", "retry", "blocked"}, TryRotation(why)
  PROVE  Rotates
<1> DEFINE p == [page EXCEPT !.why = why]
<1>1. p \in PageState /\ p.why # "none"
  BY DEF PageFields, PageState
<1>2. SelectNext(p) \/ RotateDns(p, "plain")
  BY DEF TryRotation
<1> HIDE DEF p
<1> QED BY <1>1, <1>2, SelectNextEffect, RotateDnsEffect

\* A fetch away from the lock moves, and a rotation may have sent it there.
LEMMA FetchMoves ==
  ASSUME PageInv, page.pc \notin {"lock", "switch"}, Rotates,
         UNCHANGED <<pageMode, resolver, dnsLock, others, dnsSave, early>>
  PROVE  PageInv'
<1> USE DEF PageInv, PageFields, PageAt, Rotates, Elsewhere
<1>1. PageFields'
  <2>1. provider' \in DnsChoice
    BY DEF DnsChoice
  <2>2. page'.pc \in {"lock", "switch"} => page'.why # "none" /\ page'.how # "none"
    OBVIOUS
  <2>3. page'.pc # "switch" /\ dnsLock' # "fetch"
    OBVIOUS
  <2> QED BY <2>1, <2>2, <2>3
<1>2. Agree'
  BY DEF Agree, RotationWaits
<1>3. Chosen'
  BY DEF Chosen, AutoDns
<1> QED BY <1>1, <1>2, <1>3

\* Every step of the fetch that is followed, away from the lock.
LEMMA FetchSteps ==
  ASSUME PageInv,
         \/ Begin \/ CancelPage \/ Top \/ Answered \/ Redirected \/ Unavailable \/ Forbidden
         \/ Failed \/ Bypassed \/ BrowserFails
  PROVE  PageInv'
<1> USE DEF PageInv
<1>1. page \in PageState /\ base \in Mirror /\ PageFields
  BY DEF PageFields
<1>2. Returned \in PageState /\ Returned.pc = "idle"
  BY PageAssumption DEF Returned, NoFetch, PageState, Mirror
<1>3. CASE Begin
  <2>1. PICK way \in PageWays :
          page' = [NoFetch EXCEPT !.pc = "top", !.way = way, !.link = base, !.own = base,
                                  !.url = base]
    BY <1>3 DEF Begin
  <2>2. way \in {"strict", "soft", "hard"}
    BY PageAssumption
  <2>3. page' \in PageState /\ page'.pc = "top"
    <3>1. NoFetch \in PageState
      BY <1>2 DEF Returned
    <3> QED BY <1>1, <2>1, <2>2, <3>1 DEF PageState
  <2>4. Rotates
    BY <1>1, <1>3, <2>3 DEF Begin, Rotates, Elsewhere
  <2> QED BY <1>3, <2>4, FetchMoves DEF Begin, PageAt
<1>4. CASE CancelPage
  <2>1. page' \in PageState /\ page'.pc = page.pc /\ page'.why = page.why /\ page'.how = page.how
    BY <1>1, <1>4 DEF CancelPage, PageState
  <2>2. UNCHANGED <<pageMode, base, provider, resolver, dnsLock, others, dnsSave, early>>
    BY <1>4 DEF CancelPage
  <2>3. PageFields'
    BY <2>1, <2>2 DEF PageFields, PageAt
  <2>4. Agree' /\ Chosen'
    BY <2>1, <2>2 DEF Agree, Chosen, RotationWaits, PageAt, AutoDns
  <2> QED BY <2>3, <2>4
<1>5. CASE Top
  <2>1. page' \in PageState /\ page'.pc \in Elsewhere
    BY <1>1, <1>2, <1>5 DEF Top, PageState, Elsewhere, Sending
  <2>2. Rotates
    BY <1>1, <1>5, <2>1 DEF Top, Rotates
  <2> QED BY <1>5, <2>2, FetchMoves DEF Top, PageAt
<1>6. CASE Answered \/ Bypassed
  <2>1. Rotates
    BY <1>1, <1>2, <1>6 DEF Answered, Bypassed, Rotates, Elsewhere
  <2> QED BY <1>6, <2>1, FetchMoves DEF Answered, Bypassed, PageAt, InFlight
<1>7. CASE Redirected
  <2>1. Rotates
    BY <1>1, <1>2, <1>7, TryRotationEffect DEF Redirected, SetPage, Rotates, Elsewhere
  <2> QED BY <1>7, <2>1, FetchMoves DEF Redirected, InFlight
<1>8. CASE Unavailable
  BY <1>1, <1>8, TryRotationEffect, FetchMoves DEF Unavailable, InFlight, PageAt
<1>9. CASE Forbidden
  <2>1. CASE TryRotation("blocked")
    BY <1>1, <1>9, <2>1, TryRotationEffect, FetchMoves DEF Forbidden, InFlight
  <2>2. ASSUME NEW way \in {"soft", "hard"}, provider' = provider,
               SetPage(NextAttempt([page EXCEPT !.way = way]), base)
        PROVE  PageInv'
    <3> DEFINE p == [page EXCEPT !.way = way]
    <3>1. p \in PageState
      BY <1>1 DEF PageState
    <3>2. page' = NextAttempt(p) /\ base' = base
      BY <2>2 DEF SetPage
    <3> HIDE DEF p
    <3>3. Rotates
      BY <1>1, <2>2, <3>1, <3>2, NextAttemptGoes DEF Rotates
    <3> QED BY <1>9, <3>3, FetchMoves DEF Forbidden, InFlight
  <2> QED BY <1>9, <2>1, <2>2 DEF Forbidden
<1>10. CASE Failed
  <2>1. Rotates
    BY <1>1, <1>10, NextAttemptGoes DEF Failed, SetPage, Rotates
  <2> QED BY <1>10, <2>1, FetchMoves DEF Failed, InFlight
<1>11. CASE BrowserFails
  <2> DEFINE p == [page EXCEPT !.why = "bypass"]
  <2>1. p \in PageState /\ p.why # "none"
    BY <1>1 DEF PageState
  <2>2. \/ page' = Returned /\ base' = base /\ provider' = provider
        \/ SelectNext(p)
    BY <1>11 DEF BrowserFails, SetPage
  <2> HIDE DEF p
  <2>3. Rotates
    BY <1>1, <1>2, <2>1, <2>2, SelectNextEffect DEF Rotates, Elsewhere
  <2> QED BY <1>11, <2>3, FetchMoves DEF BrowserFails, PageAt
<1> QED BY <1>3, <1>4, <1>5, <1>6, <1>7, <1>8, <1>9, <1>10, <1>11

\* The steps that wait for the lock, take it and leave it.
LEMMA LockSteps ==
  ASSUME PageInv,
         \/ NotResolved \/ TakeDnsLock \/ Switched
         \/ SaveDns \/ SetDnsProvider \/ DnsProviderSet
         \/ OthersRotate \/ OthersTakeDnsLock \/ OthersSwitched
  PROVE  PageInv'
<1> USE PageAssumption DEF PageInv
<1>1. page \in PageState /\ base \in Mirror /\ PageFields
      /\ provider \in Int /\ ProviderCount \in Nat \ {0} /\ 0 \in Mirror
      /\ (provider + 1 < ProviderCount => provider + 1 \in DnsChoice /\ provider + 1 # SystemDns)
  BY DEF PageFields, DnsChoice, Provider, SystemDns, Mirror
<1>2. CASE NotResolved
  <2>1. page' \in PageState /\ page'.pc = "lock" /\ page'.why = "resolve" /\ page'.how = "keep"
        /\ base' = base /\ page.pc = "asked" /\ AutoDns
        /\ UNCHANGED <<pageMode, provider, resolver, dnsLock, others, dnsSave, early>>
    BY <1>1, <1>2 DEF NotResolved, SetPage, PageState, PageAt
  <2>2. PageFields'
    BY <1>1, <2>1 DEF PageFields, PageAt
  <2>3. Agree' /\ Chosen'
    BY <2>1 DEF Agree, Chosen, RotationWaits, PageAt, AutoDns
  <2> QED BY <2>2, <2>3
<1>3. CASE TakeDnsLock
  <2>1. PageAt("lock") /\ dnsLock = NoPage /\ page.why # "none" /\ page.pc = "lock"
        /\ UNCHANGED <<pageMode, others, dnsSave, early>>
    BY <1>1, <1>3 DEF TakeDnsLock, PageFields, PageAt
  <2>2. CASE provider + 1 >= ProviderCount
    <3>1. /\ page' = GaveUp(page) /\ base' = base
          /\ UNCHANGED <<provider, dnsLock, resolver>>
      BY <1>3, <2>2 DEF TakeDnsLock, SetPage
    <3>2. page' \in PageState /\ page'.pc \in Elsewhere
      BY <1>1, <2>1, <3>1, GaveUpGoes
    <3>3. provider # SystemDns
      BY <1>1, <2>2 DEF SystemDns
    <3>4. PageFields'
      BY <1>1, <2>1, <3>1, <3>2 DEF PageFields, PageAt, Elsewhere
    <3>5. Agree' /\ Chosen'
      BY <2>1, <3>1, <3>2, <3>3 DEF Agree, Chosen, RotationWaits, PageAt, AutoDns, Elsewhere
    <3> QED BY <3>4, <3>5
  <2>3. CASE ~(provider + 1 >= ProviderCount)
    <3>1. /\ page' = [page EXCEPT !.pc = "switch"] /\ base' = base
          /\ provider' = provider + 1 /\ dnsLock' = "fetch" /\ resolver' = provider'
      BY <1>3, <2>3 DEF TakeDnsLock, SetPage
    <3>2. page' \in PageState /\ page'.pc = "switch" /\ page'.why = page.why
          /\ page'.how = page.how
      BY <1>1, <3>1 DEF PageState
    <3>3. provider' \in DnsChoice /\ provider' # SystemDns
      BY <1>1, <2>3, <3>1
    <3>4. PageFields'
      BY <1>1, <2>1, <3>1, <3>2, <3>3 DEF PageFields, PageAt
    <3>5. Agree' /\ Chosen'
      BY <2>1, <3>1, <3>2, <3>3 DEF Agree, Chosen, PageAt, AutoDns
    <3> QED BY <3>4, <3>5
  <2> QED BY <2>2, <2>3
<1>4. CASE Switched
  <2>1. page.pc = "switch" /\ page.why # "none" /\ page.how # "none" /\ dnsLock' = NoPage
        /\ dnsLock = "fetch"
        /\ UNCHANGED <<pageMode, provider, resolver, others, dnsSave, early>>
    BY <1>1, <1>4 DEF Switched, PageFields, PageAt
  <2>2. \/ page' = Continued(FreshSelector(page)) /\ base' = 0
        \/ page' = Continued([page EXCEPT !.url = page.link]) /\ base' = base
        \/ page' = Continued(page) /\ base' = base
    <3>1. page.how \in {"reset", "plain", "keep"}
      BY <1>1, <2>1 DEF PageState
    <3> QED BY <1>4, <3>1 DEF Switched, SetPage
  <2>3. FreshSelector(page) \in PageState /\ FreshSelector(page).why = page.why
    BY <1>1 DEF FreshSelector, PageState
  <2>4. /\ [page EXCEPT !.url = page.link] \in PageState
        /\ [page EXCEPT !.url = page.link].why = page.why
    BY <1>1 DEF PageState
  <2>5. page' \in PageState /\ page'.pc \in Elsewhere /\ base' \in Mirror
    BY <1>1, <2>1, <2>2, <2>3, <2>4, ContinuedGoes
  <2>6. PageFields'
    BY <1>1, <2>1, <2>5 DEF PageFields, PageAt, Elsewhere
  <2>7. Agree' /\ Chosen'
    BY <2>1, <2>5 DEF Agree, Chosen, RotationWaits, PageAt, AutoDns, Elsewhere
  <2> QED BY <2>6, <2>7
<1>5. CASE SaveDns
  <2>1. PICK choice \in DnsChoice :
          pageMode' = [pageMode EXCEPT !.autoDns = FALSE, !.dns = choice]
    BY <1>5 DEF SaveDns
  <2>2. /\ pageMode' \in [up : BOOLEAN, autoMirror : BOOLEAN, autoDns : BOOLEAN, dns : DnsChoice]
        /\ ~pageMode'.autoDns
    BY <1>1, <2>1 DEF PageFields
  <2>3. early' \in BOOLEAN /\
        (~early' => page.pc \notin {"lock", "switch"} /\ others \notin {"lock", "switch"})
    BY <1>5 DEF SaveDns
  <2>4. PageFields'
    BY <1>1, <1>5, <2>2, <2>3 DEF SaveDns, PageFields, PageAt
  <2>5. Agree' /\ Chosen'
    BY <1>5, <2>2, <2>3 DEF SaveDns, Agree, Chosen, RotationWaits, PageAt, AutoDns
  <2> QED BY <2>4, <2>5
<1>6. CASE SetDnsProvider
  <2>1. PageFields'
    BY <1>1, <1>6 DEF SetDnsProvider, PageFields, PageAt
  <2>2. Agree' /\ Chosen'
    BY <1>1, <1>6 DEF SetDnsProvider, PageFields, Agree, Chosen, RotationWaits, PageAt, AutoDns
  <2> QED BY <2>1, <2>2
<1>7. CASE DnsProviderSet
  <2>1. PageFields'
    BY <1>1, <1>7 DEF DnsProviderSet, PageFields, PageAt
  <2>2. Agree' /\ Chosen'
    BY <1>7 DEF DnsProviderSet, Agree, Chosen, RotationWaits, PageAt, AutoDns
  <2> QED BY <2>1, <2>2
<1>8. CASE OthersRotate
  <2>1. PageFields'
    BY <1>1, <1>8 DEF OthersRotate, PageFields, PageAt, DnsChoice
  <2>2. Agree' /\ Chosen'
    BY <1>8 DEF OthersRotate, Agree, Chosen, RotationWaits, PageAt, AutoDns
  <2> QED BY <2>1, <2>2
<1>9. CASE OthersTakeDnsLock
  <2>1. PageFields'
    BY <1>1, <1>9 DEF OthersTakeDnsLock, PageFields, PageAt
  <2>2. Agree'
    BY <1>1, <1>9 DEF OthersTakeDnsLock, Agree, RotationWaits, PageAt, SystemDns
  <2>3. Chosen'
    BY <1>9 DEF OthersTakeDnsLock, Chosen, AutoDns
  <2> QED BY <2>1, <2>2, <2>3
<1>10. CASE OthersSwitched
  <2>1. base' \in Mirror /\ page' = page
    BY <1>1, <1>10 DEF OthersSwitched, SetPage
  <2>2. PageFields'
    BY <1>1, <1>10, <2>1 DEF OthersSwitched, PageFields, PageAt
  <2>3. Agree' /\ Chosen'
    BY <1>10, <2>1 DEF OthersSwitched, Agree, Chosen, RotationWaits, PageAt, AutoDns
  <2> QED BY <2>2, <2>3
<1> QED BY <1>2, <1>3, <1>4, <1>5, <1>6, <1>7, <1>8, <1>9, <1>10

\* Every step keeps the invariant.
LEMMA PageInvStep == PageInv /\ [PageNext]_pageVars => PageInv'
<1> SUFFICES ASSUME PageInv, [PageNext]_pageVars PROVE PageInv'
  OBVIOUS
<1> USE DEF PageInv, Agree, Chosen, RotationWaits, PageAt, AutoDns, PageFields
<1>1. CASE StartService
  <2>1. pageMode' \in [up : BOOLEAN, autoMirror : BOOLEAN, autoDns : BOOLEAN, dns : DnsChoice]
        /\ pageMode'.autoDns = pageMode.autoDns /\ pageMode'.dns = pageMode.dns
    BY <1>1, PageAssumption DEF StartService
  <2> QED BY <1>1, <2>1 DEF StartService
<1>2. ASSUME NEW b \in Mirror, OthersMove(b) PROVE PageInv'
  BY <1>2 DEF OthersMove, SetPage
<1>3. CASE UNCHANGED pageVars
  BY <1>3 DEF pageVars
<1> QED BY <1>1, <1>2, <1>3, FetchSteps, LockSteps DEF PageNext, FetchStep

\* Initially the system resolves names and nothing is fetched.
LEMMA PageInvInit == PageInit => PageInv
<1> SUFFICES ASSUME PageInit PROVE PageInv
  OBVIOUS
<1>1. page \in PageState /\ page.pc = "idle"
  BY PageAssumption DEF PageInit, NoFetch, PageState, Mirror
<1>2. pageMode \in [up : BOOLEAN, autoMirror : BOOLEAN, autoDns : BOOLEAN, dns : DnsChoice]
  BY DEF PageInit, DnsChoice
<1>3. base \in Mirror /\ provider \in DnsChoice /\ resolver \in DnsChoice
  BY PageAssumption DEF PageInit, DnsChoice, Mirror
<1>4. PageFields
  BY <1>1, <1>2, <1>3, PageAssumption DEF PageInit, PageFields, PageAt
<1> QED BY <1>1, <1>4 DEF PageInit, PageInv, Agree, Chosen

\* The inductive invariant holds in every reachable state.
THEOREM PageInvariant == PageSpec => []PageInv
BY PageInvInit, PageInvStep, PTL DEF PageSpec

\* Types; the index of the DNS provider stays among the providers although it
\* starts over outside the lock that guards its increment.
THEOREM PageTyped == PageSpec => []PageTypeOK
<1>1. PageInv => PageTypeOK
  BY DEF PageInv, PageFields, PageState, PageTypeOK, DnsChoice
<1> QED BY <1>1, PageInvariant, PTL

\* Whatever rotations and settings cross, the resolver in force is the current
\* provider's once nobody waits for the lock, and a provider that was chosen in the
\* settings stays unless a rotation was under way when it was saved.
THEOREM PageDnsInForce == PageSpec => []DnsInForce
<1>1. PageInv => DnsInForce
  BY DEF PageInv, Agree, Chosen, RotationWaits, DnsInForce, ResolverIsProviders, ChosenDnsStays
<1> QED BY <1>1, PageInvariant, PTL

-----------------------------------------------------------------------------
(***************************************************************************)
(* DirectDownload.  The buffer holds as many pieces as the transfer counts,*)
(* and a request reads on from there; a file of the download's own lies at *)
(* its name from the write to the hand-over, and after it only because a   *)
(* delivery or a removal failed; and while the rival has not touched it,   *)
(* no other file lies there that the task knows the path of.               *)
(***************************************************************************)
Handover == {"returned", "handed", "reused", "posting"}

DirectFields(d) ==
  d \in [pc : {d.pc}, todo : {d.todo}, bypass : {d.bypass}, source : {d.source},
         links : {d.links}, urls : {d.urls}, failed : {d.failed}, waits : {d.waits},
         attempt : {d.attempt}, resumes : {d.resumes}, refreshed : {d.refreshed},
         buffer : Seq(Nat), from : Nat, pos : Nat, ok : BOOLEAN, cancelled : BOOLEAN,
         got : {"nothing", "missing", "part", "own", "rival"}]

NoGap(d) ==
  /\ d.from = Len(d.buffer) /\ \A i \in 1..Len(d.buffer) : d.buffer[i] = i
  /\ d.pc \in {"stream", "resumed"} => d.pos = d.from

HandsOver(d) ==
  /\ d.ok => d.pc \in Handover
  /\ d.pc \in {"handed", "reused", "posting"} => d.ok
  /\ d.got # "nothing" => d.pc = "idle"

\* A download that has handed over nothing and not written its file.
Working(d) ==
  /\ DirectFields(d) /\ NoGap(d) /\ ~d.ok /\ d.got = "nothing"
  /\ d.pc \notin {"handed", "reused", "posting"}

FileFits ==
  /\ staged \in {"none", "part", "own", "rival"} /\ rival \in BOOLEAN /\ crossed \in BOOLEAN
  /\ stagedPath \in BOOLEAN /\ left \in BOOLEAN
  /\ OwnBookUnlessCrossed
  /\ direct.ok /\ ~crossed => staged = "own"
  /\ stagedPath /\ ~crossed => staged \in {"own", "none"}
  /\ stagedPath => direct.ok \/ direct.pc = "idle"
  /\ staged = "own" => direct.ok \/ left
  /\ staged = "rival" => rival

DirectInv == DirectFields(direct) /\ NoGap(direct) /\ HandsOver(direct) /\ FileFits

\* What a download does before it writes its file leaves the file alone.
LEMMA WorkKeeps ==
  ASSUME DirectInv, ~direct.ok, direct.pc # "idle", NEW d, Working(d), direct' = d, FileAlone
  PROVE  DirectInv'
<1>1. DirectFields(direct)' /\ NoGap(direct)'
  BY DEF Working, DirectFields, NoGap
<1>2. HandsOver(direct)'
  BY DEF Working, HandsOver, Handover
<1>3. FileFits'
  BY DEF DirectInv, FileFits, FileAlone, Working, OwnBookUnlessCrossed
<1> QED BY <1>1, <1>2, <1>3 DEF DirectInv

\* The step a download is at changes, and what counts its tries.
LEMMA Goes ==
  ASSUME NEW d, Working(d)
  PROVE  /\ Working([d EXCEPT !.pc = "source"]) /\ Working([d EXCEPT !.pc = "list"])
         /\ Working([d EXCEPT !.pc = "connect"]) /\ Working([d EXCEPT !.pc = "countdown"])
         /\ Working([d EXCEPT !.pc = "refresh"]) /\ Working([d EXCEPT !.pc = "backoff"])
         /\ Working([d EXCEPT !.pc = "returned"])
BY DEF Working, DirectFields, NoGap

\* The links that are left are counted.
LEMMA LinksLeft ==
  ASSUME NEW d, Working(d), NEW n
  PROVE  Working([d EXCEPT !.pc = "url", !.urls = n])
BY DEF Working, DirectFields, NoGap

\* A request that reads from the start.
LEMMA StreamsAnew ==
  ASSUME NEW d, Working(d)
  PROVE  Working([d EXCEPT !.pc = "stream", !.buffer = <<>>, !.from = 0, !.pos = 0])
<1> DEFINE t == [d EXCEPT !.pc = "stream", !.buffer = <<>>, !.from = 0, !.pos = 0]
<1>1. <<>> \in Seq(Nat) /\ Len(<<>>) = 0
  OBVIOUS
<1>2. DirectFields(t) /\ t.pc = "stream" /\ ~t.ok /\ t.got = "nothing" /\ t.buffer = <<>>
      /\ t.from = 0 /\ t.pos = 0
  BY <1>1 DEF Working, DirectFields
<1> HIDE DEF t
<1>3. Working(t)
  BY <1>1, <1>2 DEF Working, NoGap
<1> QED BY <1>3 DEF t

\* A link that failed, and a transfer that begins anew.
LEMMA TriedIsWorking ==
  ASSUME NEW d, Working(d)
  PROVE  Working(UrlFailed(d)) /\ Working(NextTransfer(d))
<1>2. Working(UrlFailed(d))
  <2> DEFINE q == [d EXCEPT !.failed = @ + 1, !.buffer = <<>>, !.from = 0, !.pos = 0,
                            !.attempt = 0, !.resumes = 0, !.refreshed = FALSE]
  <2>1. q.buffer = <<>> /\ <<>> \in Seq(Nat) /\ Len(<<>>) = 0
    BY DEF Working, DirectFields
  <2>2. DirectFields(q) /\ ~q.ok /\ q.got = "nothing" /\ q.from = 0 /\ q.pos = 0
    BY <2>1 DEF Working, DirectFields
  <2>3. UrlFailed(d) \in {[q EXCEPT !.pc = "source", !.urls = 0], [q EXCEPT !.pc = "url"]}
    BY DEF UrlFailed
  <2> HIDE DEF q
  <2>4. ASSUME NEW t \in {[q EXCEPT !.pc = "source", !.urls = 0], [q EXCEPT !.pc = "url"]}
        PROVE  Working(t)
    <3>1. DirectFields(t)
      BY <2>2 DEF DirectFields
    <3>2. /\ t.pc \in {"source", "url"} /\ ~t.ok /\ t.got = "nothing" /\ t.buffer = <<>>
          /\ t.from = 0
      BY <2>1, <2>2 DEF DirectFields
    <3> QED BY <2>1, <3>1, <3>2 DEF Working, NoGap
  <2> QED BY <2>3, <2>4
<1>3. Working(NextTransfer(d))
  BY DEF NextTransfer, Working, DirectFields, NoGap
<1> QED BY <1>2, <1>3

\* A piece is appended where the request reads on.
LEMMA ChunkIsWorking ==
  ASSUME NEW d, Working(d), d.pc \in {"stream", "resumed"}
  PROVE  Working(Chunk(d))
<1> DEFINE b == Append(d.buffer, d.pos + 1)
<1>1. d.pos = Len(d.buffer) /\ d.from = Len(d.buffer) /\ d.buffer \in Seq(Nat) /\ d.pos \in Nat
  BY DEF Working, NoGap, DirectFields
<1>2. b \in Seq(Nat) /\ Len(b) = d.pos + 1 /\ \A i \in 1..Len(b) : b[i] = i
  BY <1>1 DEF Working, NoGap
<1>3. Chunk(d) = [d EXCEPT !.buffer = b, !.pos = d.pos + 1, !.from = d.from + 1]
  BY DEF Chunk, Working, DirectFields
<1> HIDE DEF b
<1> DEFINE n == d.pos + 1
           t == [d EXCEPT !.buffer = b, !.pos = d.pos + 1, !.from = d.from + 1]
<1>4. DirectFields(t)
  <2>1. n \in Nat /\ t = [d EXCEPT !.buffer = b, !.pos = n, !.from = n]
    BY <1>1
  <2>2. DirectFields(d)
    BY DEF Working
  <2> HIDE DEF n
  <2>3. DirectFields([d EXCEPT !.buffer = b, !.pos = n, !.from = n])
    BY <1>2, <2>1, <2>2 DEF DirectFields
  <2> QED BY <2>1, <2>3
<1>5. /\ t.pc = d.pc /\ t.buffer = b /\ t.pos = d.pos + 1 /\ t.from = d.from + 1
      /\ t.ok = d.ok /\ t.got = d.got
  BY DEF Working, DirectFields
<1> HIDE DEF t
<1>6. Working(t)
  BY <1>1, <1>2, <1>4, <1>5 DEF Working, NoGap
<1> QED BY <1>3, <1>6 DEF t

\* The steps before the file is written.
LEMMA WorkSteps ==
  ASSUME DirectInv,
         \/ NextSource \/ ListLinks \/ NextLink \/ Resolved \/ LinkFails \/ ZlibAgain
         \/ Countdown \/ CountdownEnds \/ ConnectLink \/ StreamChunk \/ Refused
         \/ RefreshCookies \/ CookiesRefreshed \/ StreamLost
         \/ Resume \/ Unresumable \/ ResumeChunk \/ ResumeLost
  PROVE  DirectInv'
<1> USE DEF Becomes, DirectAt, DirectTo
<1>1. SUFFICES ASSUME NEW d, direct' = d, FileAlone PROVE ~direct.ok /\ direct.pc # "idle" /\ Working(d)
  <2>1. FileAlone
    BY DEF NextSource, ListLinks, NextLink, Resolved, LinkFails, ZlibAgain,
      Countdown, CountdownEnds, ConnectLink, StreamChunk, Refused, RefreshCookies,
      CookiesRefreshed, StreamLost, Resume, Unresumable, ResumeChunk, ResumeLost
  <2> QED BY <1>1, <2>1, WorkKeeps
<1>2. ~direct.ok /\ direct.pc # "idle"
  BY DEF DirectInv, HandsOver, Handover, NextSource, ListLinks, NextLink, Resolved,
    LinkFails, ZlibAgain, Countdown, CountdownEnds, ConnectLink, StreamChunk, Refused,
    RefreshCookies, CookiesRefreshed, StreamLost, Resume, Unresumable, ResumeChunk, ResumeLost
<1>4. ASSUME direct.pc \notin {"returned", "handed", "reused", "posting"} PROVE Working(direct)
  BY <1>2, <1>4 DEF DirectInv, Working, HandsOver
<1>5. CASE NextSource
  <2>1. Working(direct)
    BY <1>4, <1>5 DEF NextSource
  <2> DEFINE e == [direct EXCEPT !.todo = Tail(@), !.source = Head(direct.todo), !.failed = 0]
  <2>2. Working(e)
    BY <1>5, <2>1 DEF NextSource, Working, DirectFields, NoGap
  <2>3. \/ d = [direct EXCEPT !.pc = "returned"]
        \/ d = e \/ d = [e EXCEPT !.pc = "list"]
        \/ \E n : d = [e EXCEPT !.pc = "url", !.urls = n]
    BY <1>1, <1>5 DEF NextSource
  <2> HIDE DEF e
  <2>4. \A n : Working([e EXCEPT !.pc = "url", !.urls = n])
    BY <2>2, LinksLeft
  <2>5. Working([direct EXCEPT !.pc = "returned"]) /\ Working([e EXCEPT !.pc = "list"])
    BY <2>1, <2>2, Goes
  <2> QED BY <1>2, <2>2, <2>3, <2>4, <2>5
<1>6. CASE ListLinks
  <2>1. Working(direct)
    BY <1>4, <1>6 DEF ListLinks
  <2>2. \/ \E n : d = [direct EXCEPT !.pc = "url", !.urls = n]
        \/ \E l, n : d = [direct EXCEPT !.pc = "url", !.links = l, !.urls = n]
    BY <1>1, <1>6 DEF ListLinks
  <2>3. ASSUME \E n : d = [direct EXCEPT !.pc = "url", !.urls = n] PROVE Working(d)
    BY <2>1, <2>3, <1>6 DEF Working, DirectFields, NoGap, DirectAt
  <2>4. ASSUME \E l, n : d = [direct EXCEPT !.pc = "url", !.links = l, !.urls = n] PROVE Working(d)
    BY <2>1, <2>4, <1>6 DEF Working, DirectFields, NoGap, DirectAt
  <2> QED BY <1>2, <2>2, <2>3, <2>4
<1>7. CASE NextLink
  <2>1. Working(direct)
    BY <1>4, <1>7 DEF NextLink
  <2>2. \/ d = [direct EXCEPT !.pc = "returned"]
        \/ d = [direct EXCEPT !.pc = "source"]
        \/ d = [direct EXCEPT !.pc = "resolve", !.urls = @ - 1, !.waits = 0]
    BY <1>1, <1>7 DEF NextLink
  <2>3. ASSUME d = [direct EXCEPT !.pc = "returned"] PROVE Working(d)
    BY <2>1, <2>3, Goes
  <2>4. ASSUME d = [direct EXCEPT !.pc = "source"] PROVE Working(d)
    BY <2>1, <2>4, Goes
  <2>5. ASSUME d = [direct EXCEPT !.pc = "resolve", !.urls = @ - 1, !.waits = 0] PROVE Working(d)
    BY <2>1, <2>5, <1>7 DEF Working, DirectFields, NoGap, DirectAt
  <2> QED BY <1>2, <2>2, <2>3, <2>4, <2>5
<1>8. CASE Resolved
  <2>1. Working(direct)
    BY <1>4, <1>8 DEF Resolved
  <2>2. \/ d = [direct EXCEPT !.pc = "connect"]
    BY <1>1, <1>8 DEF Resolved
  <2>3. ASSUME d = [direct EXCEPT !.pc = "connect"] PROVE Working(d)
    BY <2>1, <2>3, Goes
  <2> QED BY <1>2, <2>2, <2>3
<1>9. CASE LinkFails
  <2>1. Working(direct)
    BY <1>4, <1>9 DEF LinkFails
  <2>2. \/ d = UrlFailed(direct)
    BY <1>1, <1>9 DEF LinkFails
  <2>3. ASSUME d = UrlFailed(direct) PROVE Working(d)
    BY <2>1, <2>3, TriedIsWorking
  <2> QED BY <1>2, <2>2, <2>3
<1>10. CASE ZlibAgain
  <2>1. Working(direct)
    BY <1>4, <1>10 DEF ZlibAgain
  <2>2. \/ d = [direct EXCEPT !.waits = 1]
    BY <1>1, <1>10 DEF ZlibAgain
  <2>3. ASSUME d = [direct EXCEPT !.waits = 1] PROVE Working(d)
    BY <2>1, <2>3, <1>10 DEF Working, DirectFields, NoGap, DirectAt
  <2> QED BY <1>2, <2>2, <2>3
<1>11. CASE Countdown
  <2>1. Working(direct)
    BY <1>4, <1>11 DEF Countdown
  <2>2. \/ d = [direct EXCEPT !.pc = "countdown"]
    BY <1>1, <1>11 DEF Countdown
  <2>3. ASSUME d = [direct EXCEPT !.pc = "countdown"] PROVE Working(d)
    BY <2>1, <2>3, Goes
  <2> QED BY <1>2, <2>2, <2>3
<1>12. CASE CountdownEnds
  <2>1. Working(direct)
    BY <1>4, <1>12 DEF CountdownEnds
  <2>2. \/ d = UrlFailed(direct)
        \/ d = [direct EXCEPT !.pc = "resolve", !.waits = @ + 1]
    BY <1>1, <1>12 DEF CountdownEnds
  <2>3. ASSUME d = UrlFailed(direct) PROVE Working(d)
    BY <2>1, <2>3, TriedIsWorking
  <2>4. ASSUME d = [direct EXCEPT !.pc = "resolve", !.waits = @ + 1] PROVE Working(d)
    BY <2>1, <2>4, <1>12 DEF Working, DirectFields, NoGap, DirectAt
  <2> QED BY <1>2, <2>2, <2>3, <2>4
<1>13. CASE ConnectLink
  <2>1. Working(direct)
    BY <1>4, <1>13 DEF ConnectLink
  <2>2. \/ d = UrlFailed(direct)
        \/ d = [direct EXCEPT !.pc = "stream", !.buffer = <<>>, !.from = 0, !.pos = 0]
    BY <1>1, <1>13 DEF ConnectLink
  <2>3. ASSUME d = UrlFailed(direct) PROVE Working(d)
    BY <2>1, <2>3, TriedIsWorking
  <2>4. ASSUME d = [direct EXCEPT !.pc = "stream", !.buffer = <<>>, !.from = 0, !.pos = 0] PROVE Working(d)
    BY <2>1, <2>4, StreamsAnew
  <2> QED BY <1>2, <2>2, <2>3, <2>4
<1>14. CASE StreamChunk
  <2>1. Working(direct)
    BY <1>4, <1>14 DEF StreamChunk
  <2>2. \/ d = UrlFailed(direct)
        \/ d = Chunk(direct)
    BY <1>1, <1>14 DEF StreamChunk
  <2>3. ASSUME d = UrlFailed(direct) PROVE Working(d)
    BY <2>1, <2>3, TriedIsWorking
  <2>4. ASSUME d = Chunk(direct) PROVE Working(d)
    BY <2>1, <2>4, <1>14, ChunkIsWorking DEF StreamChunk
  <2> QED BY <1>2, <2>2, <2>3, <2>4
<1>15. CASE Refused
  <2>1. Working(direct)
    BY <1>4, <1>15 DEF Refused
  <2>2. \/ d = UrlFailed(direct)
    BY <1>1, <1>15 DEF Refused
  <2>3. ASSUME d = UrlFailed(direct) PROVE Working(d)
    BY <2>1, <2>3, TriedIsWorking
  <2> QED BY <1>2, <2>2, <2>3
<1>16. CASE RefreshCookies
  <2>1. Working(direct)
    BY <1>4, <1>16 DEF RefreshCookies
  <2>2. \/ d = [direct EXCEPT !.pc = "refresh", !.refreshed = TRUE]
    BY <1>1, <1>16 DEF RefreshCookies
  <2>3. ASSUME d = [direct EXCEPT !.pc = "refresh", !.refreshed = TRUE] PROVE Working(d)
    BY <2>1, <2>3, <1>16 DEF Working, DirectFields, NoGap, DirectAt
  <2> QED BY <1>2, <2>2, <2>3
<1>17. CASE CookiesRefreshed
  <2>1. Working(direct)
    BY <1>4, <1>17 DEF CookiesRefreshed
  <2>2. \/ d = [direct EXCEPT !.pc = "connect"]
        \/ d = UrlFailed(direct)
    BY <1>1, <1>17 DEF CookiesRefreshed
  <2>3. ASSUME d = [direct EXCEPT !.pc = "connect"] PROVE Working(d)
    BY <2>1, <2>3, Goes
  <2>4. ASSUME d = UrlFailed(direct) PROVE Working(d)
    BY <2>1, <2>4, TriedIsWorking
  <2> QED BY <1>2, <2>2, <2>3, <2>4
<1>18. CASE StreamLost
  <2>1. Working(direct)
    BY <1>4, <1>18 DEF StreamLost
  <2>2. \/ d = [direct EXCEPT !.pc = "backoff"]
        \/ d = NextTransfer(direct)
    BY <1>1, <1>18 DEF StreamLost
  <2>3. ASSUME d = [direct EXCEPT !.pc = "backoff"] PROVE Working(d)
    BY <2>1, <2>3, Goes
  <2>4. ASSUME d = NextTransfer(direct) PROVE Working(d)
    BY <2>1, <2>4, TriedIsWorking
  <2> QED BY <1>2, <2>2, <2>3, <2>4
<1>19. CASE Resume
  <2>1. Working(direct)
    BY <1>4, <1>19 DEF Resume
  <2>2. \/ d = NextTransfer(direct)
        \/ d = [direct EXCEPT !.pc = "resumed", !.resumes = @ + 1, !.pos = direct.from]
    BY <1>1, <1>19 DEF Resume
  <2>3. ASSUME d = NextTransfer(direct) PROVE Working(d)
    BY <2>1, <2>3, TriedIsWorking
  <2>4. ASSUME d = [direct EXCEPT !.pc = "resumed", !.resumes = @ + 1, !.pos = direct.from] PROVE Working(d)
    BY <2>1, <2>4, <1>19 DEF Working, DirectFields, NoGap, DirectAt
  <2> QED BY <1>2, <2>2, <2>3, <2>4
<1>20. CASE Unresumable
  <2>1. Working(direct)
    BY <1>4, <1>20 DEF Unresumable
  <2>2. \/ d = NextTransfer(direct)
    BY <1>1, <1>20 DEF Unresumable
  <2>3. ASSUME d = NextTransfer(direct) PROVE Working(d)
    BY <2>1, <2>3, TriedIsWorking
  <2> QED BY <1>2, <2>2, <2>3
<1>21. CASE ResumeChunk
  <2>1. Working(direct)
    BY <1>4, <1>21 DEF ResumeChunk
  <2>2. \/ d = NextTransfer(direct)
        \/ d = Chunk(direct)
    BY <1>1, <1>21 DEF ResumeChunk
  <2>3. ASSUME d = NextTransfer(direct) PROVE Working(d)
    BY <2>1, <2>3, TriedIsWorking
  <2>4. ASSUME d = Chunk(direct) PROVE Working(d)
    BY <2>1, <2>4, <1>21, ChunkIsWorking DEF ResumeChunk
  <2> QED BY <1>2, <2>2, <2>3, <2>4
<1>22. CASE ResumeLost
  <2>1. Working(direct)
    BY <1>4, <1>22 DEF ResumeLost
  <2>2. \/ d = [direct EXCEPT !.pc = "backoff"]
    BY <1>1, <1>22 DEF ResumeLost
  <2>3. ASSUME d = [direct EXCEPT !.pc = "backoff"] PROVE Working(d)
    BY <2>1, <2>3, Goes
  <2> QED BY <1>2, <2>2, <2>3
<1> QED BY <1>1, <1>2, <1>5, <1>6, <1>7, <1>8, <1>9, <1>10, <1>11, <1>12, <1>13, <1>14, <1>15,
  <1>16, <1>17, <1>18, <1>19, <1>20, <1>21, <1>22

\* A run starts over: with nothing of its own written, or with the file of an earlier one.
LEMMA StartSteps ==
  ASSUME DirectInv, (\E c \in DirectConfigs : StartDirect(c)) \/ RetryStaged
  PROVE  DirectInv'
<1> USE DEF DirectAt
<1>1. <<>> \in Seq(Nat) /\ Len(<<>>) = 0
  OBVIOUS
<1>2. ~direct.ok /\ direct.pc = "idle"
  BY DEF DirectInv, HandsOver, Handover, StartDirect, RetryStaged
<1>3. ASSUME NEW c \in DirectConfigs, StartDirect(c) PROVE DirectInv'
  <2>1. direct' = [NoDownload EXCEPT !.pc = "source", !.todo = SourcePriority(c), !.bypass = c.bypass]
    BY <1>3 DEF StartDirect
  <2>2. DirectFields(direct') /\ direct'.pc = "source" /\ ~direct'.ok /\ direct'.got = "nothing"
        /\ direct'.buffer = <<>> /\ direct'.from = 0
    BY <1>1, <2>1 DEF NoDownload, DirectFields
  <2>3. NoGap(direct') /\ HandsOver(direct')
    BY <1>1, <2>2 DEF NoGap, HandsOver
  <2>4. FileFits'
    BY <1>2, <1>3, <2>2 DEF StartDirect, DirectInv, FileFits, OwnBookUnlessCrossed
  <2> QED BY <2>2, <2>3, <2>4 DEF DirectInv
<1>4. CASE RetryStaged
  <2>1. direct' = [NoDownload EXCEPT !.pc = "reused", !.ok = TRUE]
    BY <1>4 DEF RetryStaged, Becomes
  <2>2. DirectFields(direct') /\ direct'.pc = "reused" /\ direct'.ok /\ direct'.got = "nothing"
        /\ direct'.buffer = <<>> /\ direct'.from = 0
    BY <1>1, <2>1 DEF NoDownload, DirectFields
  <2>3. NoGap(direct') /\ HandsOver(direct')
    BY <1>1, <2>2 DEF NoGap, HandsOver, Handover
  <2>4. FileFits'
    BY <1>2, <1>4, <2>2 DEF RetryStaged, Becomes, FileAlone, DirectInv, FileFits, OwnBookUnlessCrossed
  <2> QED BY <2>2, <2>3, <2>4 DEF DirectInv
<1> QED BY <1>3, <1>4

\* A cancel is noted at whatever step the download is.
LEMMA CancelSteps == DirectInv /\ CancelDirect => DirectInv'
<1> SUFFICES ASSUME DirectInv, CancelDirect PROVE DirectInv'
  OBVIOUS
<1>1. direct' = [direct EXCEPT !.cancelled = TRUE] /\ FileAlone
  BY DEF CancelDirect, Becomes
<1>2. /\ DirectFields(direct') /\ direct'.pc = direct.pc /\ direct'.buffer = direct.buffer
      /\ direct'.from = direct.from /\ direct'.pos = direct.pos /\ direct'.ok = direct.ok
      /\ direct'.got = direct.got
  BY <1>1 DEF DirectInv, DirectFields
<1>3. NoGap(direct') /\ HandsOver(direct')
  BY <1>2 DEF DirectInv, NoGap, HandsOver
<1>4. FileFits'
  BY <1>1, <1>2 DEF DirectInv, FileFits, FileAlone, OwnBookUnlessCrossed
<1> QED BY <1>2, <1>3, <1>4 DEF DirectInv

\* A file that is written is the download's own and nobody has touched it since; a write
\* that failed has left a part of it and the link has failed with it.
LEMMA SaveSteps ==
  ASSUME DirectInv, direct.pc \in {"stream", "resumed"}, Save
  PROVE  DirectInv'
<1>1. Working(direct) /\ ~direct.ok /\ direct.pc # "idle"
  BY DEF DirectInv, HandsOver, Handover, Working
<1>2. Working(UrlFailed(direct))
  BY <1>1, TriedIsWorking
<1>3. CASE Becomes(UrlFailed(direct))
  BY <1>1, <1>2, <1>3, WorkKeeps DEF Becomes
<1>4. CASE /\ staged' = "own" /\ direct' = [direct EXCEPT !.pc = "returned", !.ok = TRUE]
           /\ crossed' = FALSE /\ left' = FALSE /\ UNCHANGED <<stagedPath, rival>>
  <2>1. /\ DirectFields(direct') /\ direct'.pc = "returned" /\ direct'.buffer = direct.buffer
        /\ direct'.from = direct.from /\ direct'.ok /\ direct'.got = direct.got
    BY <1>4 DEF DirectInv, DirectFields
  <2>2. NoGap(direct') /\ HandsOver(direct')
    BY <1>1, <2>1 DEF DirectInv, NoGap, HandsOver, Handover, Working
  <2>3. FileFits'
    BY <1>1, <1>4, <2>1 DEF DirectInv, FileFits, OwnBookUnlessCrossed, Working
  <2> QED BY <2>1, <2>2, <2>3 DEF DirectInv
<1>5. CASE /\ staged' = "part" /\ direct' = UrlFailed(direct) /\ left' = FALSE
           /\ UNCHANGED <<stagedPath, rival, crossed>>
  <2>1. DirectFields(direct') /\ NoGap(direct') /\ HandsOver(direct')
    BY <1>2, <1>5 DEF Working, HandsOver, Handover
  <2>2. FileFits'
    BY <1>1, <1>2, <1>5 DEF DirectInv, FileFits, OwnBookUnlessCrossed, Working
  <2> QED BY <2>1, <2>2 DEF DirectInv
<1> QED BY <1>3, <1>4, <1>5 DEF Save

\* The end of a download: the record is new but for what was handed over.
LEMMA EndsClean ==
  ASSUME NEW got \in {"nothing", "missing", "part", "own", "rival"}, EndDirect(got)
  PROVE  /\ DirectFields(direct') /\ NoGap(direct') /\ HandsOver(direct')
         /\ ~direct'.ok /\ direct'.got = got /\ direct'.pc = "idle"
<1>1. <<>> \in Seq(Nat) /\ Len(<<>>) = 0
  OBVIOUS
<1>2. direct' = [NoDownload EXCEPT !.got = got]
  BY DEF EndDirect
<1>3. /\ DirectFields(direct') /\ direct'.pc = "idle" /\ direct'.buffer = <<>>
      /\ direct'.from = 0 /\ ~direct'.ok /\ direct'.got = got
  BY <1>1, <1>2 DEF NoDownload, DirectFields
<1> QED BY <1>1, <1>3 DEF NoGap, HandsOver

\* A download that goes on to the next step of the hand-over with its file.
LEMMA HandsOn ==
  ASSUME DirectInv, direct.ok, NEW pc \in {"handed", "posting"}, direct' = DirectTo(pc),
         stagedPath' = stagedPath \/ stagedPath' = TRUE, UNCHANGED <<staged, rival, crossed, left>>
  PROVE  DirectInv'
<1>1. direct.got = "nothing"
  BY DEF DirectInv, HandsOver, Handover
<1>2. /\ DirectFields(direct') /\ direct'.pc = pc /\ direct'.buffer = direct.buffer
      /\ direct'.from = direct.from /\ direct'.ok = direct.ok /\ direct'.got = direct.got
  BY DEF DirectInv, DirectFields, DirectTo
<1>3. NoGap(direct') /\ HandsOver(direct')
  BY <1>1, <1>2 DEF DirectInv, NoGap, HandsOver, Handover
<1>4. FileFits'
  BY <1>2 DEF DirectInv, FileFits, OwnBookUnlessCrossed
<1> QED BY <1>2, <1>3, <1>4 DEF DirectInv

\* What lies at the name when a download has ended: what was there, known to be left by a
\* failure, or nothing.
Explained ==
  /\ left' \in BOOLEAN
  /\ \/ staged' = staged /\ (staged # "own" \/ left')
     \/ staged' = "none"

\* A removal, and a file that nobody has taken away.
LEMMA RemovedExplained == DirectInv /\ Removed => Explained
BY DEF Removed, Explained, DirectInv, FileFits

\* The end of a download whose file is delivered, lost, removed or left.
LEMMA Ends ==
  ASSUME DirectInv, NEW got \in {"nothing", "missing", "part", "own", "rival"}, EndDirect(got),
         UNCHANGED <<rival, crossed>>, Explained,
         stagedPath' = stagedPath \/ stagedPath' = FALSE,
         got \in {"rival", "part", "missing"} => crossed
  PROVE  DirectInv'
<1>1. /\ DirectFields(direct') /\ NoGap(direct') /\ HandsOver(direct')
      /\ ~direct'.ok /\ direct'.got = got /\ direct'.pc = "idle"
  BY EndsClean
<1>2. OwnBookUnlessCrossed'
  BY <1>1 DEF OwnBookUnlessCrossed
<1>3. stagedPath' \in BOOLEAN /\ (stagedPath' => stagedPath)
  <2>1. stagedPath \in BOOLEAN
    BY DEF DirectInv, FileFits
  <2>2. CASE stagedPath' = stagedPath
    BY <2>1, <2>2
  <2>3. CASE stagedPath' = FALSE
    BY <2>3
  <2> QED BY <2>2, <2>3
<1>4. FileFits'
  BY <1>1, <1>2, <1>3 DEF DirectInv, FileFits, Explained
<1> QED BY <1>1, <1>4 DEF DirectInv

\* The hand-over: what the handler returned, then what was returned or reused.
LEMMA HandoverSteps == DirectInv /\ (ReturnedFile \/ Handed) => DirectInv'
<1> SUFFICES ASSUME DirectInv, ReturnedFile \/ Handed PROVE DirectInv'
  OBVIOUS
<1>1. CASE ReturnedFile
  <2>1. UNCHANGED <<stagedPath, rival, crossed>>
    BY <1>1 DEF ReturnedFile
  <2>2. CASE Removed /\ EndDirect("nothing")
    BY <2>1, <2>2, RemovedExplained, Ends
  <2>3. CASE direct.ok /\ direct' = DirectTo("handed") /\ UNCHANGED <<staged, left>>
    BY <2>1, <2>3, HandsOn
  <2>4. CASE ~direct.ok /\ EndDirect("nothing") /\ UNCHANGED <<staged, left>>
    <3>1. Explained
      BY <2>4 DEF Explained, DirectInv, FileFits
    <3> QED BY <2>1, <2>4, <3>1, Ends
  <2> QED BY <1>1, <2>2, <2>3, <2>4 DEF ReturnedFile
<1>2. CASE Handed
  <2>1. direct.ok /\ UNCHANGED <<rival, crossed>>
    BY <1>2 DEF DirectInv, HandsOver, Handed
  <2>2. CASE staged = "none" /\ EndDirect("missing") /\ UNCHANGED <<staged, stagedPath, left>>
    <3>1. crossed /\ Explained
      BY <2>1, <2>2 DEF DirectInv, FileFits, Explained
    <3> QED BY <2>1, <2>2, <3>1, Ends
  <2>3. CASE Removed /\ EndDirect("nothing") /\ UNCHANGED stagedPath
    BY <2>1, <2>3, RemovedExplained, Ends
  <2>4. CASE direct' = DirectTo("posting") /\ stagedPath' = TRUE /\ UNCHANGED <<staged, left>>
    BY <2>1, <2>4, HandsOn
  <2> QED BY <1>2, <2>2, <2>3, <2>4 DEF Handed
<1> QED BY <1>1, <1>2

\* Post-processing delivers, misses, removes or keeps the staged file.
LEMMA PostSteps == DirectInv /\ Post => DirectInv'
<1> SUFFICES ASSUME DirectInv, Post PROVE DirectInv'
  OBVIOUS
<1>1. direct.ok /\ UNCHANGED <<rival, crossed>>
  BY DEF DirectInv, HandsOver, Post, DirectAt
<1>2. CASE staged # "none" /\ Removed /\ stagedPath' = FALSE /\ EndDirect(staged)
  <2>1. staged \in {"part", "own", "rival"} /\ (staged # "own" => crossed)
    BY <1>1, <1>2 DEF DirectInv, FileFits
  <2> QED BY <1>1, <1>2, <2>1, RemovedExplained, Ends
<1>3. CASE staged = "none" /\ UNCHANGED <<staged, stagedPath, left>> /\ EndDirect("missing")
  <2>1. crossed /\ Explained
    BY <1>1, <1>3 DEF DirectInv, FileFits, Explained
  <2> QED BY <1>1, <1>3, <2>1, Ends
<1>4. CASE Removed /\ UNCHANGED stagedPath /\ EndDirect("nothing")
  BY <1>1, <1>4, RemovedExplained, Ends
<1>5. CASE staged # "none" /\ left' = TRUE /\ UNCHANGED <<staged, stagedPath>> /\ EndDirect("nothing")
  BY <1>1, <1>5, Ends DEF Explained
<1> QED BY <1>2, <1>3, <1>4, <1>5 DEF Post

\* The rival writes or removes the file; whoever has written it knows it was touched.
LEMMA RivalSteps == DirectInv /\ RivalStep => DirectInv'
<1> SUFFICES ASSUME DirectInv, RivalStep PROVE DirectInv'
  OBVIOUS
<1>1. /\ UNCHANGED <<direct, stagedPath>> /\ crossed' = (crossed \/ direct.ok \/ stagedPath)
      /\ rival' \in BOOLEAN /\ left' = FALSE
      /\ staged' \in {"rival", "part", "none"} /\ (staged' = "rival" => rival')
  BY DEF RivalStep, RivalWrites, RivalRemoves, RivalTouches, WroteFile, DirectInv, FileFits
<1>2. direct.ok \in BOOLEAN /\ crossed' \in BOOLEAN
  BY <1>1 DEF DirectInv, DirectFields, FileFits
<1>3. FileFits'
  BY <1>1, <1>2 DEF DirectInv, FileFits, OwnBookUnlessCrossed
<1> QED BY <1>1, <1>3 DEF DirectInv, DirectFields, NoGap, HandsOver

\* The invariant holds at the start.
LEMMA DirectInvInit == DirectInit => DirectInv
<1> SUFFICES ASSUME DirectInit PROVE DirectInv
  OBVIOUS
<1>1. <<>> \in Seq(Nat) /\ Len(<<>>) = 0
  OBVIOUS
<1>2. /\ DirectFields(direct) /\ direct.pc = "idle" /\ direct.buffer = <<>>
      /\ direct.from = 0 /\ ~direct.ok /\ direct.got = "nothing"
  BY <1>1 DEF DirectInit, NoDownload, DirectFields
<1>3. NoGap(direct) /\ HandsOver(direct)
  BY <1>1, <1>2 DEF NoGap, HandsOver
<1>4. FileFits
  BY <1>2 DEF DirectInit, FileFits, OwnBookUnlessCrossed
<1> QED BY <1>2, <1>3, <1>4 DEF DirectInv

\* Every step keeps the invariant.
LEMMA DirectInvStep == DirectInv /\ [DirectNext]_directVars => DirectInv'
<1> SUFFICES ASSUME DirectInv, [DirectNext]_directVars PROVE DirectInv'
  OBVIOUS
<1>1. CASE UNCHANGED directVars
  BY <1>1 DEF directVars, DirectInv, DirectFields, NoGap, HandsOver, FileFits,
    OwnBookUnlessCrossed
<1>2. CASE CancelDirect
  BY <1>2, CancelSteps
<1>3. CASE StreamEnds
  BY <1>3, SaveSteps DEF StreamEnds, DirectAt
<1>4. CASE ResumeEnds
  BY <1>4, SaveSteps DEF ResumeEnds, DirectAt
<1>5. CASE ReturnedFile \/ Handed \/ Post
  BY <1>5, HandoverSteps, PostSteps
<1>6. CASE RivalStep
  BY <1>6, RivalSteps
<1>8. CASE (\E c \in DirectConfigs : StartDirect(c)) \/ RetryStaged
  BY <1>8, StartSteps
<1>7. CASE \/ NextSource \/ ListLinks \/ NextLink \/ Resolved \/ LinkFails \/ ZlibAgain
           \/ Countdown \/ CountdownEnds \/ ConnectLink \/ StreamChunk \/ Refused
           \/ RefreshCookies \/ CookiesRefreshed \/ StreamLost
           \/ Resume \/ Unresumable \/ ResumeChunk \/ ResumeLost
  BY <1>7, WorkSteps
<1> QED BY <1>1, <1>2, <1>3, <1>4, <1>5, <1>6, <1>7, <1>8 DEF DirectNext, DirectStep

\* Whatever servers, cancels and the rival do, the pieces counted are the pieces held, and
\* the file at the book's name is known for what it is.
THEOREM DirectInvariant == DirectSpec => []DirectInv
<1>1. DirectInit => DirectInv
  BY DirectInvInit
<1>2. DirectInv /\ [DirectNext]_directVars => DirectInv'
  BY DirectInvStep
<1> QED BY <1>1, <1>2, PTL DEF DirectSpec

\* What the invariant says of the buffer and the file is what is promised of the book.
LEMMA DirectKeepsBook == DirectInv => OwnBook
<1>1. DirectInv => BufferHasNoGap
  BY DEF DirectInv, NoGap, BufferHasNoGap
<1>2. DirectInv => OwnBookUnlessCrossed
  BY DEF DirectInv, FileFits
<1>3. DirectInv => LeftoverExplained
  BY DEF DirectInv, FileFits, HandsOver, Handover, LeftoverExplained, DirectAt
<1> QED BY <1>1, <1>2, <1>3 DEF OwnBook

\* However often a transfer was resumed the buffer is the book from its first piece on,
\* what is delivered, by this run or a retry that takes its file, is the download's own
\* unless a rival of the same name came between, and nothing stays behind but what a failed
\* write has left or a failed delivery or removal.
THEOREM DirectOwnBook == DirectSpec => []OwnBook
<1> QED BY DirectKeepsBook, DirectInvariant, PTL

-----------------------------------------------------------------------------
(***************************************************************************)
(* How far a download may go: a transfer under way has an attempt left, a  *)
(* source under way a failure, and no more pieces come than the book has.  *)
(***************************************************************************)
Trying == {"stream", "backoff", "resumed"}
AtLink == {"list", "url", "resolve", "countdown", "connect", "refresh"} \cup Trying

Limits(d) ==
  /\ d.todo \in Seq(DirectSource) /\ d.source \in DirectSource \cup {NoSource}
  /\ d.attempt \in 0..TransferLimit /\ d.resumes \in 0..ResumeLimit /\ d.failed \in 0..FailureLimit
  /\ d.from <= BookPieces
  /\ d.pc \in Trying => d.attempt < TransferLimit
  /\ d.pc \in AtLink => d.failed < FailureLimit

\* The limits are at least one.
LEMMA DirectLimits ==
  /\ FailureLimit \in Nat \ {0} /\ TransferLimit \in Nat \ {0} /\ ResumeLimit \in Nat \ {0}
  /\ BookPieces \in Nat \ {0}
BY DirectAssumption

\* What the limits look at.
Limited(d, e) ==
  /\ e.todo = d.todo /\ e.source = d.source /\ e.attempt = d.attempt /\ e.resumes = d.resumes
  /\ e.failed = d.failed /\ e.from = d.from

\* A step of a link that tries nothing anew.
LEMMA LimitedGoes ==
  ASSUME NEW d, Limits(d), NEW e, Limited(d, e),
         e.pc \in Trying => d.pc \in Trying, e.pc \in AtLink => d.pc \in AtLink
  PROVE  Limits(e)
BY DEF Limits, Limited

\* A link that failed has the source's failures counted, and is the last one when they are
\* as many as the limit.
LEMMA FailsWithin ==
  ASSUME NEW d, DirectFields(d), Limits(d), d.failed < FailureLimit
  PROVE  Limits(UrlFailed(d))
<1> DEFINE q == [d EXCEPT !.failed = @ + 1, !.buffer = <<>>, !.from = 0, !.pos = 0,
                          !.attempt = 0, !.resumes = 0, !.refreshed = FALSE]
<1>1. UrlFailed(d) = IF q.failed >= FailureLimit THEN [q EXCEPT !.pc = "source", !.urls = 0]
                     ELSE [q EXCEPT !.pc = "url"]
  BY DEF UrlFailed
<1>2. /\ q.todo = d.todo /\ q.source = d.source /\ q.attempt = 0 /\ q.resumes = 0
      /\ q.failed = d.failed + 1 /\ q.from = 0
  BY DEF DirectFields
<1>3. q \in [pc : {d.pc}, todo : {d.todo}, bypass : {d.bypass}, source : {d.source},
         links : {d.links}, urls : {d.urls}, failed : {q.failed}, waits : {d.waits},
         attempt : {0}, resumes : {0}, refreshed : {FALSE},
         buffer : {<<>>}, from : {0}, pos : {0}, ok : BOOLEAN, cancelled : BOOLEAN,
         got : {"nothing", "missing", "part", "own", "rival"}]
  BY DEF DirectFields
<1> HIDE DEF q
<1> DEFINE u == [q EXCEPT !.pc = "source", !.urls = 0]
           v == [q EXCEPT !.pc = "url"]
<1>4. /\ u.pc = "source" /\ u.todo = q.todo /\ u.source = q.source /\ u.attempt = 0 /\ u.resumes = 0
      /\ u.failed = q.failed /\ u.from = 0
      /\ v.pc = "url" /\ v.todo = q.todo /\ v.source = q.source /\ v.attempt = 0 /\ v.resumes = 0
      /\ v.failed = q.failed /\ v.from = 0
  BY <1>2, <1>3
<1> HIDE DEF u, v
<1>5. q.failed \in 0..FailureLimit /\ (~(q.failed >= FailureLimit) => q.failed < FailureLimit)
  BY <1>2, DirectLimits DEF Limits
<1>6. Limits(u)
  BY <1>2, <1>4, <1>5, DirectLimits DEF Limits, AtLink, Trying
<1>7. ~(q.failed >= FailureLimit) => Limits(v)
  BY <1>2, <1>4, <1>5, DirectLimits DEF Limits, AtLink, Trying
<1> QED BY <1>1, <1>6, <1>7 DEF u, v

\* A transfer that begins anew had an attempt left.
LEMMA RetriesWithin ==
  ASSUME NEW d, DirectFields(d), Limits(d), d.pc \in Trying
  PROVE  Limits(NextTransfer(d))
<1> DEFINE t == NextTransfer(d)
<1>1. /\ t.pc = "connect" /\ t.todo = d.todo /\ t.source = d.source /\ t.attempt = d.attempt + 1
      /\ t.resumes = 0 /\ t.failed = d.failed /\ t.from = d.from
  BY DEF NextTransfer, DirectFields
<1> HIDE DEF t
<1>2. d.attempt < TransferLimit /\ d.failed < FailureLimit
  BY DEF Limits, AtLink
<1>3. Limits(t)
  BY <1>1, <1>2, DirectLimits DEF Limits, AtLink, Trying
<1> QED BY <1>3 DEF t

\* No more pieces come than the book has.
LEMMA ChunkWithin ==
  ASSUME NEW d, DirectFields(d), NoGap(d), Limits(d), d.pc \in {"stream", "resumed"}, d.pos < BookPieces
  PROVE  Limits(Chunk(d))
<1> DEFINE t == Chunk(d)
<1>1. d.pos = d.from /\ d.from \in Nat
  BY DEF NoGap, DirectFields
<1>2. /\ t.pc = d.pc /\ t.todo = d.todo /\ t.source = d.source /\ t.attempt = d.attempt
      /\ t.resumes = d.resumes /\ t.failed = d.failed /\ t.from = d.from + 1
  BY DEF Chunk, DirectFields
<1> HIDE DEF t
<1>3. Limits(t)
  BY <1>1, <1>2, DirectLimits DEF Limits, AtLink, Trying
<1> QED BY <1>3 DEF t

\* The sources to try are sources.
LEMMA PriorityIsSources ==
  ASSUME NEW c \in DirectConfigs
  PROVE  SourcePriority(c) \in Seq(DirectSource)
<1> DEFINE I == {i \in DOMAIN c.fast : c.fast[i] \notin c.off /\ (c.fast[i] = "aa-fast" => c.key)}
           J == {i \in DOMAIN c.slow : c.slow[i] \notin c.off}
<1>1. c.fast \in Seq({"aa-fast", "libgen"}) /\ c.slow \in Seq(DirectSource \ {"aa-fast", "libgen"})
  BY DirectAssumption
<1>2. c.fast \in Seq(DirectSource) /\ c.slow \in Seq(DirectSource)
  BY <1>1 DEF DirectSource
<1>3. I \subseteq 1..Len(c.fast) /\ J \subseteq 1..Len(c.slow)
  BY <1>2
<1>4. SourcePriority(c) = Picked(c.fast, I) \o Picked(c.slow, J)
  BY DEF SourcePriority
<1> HIDE DEF I, J
<1>5. Picked(c.fast, I) \in Seq(DirectSource) /\ Picked(c.slow, J) \in Seq(DirectSource)
  BY <1>2, <1>3, PickedIs
<1> QED BY <1>4, <1>5

\* A new download, and one that has ended.
LEMMA NewWithin ==
  ASSUME NEW todo \in Seq(DirectSource), NEW bypass, NEW got
  PROVE  /\ Limits([NoDownload EXCEPT !.pc = "source", !.todo = todo, !.bypass = bypass])
         /\ Limits([NoDownload EXCEPT !.pc = "reused", !.ok = TRUE])
         /\ Limits([NoDownload EXCEPT !.got = got]) /\ Limits(NoDownload)
<1>1. <<>> \in Seq(DirectSource)
  OBVIOUS
<1> DEFINE u == [NoDownload EXCEPT !.pc = "source", !.todo = todo, !.bypass = bypass]
           v == [NoDownload EXCEPT !.got = got]
           w == [NoDownload EXCEPT !.pc = "reused", !.ok = TRUE]
           Fresh(d) == /\ d.pc \in {"source", "idle", "reused"} /\ d.todo \in {todo, <<>>} /\ d.source = NoSource
                       /\ d.attempt = 0 /\ d.resumes = 0 /\ d.failed = 0 /\ d.from = 0
<1>2. Fresh(u)
  BY DEF NoDownload
<1>3. Fresh(v)
  BY DEF NoDownload
<1>4. Fresh(NoDownload) /\ Fresh(w)
  BY DEF NoDownload
<1> HIDE DEF u, v, w
<1>5. ASSUME NEW d, Fresh(d) PROVE Limits(d)
  <2>1. d.todo \in Seq(DirectSource)
    BY <1>1, <1>5
  <2>2. /\ d.attempt \in 0..TransferLimit /\ d.resumes \in 0..ResumeLimit
        /\ d.failed \in 0..FailureLimit /\ d.from <= BookPieces
    BY <1>5, DirectLimits
  <2>3. d.pc \notin Trying /\ d.pc \notin AtLink /\ d.source = NoSource
    BY <1>5 DEF AtLink, Trying
  <2> QED BY <2>1, <2>2, <2>3 DEF Limits
<1> HIDE DEF Fresh
<1> QED BY <1>2, <1>3, <1>4, <1>5 DEF u, v, w

\* Every step of a download keeps to the limits.
LEMMA LimitsStep ==
  DirectInv /\ Limits(direct) /\ [DirectNext]_directVars => Limits(direct)'
<1> SUFFICES ASSUME DirectInv, Limits(direct), [DirectNext]_directVars PROVE Limits(direct')
  BY DEF Limits, AtLink, Trying
<1> USE DEF DirectAt, DirectTo, Becomes
<1>1. DirectFields(direct) /\ NoGap(direct)
  BY DEF DirectInv
<1>2. direct.pc \in AtLink => direct.failed < FailureLimit /\ Limits(UrlFailed(direct))
  BY <1>1, FailsWithin DEF Limits
<1>3. direct.pc \in Trying => Limits(NextTransfer(direct)) /\ direct.pc \in AtLink
  BY <1>1, RetriesWithin DEF AtLink
<1>4. ASSUME NEW d, direct' = d, Limited(direct, d), d.pc \in Trying => direct.pc \in Trying,
             d.pc \in AtLink => direct.pc \in AtLink
      PROVE  Limits(direct')
  BY <1>4, LimitedGoes
<1>5. CASE UNCHANGED directVars
  BY <1>5 DEF directVars
<1>6. ASSUME NEW c \in DirectConfigs, StartDirect(c) PROVE Limits(direct')
  BY <1>6, PriorityIsSources, NewWithin DEF StartDirect
<1>24. CASE RetryStaged
  <2>1. <<>> \in Seq(DirectSource)
    OBVIOUS
  <2> QED BY <1>24, <2>1, NewWithin DEF RetryStaged
<1>7. CASE CancelDirect
  <2>1. direct' = [direct EXCEPT !.cancelled = TRUE]
    BY <1>7 DEF CancelDirect
  <2>2. Limited(direct, direct') /\ direct'.pc = direct.pc
    BY <1>1, <2>1 DEF Limited, DirectFields
  <2> QED BY <1>4, <2>2
<1>8. CASE RivalStep
  BY <1>8 DEF RivalStep, RivalWrites, RivalRemoves, RivalTouches
<1>9. CASE NextSource
  <2>1. CASE direct' = [direct EXCEPT !.pc = "returned"]
    <3>1. Limited(direct, direct') /\ direct'.pc = "returned"
      BY <1>1, <2>1 DEF Limited, DirectFields
    <3> QED BY <1>4, <3>1 DEF AtLink, Trying
  <2>2. CASE direct.todo # <<>> /\ direct' # [direct EXCEPT !.pc = "returned"]
    <3>1. /\ direct'.todo = Tail(direct.todo) /\ direct'.source = Head(direct.todo) /\ direct'.failed = 0
          /\ direct'.attempt = direct.attempt /\ direct'.resumes = direct.resumes
          /\ direct'.from = direct.from /\ direct'.pc \in {"source", "url", "list"}
      <4> DEFINE d == [direct EXCEPT !.todo = Tail(@), !.source = Head(direct.todo), !.failed = 0]
      <4>1. \/ direct' = d \/ direct' = [d EXCEPT !.pc = "list"]
            \/ \E n : direct' = [d EXCEPT !.pc = "url", !.urls = n]
        BY <1>9, <2>2 DEF NextSource, Becomes, DirectTo
      <4>2. /\ DirectFields(direct) /\ direct.pc = "source"
        BY <1>1, <1>9 DEF NextSource, DirectAt
      <4> DEFINE Taken(e) == /\ e.todo = Tail(direct.todo) /\ e.source = Head(direct.todo)
                             /\ e.failed = 0 /\ e.attempt = direct.attempt
                             /\ e.resumes = direct.resumes /\ e.from = direct.from
                             /\ e.pc \in {"source", "url", "list"}
      <4>3. Taken(d)
        BY <4>2 DEF DirectFields
      <4>4. Taken([d EXCEPT !.pc = "list"])
        BY <4>2 DEF DirectFields
      <4>5. ASSUME NEW n PROVE Taken([d EXCEPT !.pc = "url", !.urls = n])
        BY <4>2 DEF DirectFields
      <4>6. Taken(direct')
        <5> HIDE DEF d, Taken
        <5> QED BY <4>1, <4>3, <4>4, <4>5
      <4> QED BY <4>6
    <3>2. Tail(direct.todo) \in Seq(DirectSource) /\ Head(direct.todo) \in DirectSource
      BY <2>2 DEF Limits
    <3> QED BY <3>1, <3>2, DirectLimits DEF Limits, AtLink, Trying
  <2> QED BY <1>9, <2>1, <2>2 DEF NextSource
<1>10. CASE ListLinks
  <2>1. direct.pc = "list" /\ Limited(direct, direct') /\ direct'.pc = "url"
    BY <1>1, <1>10 DEF ListLinks, Limited, DirectFields
  <2> QED BY <1>4, <2>1 DEF AtLink, Trying
<1>11. CASE NextLink
  <2>1. direct.pc = "url" /\ Limited(direct, direct') /\ direct'.pc \in {"returned", "source", "resolve"}
    BY <1>1, <1>11 DEF NextLink, Limited, DirectFields
  <2> QED BY <1>4, <2>1 DEF AtLink, Trying
<1>12. CASE Resolved \/ ZlibAgain \/ Countdown
  <2>1. direct.pc = "resolve" /\ Limited(direct, direct') /\ direct'.pc \in {"connect", "resolve", "countdown"}
    BY <1>1, <1>12 DEF Resolved, ZlibAgain, Countdown, Limited, DirectFields
  <2> QED BY <1>4, <2>1 DEF AtLink, Trying
<1>13. CASE LinkFails \/ Refused
  BY <1>2, <1>13 DEF LinkFails, Refused, AtLink, Trying
<1>14. CASE CountdownEnds
  <2>1. CASE direct' = UrlFailed(direct)
    BY <1>2, <1>14, <2>1 DEF CountdownEnds, AtLink
  <2>2. CASE direct' = [direct EXCEPT !.pc = "resolve", !.waits = @ + 1]
    <3>1. direct.pc = "countdown" /\ Limited(direct, direct') /\ direct'.pc = "resolve"
      BY <1>1, <1>14, <2>2 DEF CountdownEnds, Limited, DirectFields
    <3> QED BY <1>4, <3>1 DEF AtLink, Trying
  <2> QED BY <1>14, <2>1, <2>2 DEF CountdownEnds
<1>15. CASE ConnectLink
  <2>1. CASE direct' = UrlFailed(direct)
    BY <1>2, <1>15, <2>1 DEF ConnectLink, AtLink
  <2>2. CASE /\ direct.attempt # TransferLimit
             /\ direct' = [direct EXCEPT !.pc = "stream", !.buffer = <<>>, !.from = 0, !.pos = 0]
    <3>1. /\ direct.pc = "connect" /\ direct'.todo = direct.todo /\ direct'.source = direct.source
          /\ direct'.attempt = direct.attempt /\ direct'.resumes = direct.resumes
          /\ direct'.failed = direct.failed /\ direct'.from = 0 /\ direct'.pc = "stream"
      BY <1>1, <1>15, <2>2 DEF ConnectLink, DirectFields
    <3>2. direct.failed < FailureLimit /\ direct.attempt < TransferLimit
      BY <1>2, <2>2, <3>1, DirectLimits DEF Limits, AtLink
    <3> QED BY <3>1, <3>2, DirectLimits DEF Limits
  <2> QED BY <1>15, <2>1, <2>2 DEF ConnectLink
<1>16. CASE StreamChunk
  <2>1. direct.pc = "stream" /\ direct.pos < BookPieces /\ direct' \in {UrlFailed(direct), Chunk(direct)}
    BY <1>16 DEF StreamChunk
  <2> QED BY <1>1, <1>2, <2>1, ChunkWithin DEF AtLink, Trying
<1>17. CASE RefreshCookies
  <2>1. direct.pc = "stream" /\ Limited(direct, direct') /\ direct'.pc = "refresh"
    BY <1>1, <1>17 DEF RefreshCookies, Limited, DirectFields
  <2> QED BY <1>4, <2>1 DEF AtLink, Trying
<1>18. CASE CookiesRefreshed
  <2>1. CASE direct' = UrlFailed(direct)
    BY <1>2, <1>18, <2>1 DEF CookiesRefreshed, AtLink
  <2>2. CASE direct' = [direct EXCEPT !.pc = "connect"]
    <3>1. direct.pc = "refresh" /\ Limited(direct, direct') /\ direct'.pc = "connect"
      BY <1>1, <1>18, <2>2 DEF CookiesRefreshed, Limited, DirectFields
    <3> QED BY <1>4, <3>1 DEF AtLink, Trying
  <2> QED BY <1>18, <2>1, <2>2 DEF CookiesRefreshed
<1>19. CASE StreamLost \/ ResumeLost
  <2>1. direct.pc \in Trying
    BY <1>19 DEF StreamLost, ResumeLost, Trying
  <2>2. CASE direct' = NextTransfer(direct)
    BY <1>3, <2>1, <2>2
  <2>3. CASE direct' = [direct EXCEPT !.pc = "backoff"]
    <3>1. Limited(direct, direct') /\ direct'.pc = "backoff"
      BY <1>1, <2>3 DEF Limited, DirectFields
    <3> QED BY <1>3, <1>4, <2>1, <3>1
  <2> QED BY <1>19, <2>2, <2>3 DEF StreamLost, ResumeLost
<1>20. CASE Resume
  <2>1. direct.pc = "backoff" /\ direct.pc \in Trying
    BY <1>20 DEF Resume, Trying
  <2>2. CASE direct' = NextTransfer(direct)
    BY <1>3, <2>1, <2>2
  <2>3. CASE /\ direct.resumes # ResumeLimit
             /\ direct' = [direct EXCEPT !.pc = "resumed", !.resumes = @ + 1, !.pos = direct.from]
    <3>1. /\ direct'.todo = direct.todo /\ direct'.source = direct.source
          /\ direct'.attempt = direct.attempt /\ direct'.resumes = direct.resumes + 1
          /\ direct'.failed = direct.failed /\ direct'.from = direct.from /\ direct'.pc = "resumed"
      BY <1>1, <2>3 DEF DirectFields
    <3>2. direct.failed < FailureLimit /\ direct.attempt < TransferLimit
      BY <1>2, <2>1 DEF Limits, AtLink
    <3> QED BY <2>3, <3>1, <3>2, DirectLimits DEF Limits
  <2> QED BY <1>20, <2>2, <2>3 DEF Resume
<1>21. CASE Unresumable \/ ResumeChunk
  <2>1. direct.pc = "resumed" /\ direct.pc \in Trying
    BY <1>21 DEF Unresumable, ResumeChunk, Trying
  <2>2. \/ direct' = NextTransfer(direct)
        \/ direct.pos < BookPieces /\ direct' = Chunk(direct)
    BY <1>21 DEF Unresumable, ResumeChunk
  <2> QED BY <1>1, <1>3, <2>1, <2>2, ChunkWithin
<1>22. CASE StreamEnds \/ ResumeEnds
  <2>1. direct.pc \in Trying /\ Save
    BY <1>22 DEF StreamEnds, ResumeEnds, Trying
  <2>2. CASE direct' = UrlFailed(direct)
    BY <1>2, <1>3, <2>1, <2>2
  <2>3. CASE direct' = [direct EXCEPT !.pc = "returned", !.ok = TRUE]
    <3>1. Limited(direct, direct') /\ direct'.pc = "returned"
      BY <1>1, <2>3 DEF Limited, DirectFields
    <3> QED BY <1>4, <3>1 DEF AtLink, Trying
  <2> QED BY <2>1, <2>2, <2>3 DEF Save
<1>23. CASE ReturnedFile \/ Handed \/ Post
  <2>1. CASE \E got : EndDirect(got)
    <3>1. <<>> \in Seq(DirectSource)
      OBVIOUS
    <3> QED BY <2>1, <3>1, NewWithin DEF EndDirect
  <2>2. CASE \E pc \in {"handed", "posting"} : direct' = [direct EXCEPT !.pc = pc]
    <3>1. Limited(direct, direct') /\ direct'.pc \in {"handed", "posting"}
      BY <1>1, <2>2 DEF Limited, DirectFields
    <3> QED BY <1>4, <3>1 DEF AtLink, Trying
  <2> QED BY <1>23, <2>1, <2>2 DEF ReturnedFile, Handed, Post
<1> QED BY <1>5, <1>6, <1>7, <1>8, <1>9, <1>10, <1>11, <1>12, <1>13, <1>14, <1>15, <1>16, <1>17,
  <1>18, <1>19, <1>20, <1>21, <1>22, <1>23, <1>24 DEF DirectNext, DirectStep

\* A download that has not begun is within them.
LEMMA LimitsInit == DirectInit => Limits(direct)
<1>1. <<>> \in Seq(DirectSource)
  OBVIOUS
<1> QED BY <1>1, NewWithin DEF DirectInit

\* What keeps the fields, the limits and the file keeps the types.
LEMMA DirectFits == DirectInv /\ Limits(direct) => DirectTypeOK
<1> SUFFICES ASSUME DirectInv, Limits(direct) PROVE DirectTypeOK
  OBVIOUS
<1> DEFINE b == direct.buffer
<1>1. b \in Seq(Nat) /\ Len(b) <= BookPieces /\ \A i \in 1..Len(b) : b[i] = i
  BY DEF DirectInv, DirectFields, NoGap, Limits
<1> HIDE DEF b
<1>2. Len(b) \in Nat /\ b = [i \in 1..Len(b) |-> b[i]] /\ \A i \in 1..Len(b) : b[i] \in 1..BookPieces
  BY <1>1, DirectLimits
<1>3. b \in Seq(1..BookPieces)
  <2> DEFINE n == Len(b)
  <2>1. n \in Nat /\ b = [i \in 1..n |-> b[i]] /\ \A i \in 1..n : b[i] \in 1..BookPieces
    BY <1>2
  <2> HIDE DEF n
  <2>2. b \in [1..n -> 1..BookPieces]
    BY <2>1
  <2> QED BY <2>1, <2>2
<1>4. direct.got \in {"nothing", "missing", "part", "own", "rival"}
  BY DEF DirectInv, DirectFields
<1> QED BY <1>3, <1>4 DEF DirectTypeOK, DirectInv, FileFits, Limits, b

\* However servers answer, tries stay within their limits, and nothing but sources is tried
\* and nothing but pieces of the book kept.
THEOREM DirectTyped == DirectSpec => []DirectTypeOK
<1>1. DirectInit => DirectInv /\ Limits(direct)
  BY DirectInvInit, LimitsInit
<1>2. DirectInv /\ Limits(direct) /\ [DirectNext]_directVars => DirectInv' /\ Limits(direct)'
  BY DirectInvStep, LimitsStep
<1>3. DirectInv /\ Limits(direct) => DirectTypeOK
  BY DirectFits
<1> QED BY <1>1, <1>2, <1>3, PTL DEF DirectSpec

-----------------------------------------------------------------------------
(***************************************************************************)
(* Accounts.  A table is a sequence of rows; linking an identity changes   *)
(* rows and adds one, and keeps every name and whose sessions the account  *)
(* has revoked.  A forced logout is remembered by the account it was meant *)
(* for as long as that account and the dated session last.                 *)
(***************************************************************************)
Row(r) ==
  r \in [name : {r.name}, source : {r.source}, role : {r.role}, password : {r.password},
         email : {r.email}, subject : {r.subject}, saml : {r.saml}, revokes : {r.revokes}]
Table(a) == \E S : a \in Seq(S) /\ \A r \in S : Row(r)

\* What table t keeps of table a: its accounts and the sessions they have revoked.
Kept(a, t) == \A i \in Users(a) : i \in Users(t) /\ t[i].revokes = a[i].revokes

Cookie(s) ==
  s \in [in : BOOLEAN, name : {s.name}, id : {s.id}, admin : {s.admin}, dated : BOOLEAN]

Remembered ==
  \A p \in forced : /\ p[1] \in Client /\ session[p[1]].dated
                    /\ p[2] \in Users(accounts) /\ p[1] \in accounts[p[2]].revokes

AccountInv ==
  /\ Table(accounts) /\ session = [c \in Client |-> session[c]]
  /\ \A c \in Client : Cookie(session[c])
  /\ Remembered /\ ~overstayed

\* The rows of a table, and when a function is one.
LEMMA TableRows ==
  ASSUME NEW a, Table(a)
  PROVE  /\ Len(a) \in Nat /\ DOMAIN a = 1..Len(a) /\ a = [i \in 1..Len(a) |-> a[i]]
         /\ \A i \in DOMAIN a : Row(a[i])
BY DEF Table

\* A function on 1..n whose values are rows is a table of that length.
LEMMA RowsTable ==
  ASSUME NEW n \in Nat, NEW a, a = [i \in 1..n |-> a[i]], \A i \in 1..n : Row(a[i])
  PROVE  Table(a) /\ Len(a) = n
<1> DEFINE S == {a[i] : i \in 1..n}
<1>1. a \in [1..n -> S]
  OBVIOUS
<1> HIDE DEF S
<1>2. a \in Seq(S) /\ Len(a) = n
  BY <1>1
<1>3. \A r \in S : Row(r)
  BY DEF S
<1> QED BY <1>2, <1>3 DEF Table

\* The row linking writes.
LinkedRow(r, x) ==
  [r EXCEPT !.source = x.source, !.role = IF x.sync THEN x.role ELSE @,
            !.email = IF x.source = "proxy" THEN @ ELSE x.email,
            !.subject = IF x.subject # NoSubject THEN x.subject ELSE @]

\* Linking replaces one row by that row.
LEMMA LinkedIs ==
  ASSUME NEW a, Table(a), NEW i, NEW x
  PROVE  /\ Linked(a, i, x) = [j \in DOMAIN a |-> IF j = i THEN LinkedRow(a[j], x) ELSE a[j]]
         /\ i \in DOMAIN a => Row(LinkedRow(a[i], x))
         /\ i \in DOMAIN a => LinkedRow(a[i], x).name = a[i].name
         /\ i \in DOMAIN a => LinkedRow(a[i], x).revokes = a[i].revokes
<1>1. DOMAIN a = 1..Len(a) /\ a = [j \in DOMAIN a |-> a[j]] /\ \A j \in DOMAIN a : Row(a[j])
  BY TableRows
<1>2. Linked(a, i, x) = [a EXCEPT ![i] = LinkedRow(a[i], x)]
  BY <1>1 DEF Linked, LinkedRow, Row
<1>3. i \in DOMAIN a => /\ Row(LinkedRow(a[i], x)) /\ LinkedRow(a[i], x).name = a[i].name
                        /\ LinkedRow(a[i], x).revokes = a[i].revokes
  BY <1>1 DEF LinkedRow, Row
<1> HIDE DEF LinkedRow
<1>4. Linked(a, i, x) = [j \in DOMAIN a |-> IF j = i THEN LinkedRow(a[j], x) ELSE a[j]]
  BY <1>1, <1>2
<1> QED BY <1>3, <1>4

\* A linked table keeps the accounts.
LEMMA LinkedKeeps ==
  ASSUME NEW a, Table(a), NEW i, NEW x
  PROVE  Table(Linked(a, i, x)) /\ Len(Linked(a, i, x)) = Len(a) /\ Kept(a, Linked(a, i, x))
<1> DEFINE t == Linked(a, i, x)
<1>1. /\ t = [j \in DOMAIN a |-> IF j = i THEN LinkedRow(a[j], x) ELSE a[j]]
      /\ i \in DOMAIN a => Row(LinkedRow(a[i], x))
      /\ i \in DOMAIN a => LinkedRow(a[i], x).name = a[i].name
      /\ i \in DOMAIN a => LinkedRow(a[i], x).revokes = a[i].revokes
  BY LinkedIs
<1>2. Len(a) \in Nat /\ DOMAIN a = 1..Len(a) /\ \A j \in DOMAIN a : Row(a[j])
  BY TableRows
<1> HIDE DEF t
<1>3. t = [j \in 1..Len(a) |-> t[j]] /\ \A j \in 1..Len(a) : Row(t[j])
  BY <1>1, <1>2
<1>4. Table(t) /\ Len(t) = Len(a)
  BY <1>2, <1>3, RowsTable
<1>5. Kept(a, t)
  BY <1>1, <1>2 DEF Kept, Users
<1> QED BY <1>4, <1>5 DEF t

\* So does a table with one account more.
LEMMA AddedKeeps ==
  ASSUME NEW a, Table(a), NEW r, Row(r)
  PROVE  /\ Table(Append(a, r)) /\ Kept(a, Append(a, r)) /\ Len(Append(a, r)) = Len(a) + 1
         /\ DOMAIN Append(a, r) = 1..(Len(a) + 1)
         /\ \A i \in 1..Len(a) : Append(a, r)[i] = a[i]
         /\ Append(a, r)[Len(a) + 1] = r
<1>1. PICK S : a \in Seq(S) /\ \A q \in S : Row(q)
  BY DEF Table
<1>2. a \in Seq(S \cup {r})
  BY <1>1
<1>3. /\ Append(a, r) \in Seq(S \cup {r}) /\ \A q \in S \cup {r} : Row(q)
      /\ Len(Append(a, r)) = Len(a) + 1 /\ \A i \in 1..Len(a) : Append(a, r)[i] = a[i]
      /\ Append(a, r)[Len(a) + 1] = r /\ DOMAIN Append(a, r) = 1..(Len(a) + 1)
      /\ DOMAIN a = 1..Len(a) /\ Len(a) \in Nat
  BY <1>1, <1>2
<1>4. Table(Append(a, r))
  BY <1>3 DEF Table
<1>5. Kept(a, Append(a, r))
  BY <1>3 DEF Kept, Users
<1> QED BY <1>3, <1>4, <1>5

\* Linking an identity of any source, with any strategy.
LEMMA UpsertKeeps ==
  ASSUME NEW a, Table(a), NEW x
  PROVE  Table(Upsert(a, x).table) /\ Kept(a, Upsert(a, x).table)
<1>1. CASE FoundFor(a, x) # 0
  BY <1>1, LinkedKeeps DEF Upsert
<1>2. CASE FoundFor(a, x) = 0 /\ ~x.create
  BY <1>2 DEF Upsert, Kept
<1>3. CASE FoundFor(a, x) = 0 /\ x.create
  <2> DEFINE r == NewAccount(FreeName(a, x), x.source, x.role, FALSE, x.email, x.subject)
  <2>1. Row(r)
    BY DEF Row, NewAccount
  <2>2. Upsert(a, x).table = Append(a, r)
    BY <1>3 DEF Upsert
  <2> HIDE DEF r
  <2> QED BY <2>1, <2>2, AddedKeeps
<1> QED BY <1>1, <1>2, <1>3

\* A step of the synchronisation, as Synced's recursive function makes it.
SyncStep(a, rows, f, k) ==
  IF k = 0 THEN [table |-> a, met |-> {}]
  ELSE LET to == Upsert(f[k - 1].table, CwaIdentity(rows[k], rows[k].admin))
       IN [table |-> to.table, met |-> f[k - 1].met \cup {to.id}]

\* The recursion has a solution: the least length without one would have a predecessor
\* whose solution a step extends.
LEMMA SyncSolved ==
  ASSUME NEW a, NEW rows
  PROVE  \A m \in Nat : \E f : f = [k \in 0..m |-> SyncStep(a, rows, f, k)]
<1> DEFINE Solves(f, m) == f = [k \in 0..m |-> SyncStep(a, rows, f, k)]
           B == {m \in Nat : ~\E f : Solves(f, m)}
<1>1. SUFFICES ASSUME B # {} PROVE FALSE
  OBVIOUS
<1>2. PICK m \in B : \A k \in B : m <= k
  BY <1>1, LeastOf
<1>3. \A f, g : SyncStep(a, rows, f, 0) = SyncStep(a, rows, g, 0)
  BY DEF SyncStep
<1>4. \A f, g : \A k \in Nat : f[k - 1] = g[k - 1] => SyncStep(a, rows, f, k) = SyncStep(a, rows, g, k)
  <2> SUFFICES ASSUME NEW f, NEW g, NEW k \in Nat, f[k - 1] = g[k - 1]
               PROVE  SyncStep(a, rows, f, k) = SyncStep(a, rows, g, k)
    OBVIOUS
  <2> QED BY DEF SyncStep
<1>5. CASE m = 0
  <2> DEFINE f == [k \in 0..0 |-> SyncStep(a, rows, [j \in {} |-> j], 0)]
  <2>1. \A k \in 0..0 : f[k] = SyncStep(a, rows, f, k)
    <3>1. \A k \in 0..0 : k = 0 /\ f[k] = SyncStep(a, rows, [j \in {} |-> j], 0)
      OBVIOUS
    <3> HIDE DEF f
    <3> QED BY <1>3, <3>1
  <2>2. Solves(f, 0)
    <3>1. f = [k \in 0..0 |-> f[k]]
      OBVIOUS
    <3> HIDE DEF f
    <3> QED BY <2>1, <3>1
  <2> QED BY <1>2, <1>5, <2>2
<1>6. CASE m # 0
  <2>1. m \in Nat /\ m - 1 \in Nat /\ m - 1 < m
    BY <1>2, <1>6
  <2>2. m - 1 \notin B
    BY <1>2, <2>1
  <2>3. PICK f : Solves(f, m - 1)
    BY <2>1, <2>2
  <2> DEFINE g == [k \in 0..m |-> IF k = m THEN SyncStep(a, rows, f, m) ELSE f[k]]
  <2>4. /\ g = [k \in 0..m |-> g[k]] /\ g[m] = SyncStep(a, rows, f, m)
        /\ \A k \in 0..(m - 1) : g[k] = f[k]
    BY <2>1
  <2> HIDE DEF g
  <2>5. ASSUME NEW k \in 0..m PROVE g[k] = SyncStep(a, rows, g, k)
    <3>1. CASE k = m
      <4>1. g[k - 1] = f[k - 1] /\ k \in Nat
        BY <2>1, <2>4, <3>1
      <4> QED BY <1>4, <2>4, <3>1, <4>1
    <3>2. CASE k # m
      <4>1. k \in 0..(m - 1) /\ k \in Nat
        BY <2>1, <3>2
      <4>2. g[k] = SyncStep(a, rows, f, k)
        BY <2>3, <2>4, <4>1
      <4>3. CASE k = 0
        BY <1>3, <4>2, <4>3
      <4>4. CASE k # 0
        <5>1. k - 1 \in 0..(m - 1)
          BY <4>1, <4>4, <2>1
        <5> QED BY <1>4, <2>4, <4>1, <4>2, <5>1
      <4> QED BY <4>3, <4>4
    <3> QED BY <3>1, <3>2
  <2>6. Solves(g, m)
    BY <2>4, <2>5
  <2> QED BY <1>2, <2>6
<1> QED BY <1>5, <1>6

\* The rows of the outside table are linked one after the other, and each step keeps the
\* accounts; the accounts of the source that no row met go.
LEMMA SyncKeeps ==
  ASSUME NEW a, Table(a), NEW rows, Len(rows) \in Nat
  PROVE  /\ Table(Synced(a, rows))
         /\ \A i \in Users(a) \cap Users(Synced(a, rows)) : Synced(a, rows)[i].revokes = a[i].revokes
<1> DEFINE n == Len(rows)
           after == CHOOSE f : f = [k \in 0..n |-> SyncStep(a, rows, f, k)]
           t == after[n].table
<1>1. after = [k \in 0..n |-> SyncStep(a, rows, after, k)]
  <2>1. \E f : f = [k \in 0..n |-> SyncStep(a, rows, f, k)]
    BY SyncSolved
  <2> HIDE DEF n
  <2> QED BY <2>1
<1>2. Synced(a, rows) = [i \in DOMAIN t |->
        IF i \in Users(t) \ after[n].met /\ t[i].source = "cwa" THEN Deleted ELSE t[i]]
  BY DEF Synced, SyncStep
<1> HIDE DEF after
<1>3. n \in Nat /\ \A k \in 0..n : after[k] = SyncStep(a, rows, after, k)
  BY <1>1
<1> HIDE DEF n
<1>4. \A k \in 0..n : Table(after[k].table) /\ Kept(a, after[k].table)
  <2> DEFINE B == {k \in 0..n : ~(Table(after[k].table) /\ Kept(a, after[k].table))}
  <2>1. SUFFICES ASSUME B # {} PROVE FALSE
    OBVIOUS
  <2>2. B \subseteq Nat
    BY <1>3
  <2>3. PICK m \in B : \A k \in B : m <= k
    BY <2>1, <2>2, LeastOf
  <2>4. m \in 0..n /\ ~(Table(after[m].table) /\ Kept(a, after[m].table))
    BY <2>3
  <2>5. CASE m = 0
    <3>1. SyncStep(a, rows, after, 0).table = a
      BY DEF SyncStep
    <3> QED BY <1>3, <2>4, <2>5, <3>1 DEF Kept
  <2>6. CASE m # 0
    <3>1. m - 1 \in 0..n /\ m - 1 \notin B
      BY <1>3, <2>2, <2>3, <2>4, <2>6
    <3> DEFINE p == after[m - 1].table
               x == CwaIdentity(rows[m], rows[m].admin)
    <3>2. Table(p) /\ Kept(a, p)
      BY <3>1
    <3>3. SyncStep(a, rows, after, m).table = Upsert(p, x).table
      BY <2>6 DEF SyncStep
    <3> HIDE DEF p, x
    <3>4. Table(Upsert(p, x).table) /\ Kept(p, Upsert(p, x).table)
      BY <3>2, UpsertKeeps
    <3>5. Kept(a, Upsert(p, x).table)
      BY <3>2, <3>4 DEF Kept
    <3> QED BY <1>3, <2>4, <3>3, <3>4, <3>5
  <2> QED BY <2>5, <2>6
<1>5. Table(t) /\ Kept(a, t)
  BY <1>3, <1>4
<1> HIDE DEF t
<1> DEFINE done == Synced(a, rows)
<1>6. Len(t) \in Nat /\ DOMAIN t = 1..Len(t) /\ \A i \in DOMAIN t : Row(t[i])
  BY <1>5, TableRows
<1>7. Row(Deleted) /\ Deleted.name = NobodysName
  BY DEF Row, Deleted
<1>8. /\ done = [i \in 1..Len(t) |-> done[i]]
      /\ \A i \in 1..Len(t) : done[i] \in {Deleted, t[i]}
  BY <1>2, <1>6
<1> HIDE DEF done
<1>9. \A i \in 1..Len(t) : Row(done[i])
  BY <1>6, <1>7, <1>8
<1>10. Table(done) /\ DOMAIN done = 1..Len(t)
  BY <1>6, <1>8, <1>9, RowsTable
<1>11. \A i \in Users(a) \cap Users(done) : done[i].revokes = a[i].revokes
  BY <1>5, <1>7, <1>8, <1>10 DEF Users, Kept
<1> QED BY <1>10, <1>11 DEF done

\* A new cookie is a cookie.
LEMMA NoCookie == Cookie(NoSession)
BY DEF NoSession, Cookie

\* A step that changes the accounts but keeps them, and what forced logouts are for.
LEMMA KeptRemembered ==
  ASSUME AccountInv, Table(accounts'), UNCHANGED <<session, overstayed>>,
         \A p \in forced' : p \in forced /\ p[2] \in Users(accounts')
                            /\ accounts'[p[2]].revokes = accounts[p[2]].revokes
  PROVE  AccountInv'
<1>1. Remembered'
  BY DEF AccountInv, Remembered
<1> QED BY <1>1 DEF AccountInv

\* A step that leaves the accounts as they are and one browser's session at most.
LEMMA SessionMoves ==
  ASSUME AccountInv, NEW c \in Client, NEW s, Cookie(s),
         session' = [session EXCEPT ![c] = s], ~overstayed', UNCHANGED accounts,
         forced' \subseteq forced,
         \A p \in forced' : p[1] = c => s.dated
  PROVE  AccountInv'
<1>1. /\ session' = [d \in Client |-> session'[d]] /\ session'[c] = s
      /\ \A d \in Client : d # c => session'[d] = session[d]
  BY DEF AccountInv
<1>2. Remembered'
  BY <1>1 DEF AccountInv, Remembered
<1>3. \A d \in Client : Cookie(session'[d])
  BY <1>1 DEF AccountInv
<1> QED BY <1>1, <1>2, <1>3 DEF AccountInv

\* A session ends, and with it what was forced on it.
LEMMA SessionEnds ==
  ASSUME AccountInv, NEW c \in Client, session' = [session EXCEPT ![c] = NoSession],
         forced' = {p \in forced : p[1] # c}, UNCHANGED <<accounts, overstayed>>
  PROVE  AccountInv'
<1>1. ~overstayed' /\ forced' \subseteq forced /\ \A p \in forced' : p[1] # c
  BY DEF AccountInv
<1> QED BY <1>1, NoCookie, SessionMoves

\* A login, to an account of a table that keeps the accounts.
LEMMA LogInKeeps ==
  ASSUME AccountInv, NEW t, Table(t), Kept(accounts, t), NEW c \in Client, NEW name, NEW id,
         LogIn(t, c, name, id)
  PROVE  AccountInv'
<1> DEFINE s == [in |-> TRUE, name |-> name, id |-> id, admin |-> t[id].role = "admin",
                 dated |-> TRUE]
<1>1. Cookie(s) /\ session' = [session EXCEPT ![c] = s]
  BY DEF Cookie, LogIn
<1> HIDE DEF s
<1>2. /\ session' = [d \in Client |-> session'[d]] /\ session'[c] = s
      /\ \A d \in Client : d # c => session'[d] = session[d]
  BY <1>1 DEF AccountInv
<1>3. \A d \in Client : Cookie(session'[d])
  BY <1>1, <1>2 DEF AccountInv
<1>4. Len(t) \in Nat /\ DOMAIN t = 1..Len(t) /\ \A i \in DOMAIN t : Row(t[i])
  BY TableRows
<1>5. accounts' = [i \in DOMAIN t |-> [t[i] EXCEPT !.revokes = @ \ {c}]]
  BY DEF LogIn
<1>6. \A i \in DOMAIN t : /\ Row(accounts'[i]) /\ accounts'[i].name = t[i].name
                          /\ accounts'[i].revokes = t[i].revokes \ {c}
  BY <1>4, <1>5 DEF Row
<1>7. accounts' = [i \in 1..Len(t) |-> accounts'[i]] /\ DOMAIN accounts' = DOMAIN t
  BY <1>4, <1>5
<1>8. Table(accounts')
  BY <1>4, <1>6, <1>7, RowsTable
<1>9. \A i \in Users(accounts) : i \in Users(accounts')
                                 /\ accounts'[i].revokes = accounts[i].revokes \ {c}
  BY <1>6, <1>7 DEF Users, Kept
<1>10. forced' = {p \in forced : p[1] # c} /\ UNCHANGED overstayed
  BY DEF LogIn
<1>11. Remembered'
  BY <1>2, <1>9, <1>10 DEF AccountInv, Remembered
<1> QED BY <1>2, <1>3, <1>8, <1>10, <1>11 DEF AccountInv

\* The logins.
LEMMA LoginSteps ==
  ASSUME AccountInv, NEW c \in Client,
         \/ \E n \in LoginName : LocalLogin(c, n)
         \/ \E p \in Identity, g \in BOOLEAN : CwaLogin(c, p, g) \/ SamlCallback(c, p, g)
         \/ \E p \in Identity, g, create \in BOOLEAN : OidcCallback(c, p, g, create)
  PROVE  AccountInv'
<1>1. Table(accounts) /\ Kept(accounts, accounts)
  BY DEF AccountInv, Kept
<1>2. ASSUME NEW n \in LoginName, LocalLogin(c, n) PROVE AccountInv'
  <2>1. PICK i : LogIn(accounts, c, Plain(n), i)
    BY <1>2 DEF LocalLogin
  <2> QED BY <1>1, <2>1, LogInKeeps
<1>3. ASSUME NEW p \in Identity, NEW g \in BOOLEAN, CwaLogin(c, p, g) PROVE AccountInv'
  <2> DEFINE to == Upsert(accounts, CwaIdentity(p, g))
  <2>1. LogIn(to.table, c, Plain(p.name), to.id)
    BY <1>3 DEF CwaLogin
  <2>2. Table(to.table) /\ Kept(accounts, to.table)
    BY <1>1, UpsertKeeps
  <2> HIDE DEF to
  <2> QED BY <2>1, <2>2, LogInKeeps
<1>4. ASSUME NEW p \in Identity, NEW g \in BOOLEAN, SamlCallback(c, p, g) PROVE AccountInv'
  <2> DEFINE new == [NewAccount(Plain(p.name), "saml", "user", FALSE, p.email, NoSubject)
                       EXCEPT !.saml = p.subject]
  <2>1. \/ \E i : LogIn(accounts, c, accounts[i].name, i)
        \/ LogIn(Append(accounts, new), c, Plain(p.name), Len(accounts) + 1)
    BY <1>4 DEF SamlCallback
  <2>2. Row(new)
    BY DEF Row, NewAccount
  <2> HIDE DEF new
  <2>3. Table(Append(accounts, new)) /\ Kept(accounts, Append(accounts, new))
    BY <1>1, <2>2, AddedKeeps
  <2> QED BY <1>1, <2>1, <2>3, LogInKeeps
<1>5. ASSUME NEW p \in Identity, NEW g \in BOOLEAN, NEW create \in BOOLEAN,
             OidcCallback(c, p, g, create)
      PROVE  AccountInv'
  <2> DEFINE to == Upsert(accounts, OidcIdentity(p, g, create))
  <2>1. LogIn(to.table, c, to.table[to.id].name, to.id)
    BY <1>5 DEF OidcCallback
  <2>2. Table(to.table) /\ Kept(accounts, to.table)
    BY <1>1, UpsertKeeps
  <2> HIDE DEF to
  <2> QED BY <2>1, <2>2, LogInKeeps
<1> QED BY <1>2, <1>3, <1>4, <1>5

\* A route that login_required guards serves no session a forced logout was meant for: the
\* account it is for still has that session among the revoked.
LEMMA ServedStays ==
  ASSUME AccountInv, NEW c \in Client, Served(c)
  PROVE  ~Overstays(c)
<1> SUFFICES ASSUME Mode # "none", <<c, session[c].id>> \in forced PROVE FALSE
  BY DEF Overstays
<1>1. /\ session[c].dated /\ session[c].id \in Users(accounts)
      /\ c \in accounts[session[c].id].revokes
  BY DEF AccountInv, Remembered
<1> QED BY <1>1 DEF Served, Outdated

\* A request is served, or ends its session.
LEMMA RequestSteps ==
  ASSUME AccountInv, NEW c \in Client, Request(c)
  PROVE  AccountInv'
<1>1. Cookie(session[c])
  BY DEF AccountInv
<1>2. CASE Served(c)
  <2>1. ~Overstays(c)
    BY <1>2, ServedStays
  <2>2. ~overstayed' /\ UNCHANGED <<session, forced, accounts>>
    BY <1>2, <2>1 DEF Request, AccountInv
  <2> QED BY <2>2 DEF AccountInv, Remembered
<1>3. CASE ~Served(c)
  BY <1>3, SessionEnds DEF Request
<1> QED BY <1>2, <1>3

\* Behind the proxy the session may change its account; the account it had is told by the
\* table that linking leaves, which keeps its revoked sessions.
LEMMA ProxySteps ==
  ASSUME AccountInv, NEW c \in Client, NEW n \in LoginName, NEW grouped \in BOOLEAN,
         NEW guarded \in BOOLEAN, ProxyRequest(c, n, grouped, guarded)
  PROVE  AccountInv'
<1> DEFINE s == session[c]
           admin == IF method.groups THEN grouped
                    ELSE \A i \in Named(accounts, Plain(n)) : accounts[i].role = "admin"
           kept == IF s.in /\ s.name # Plain(n) THEN 0 ELSE s.id
           insync == kept \in Users(accounts) /\ accounts[kept].name = Plain(n)
           to == IF insync THEN [table |-> accounts, id |-> kept]
                 ELSE Upsert(accounts, ProxyIdentity(n, admin))
           outdated == guarded /\ s.dated /\ c \in to.table[to.id].revokes
           q == [in |-> TRUE, name |-> Plain(n), id |-> to.id, admin |-> admin, dated |-> s.dated]
<1>1. /\ accounts' = to.table
      /\ session' = [session EXCEPT ![c] = IF outdated THEN NoSession ELSE q]
      /\ forced' = IF outdated THEN {p \in forced : p[1] # c} ELSE forced
      /\ overstayed' = (overstayed \/ (guarded /\ ~outdated /\ <<c, to.id>> \in forced))
  BY Zenon DEF ProxyRequest
<1>2. Table(to.table) /\ Kept(accounts, to.table)
  <2>1. Table(accounts) /\ Kept(accounts, accounts)
    BY DEF AccountInv, Kept
  <2> DEFINE u == Upsert(accounts, ProxyIdentity(n, admin))
  <2>3. Table(u.table) /\ Kept(accounts, u.table)
    BY <2>1, UpsertKeeps
  <2> HIDE DEF u
  <2>4. to.table = accounts \/ to.table = u.table
    BY DEF u
  <2> QED BY <2>1, <2>3, <2>4
<1>3. Cookie(s)
  BY DEF AccountInv
<1>4. Cookie(q) /\ q.dated = s.dated
  BY <1>3 DEF Cookie
<1> HIDE DEF q, to
<1>5. guarded /\ <<c, to.id>> \in forced => outdated
  BY <1>2 DEF AccountInv, Remembered, Kept
<1>6. ~overstayed'
  BY <1>1, <1>5 DEF AccountInv
<1>7. /\ session' = [d \in Client |-> session'[d]]
      /\ session'[c] = IF outdated THEN NoSession ELSE q
      /\ \A d \in Client : d # c => session'[d] = session[d]
  BY <1>1 DEF AccountInv
<1>8. \A d \in Client : Cookie(session'[d])
  BY <1>4, <1>7, NoCookie DEF AccountInv
<1>9. ASSUME NEW p \in forced'
      PROVE  /\ p[1] \in Client /\ session'[p[1]].dated
             /\ p[2] \in Users(accounts') /\ p[1] \in accounts'[p[2]].revokes
  <2>1. p \in forced /\ (outdated => p[1] # c)
    BY <1>1, <1>9
  <2>2. /\ p[1] \in Client /\ session[p[1]].dated
        /\ p[2] \in Users(accounts) /\ p[1] \in accounts[p[2]].revokes
    BY <2>1 DEF AccountInv, Remembered
  <2>3. p[2] \in Users(accounts') /\ p[1] \in accounts'[p[2]].revokes
    BY <1>1, <1>2, <2>2 DEF Kept
  <2>4. session'[p[1]].dated
    BY <1>4, <1>7, <2>1, <2>2
  <2> QED BY <2>2, <2>3, <2>4
<1>10. Remembered'
  BY <1>9 DEF Remembered
<1> QED BY <1>1, <1>2, <1>6, <1>7, <1>8, <1>10 DEF AccountInv

\* The edit of one row keeps its name and whom it has revoked.
LEMMA EditSteps ==
  ASSUME AccountInv, NEW i, NEW local, NEW password, NEW role, NEW email,
         Edited(i, local, password, role, email), i \in Users(accounts),
         UNCHANGED <<session, overstayed>>
  PROVE  AccountInv'
<1> DEFINE a == accounts[i]
           written == [a EXCEPT !.password = @ \/ password]
           r == accounts'[i]
<1>1. PICK ok \in BOOLEAN : accounts' = [accounts EXCEPT ![i] =
        IF ok THEN [written EXCEPT !.role = role, !.email = email] ELSE written]
  <2> DEFINE mayRole == a.source = "builtin" \/ (a.source = "oidc" /\ ~method.groups)
             allowed == (role # a.role => mayRole) /\ (email # a.email => a.source \in {"builtin", "proxy"})
  <2>1. accounts' = [accounts EXCEPT ![i] =
          IF allowed THEN [written EXCEPT !.role = role, !.email = email] ELSE written]
    BY DEF Edited
  <2> HIDE DEF allowed, written
  <2> QED BY <2>1
<1>2. /\ Len(accounts) \in Nat /\ DOMAIN accounts = 1..Len(accounts)
      /\ accounts = [k \in 1..Len(accounts) |-> accounts[k]]
      /\ \A k \in DOMAIN accounts : Row(accounts[k])
  BY TableRows DEF AccountInv
<1>3. i \in DOMAIN accounts
  BY DEF Users
<1>4. Row(written) /\ written.name = a.name /\ written.revokes = a.revokes
  BY <1>2, <1>3 DEF Row
<1> HIDE DEF written
<1>5. Row(r) /\ r.name = a.name /\ r.revokes = a.revokes
  BY <1>1, <1>2, <1>3, <1>4 DEF Row
<1>6. /\ accounts' = [k \in 1..Len(accounts) |-> accounts'[k]] /\ DOMAIN accounts' = DOMAIN accounts
      /\ \A k \in DOMAIN accounts : k # i => accounts'[k] = accounts[k]
  BY <1>1, <1>2
<1>7. Table(accounts')
  BY <1>2, <1>5, <1>6, RowsTable
<1>8. Kept(accounts, accounts')
  BY <1>5, <1>6 DEF Kept, Users
<1>9. forced' = forced
  BY DEF Edited
<1> QED BY <1>7, <1>8, <1>9, KeptRemembered DEF Kept, AccountInv, Remembered

\* An administrator's forced logout revokes every dated session, and is remembered for
\* those that are of the account.
LEMMA ForceSteps ==
  ASSUME AccountInv, NEW c, NEW i \in Users(accounts), ForceLogout(c, i)
  PROVE  AccountInv'
<1> DEFINE dated == {d \in Client : session[d].in /\ session[d].dated}
           r == [accounts[i] EXCEPT !.revokes = @ \cup dated]
<1>1. /\ accounts' = [accounts EXCEPT ![i] = r] /\ UNCHANGED <<session, overstayed>>
      /\ forced' = forced \cup {<<d, i>> : d \in {x \in dated : session[x].id = i}}
  BY DEF ForceLogout, AdminWrites
<1>2. /\ Len(accounts) \in Nat /\ DOMAIN accounts = 1..Len(accounts)
      /\ accounts = [k \in 1..Len(accounts) |-> accounts[k]]
      /\ \A k \in DOMAIN accounts : Row(accounts[k])
  BY TableRows DEF AccountInv
<1>3. i \in DOMAIN accounts
  BY DEF Users
<1>4. Row(r) /\ r.name = accounts[i].name /\ r.revokes = accounts[i].revokes \cup dated
  BY <1>2, <1>3 DEF Row
<1> HIDE DEF r
<1>5. /\ accounts' = [k \in 1..Len(accounts) |-> accounts'[k]] /\ accounts'[i] = r
      /\ DOMAIN accounts' = DOMAIN accounts
      /\ \A k \in DOMAIN accounts : k # i => accounts'[k] = accounts[k]
  BY <1>1, <1>2, <1>3
<1>6. Table(accounts')
  BY <1>2, <1>4, <1>5, RowsTable
<1>7. Users(accounts') = Users(accounts)
  BY <1>4, <1>5 DEF Users
<1>8. ASSUME NEW p \in forced'
      PROVE  /\ p[1] \in Client /\ session'[p[1]].dated
             /\ p[2] \in Users(accounts') /\ p[1] \in accounts'[p[2]].revokes
  <2>1. CASE p \in forced
    <3>1. /\ p[1] \in Client /\ session[p[1]].dated
          /\ p[2] \in Users(accounts) /\ p[1] \in accounts[p[2]].revokes
      BY <2>1 DEF AccountInv, Remembered
    <3>2. p[2] \in DOMAIN accounts
      BY <3>1 DEF Users
    <3> QED BY <1>1, <1>4, <1>5, <1>7, <3>1, <3>2
  <2>2. CASE p \notin forced
    <3>1. PICK d \in dated : p = <<d, i>>
      BY <1>1, <1>8, <2>2
    <3> QED BY <1>1, <1>4, <1>5, <1>7, <3>1
  <2> QED BY <2>1, <2>2
<1>9. Remembered'
  BY <1>8 DEF Remembered
<1> QED BY <1>1, <1>6, <1>9 DEF AccountInv

\* What else administrators do: accounts made and deleted, the outside table synchronised,
\* the method changed.
LEMMA AdminSteps ==
  ASSUME AccountInv, NEW c \in Client, AdminStep(c)
  PROVE  AccountInv'
<1>1. Table(accounts) /\ \A p \in forced : p[2] \in Users(accounts)
  BY DEF AccountInv, Remembered
<1>2. ASSUME NEW n \in LoginName, NEW r \in {"admin", "user"}, NEW e, CreateAccount(c, n, r, e)
      PROVE  AccountInv'
  <2> DEFINE q == NewAccount(Plain(n), "builtin", IF Users(accounts) = {} THEN "admin" ELSE r,
                             TRUE, e, NoSubject)
  <2>1. accounts' = Append(accounts, q) /\ UNCHANGED <<session, overstayed, forced>>
    BY <1>2 DEF CreateAccount, AdminWrites
  <2>2. Row(q)
    BY DEF Row, NewAccount
  <2> HIDE DEF q
  <2>3. Table(accounts') /\ Kept(accounts, accounts')
    BY <1>1, <2>1, <2>2, AddedKeeps
  <2> QED BY <1>1, <2>1, <2>3, KeptRemembered DEF Kept
<1>3. ASSUME NEW i \in Users(accounts), DeleteAccount(c, i) PROVE AccountInv'
  <2>1. /\ accounts' = [accounts EXCEPT ![i] = Deleted] /\ UNCHANGED <<session, overstayed>>
        /\ forced' = {p \in forced : p[2] # i}
    BY <1>3 DEF DeleteAccount, AdminWrites
  <2>2. /\ Len(accounts) \in Nat /\ DOMAIN accounts = 1..Len(accounts)
        /\ \A k \in DOMAIN accounts : Row(accounts[k]) /\ Row(Deleted)
    BY <1>1, TableRows DEF Row, Deleted
  <2>3. /\ accounts' = [k \in 1..Len(accounts) |-> accounts'[k]]
        /\ DOMAIN accounts' = DOMAIN accounts
        /\ \A k \in DOMAIN accounts : accounts'[k] = IF k = i THEN Deleted ELSE accounts[k]
    BY <2>1, <2>2
  <2>4. Table(accounts')
    BY <2>2, <2>3, RowsTable
  <2>5. \A p \in forced' : p \in forced /\ p[2] \in Users(accounts')
                           /\ accounts'[p[2]].revokes = accounts[p[2]].revokes
    BY <1>1, <2>1, <2>3 DEF Users
  <2> QED BY <2>1, <2>4, <2>5, KeptRemembered
<1>4. ASSUME NEW rows \in CwaLists, SyncCwa(c, rows) PROVE AccountInv'
  <2>1. /\ accounts' = Synced(accounts, rows) /\ UNCHANGED <<session, overstayed>>
        /\ forced' = {p \in forced : p[2] \in Users(accounts')}
    BY <1>4 DEF SyncCwa, AdminWrites
  <2>2. Len(rows) \in Nat
    BY AccountsAssumption
  <2>3. /\ Table(accounts')
        /\ \A i \in Users(accounts) \cap Users(accounts') : accounts'[i].revokes = accounts[i].revokes
    BY <1>1, <2>1, <2>2, SyncKeeps
  <2> QED BY <1>1, <2>1, <2>3, KeptRemembered
<1>5. ASSUME NEW m \in AuthSettings, SaveMethod(c, m) PROVE AccountInv'
  <2>1. ~Overstays(c)
    BY <1>5, ServedStays DEF SaveMethod
  <2> QED BY <1>5, <2>1 DEF SaveMethod, AccountInv, Remembered
<1>6. ASSUME NEW i \in Users(accounts), ForceLogout(c, i) PROVE AccountInv'
  BY <1>6, ForceSteps
<1>7. ASSUME NEW i \in Users(accounts), NEW password \in BOOLEAN, NEW r, NEW e,
             EditAccount(c, i, password, r, e)
      PROVE  AccountInv'
  BY <1>7, EditSteps DEF EditAccount, AdminWrites
<1> QED BY <1>2, <1>3, <1>4, <1>5, <1>6, <1>7 DEF AdminStep

\* What a browser does.
LEMMA ClientSteps ==
  ASSUME AccountInv, NEW c \in Client, ClientStep(c)
  PROVE  AccountInv'
<1>1. CASE Request(c)
  BY <1>1, RequestSteps
<1>2. CASE Logout(c)
  BY <1>2, SessionEnds DEF Logout
<1>3. ASSUME NEW n \in LoginName, OpenLogin(c, n) PROVE AccountInv'
  <2> DEFINE s == [session[c] EXCEPT !.in = TRUE, !.name = Plain(n)]
  <2>1. session' = [session EXCEPT ![c] = s] /\ UNCHANGED <<accounts, forced, overstayed>>
    BY <1>3 DEF OpenLogin, AccountInv
  <2>2. Cookie(session[c])
    BY DEF AccountInv
  <2>3. Cookie(s) /\ s.dated = session[c].dated
    BY <2>2 DEF Cookie
  <2> HIDE DEF s
  <2>4. \A p \in forced' : p[1] = c => s.dated
    BY <2>1, <2>3 DEF AccountInv, Remembered
  <2>5. ~overstayed' /\ forced' \subseteq forced
    BY <2>1 DEF AccountInv
  <2> QED BY <2>1, <2>3, <2>4, <2>5, SessionMoves
<1>4. ASSUME NEW n \in LoginName, NEW g \in BOOLEAN, NEW guarded \in BOOLEAN,
             ProxyRequest(c, n, g, guarded)
      PROVE  AccountInv'
  BY <1>4, ProxySteps
<1>5. ASSUME NEW password \in BOOLEAN, NEW e, EditSelf(c, password, e) PROVE AccountInv'
  <2>1. /\ Edited(session[c].id, TRUE, password, accounts[session[c].id].role, e)
        /\ session[c].id \in Users(accounts) /\ UNCHANGED <<session, overstayed>>
    BY <1>5 DEF EditSelf
  <2> QED BY <2>1, EditSteps
<1> QED BY <1>1, <1>2, <1>3, <1>4, <1>5, LoginSteps DEF ClientStep

\* Every step keeps the invariant.
LEMMA AccountInvStep == AccountInv /\ [AccountNext]_accountVars => AccountInv'
<1> SUFFICES ASSUME AccountInv, [AccountNext]_accountVars PROVE AccountInv'
  OBVIOUS
<1>1. CASE UNCHANGED accountVars
  BY <1>1 DEF accountVars, AccountInv, Remembered
<1>2. ASSUME NEW c \in Client, ClientStep(c) PROVE AccountInv'
  BY <1>2, ClientSteps
<1>3. ASSUME NEW c \in Client, AdminStep(c) PROVE AccountInv'
  BY <1>3, AdminSteps
<1>4. ASSUME NEW n \in Mistyped, NameStep(n) PROVE AccountInv'
  BY <1>4 DEF NameStep, LockExpires, LoginRefused, LoginFails, AccountInv, Remembered
<1> QED BY <1>1, <1>2, <1>3, <1>4 DEF AccountNext

\* The invariant holds at the start.
LEMMA AccountInvInit == AccountInit => AccountInv
<1> SUFFICES ASSUME AccountInit PROVE AccountInv
  OBVIOUS
<1>1. <<>> \in Seq({})
  OBVIOUS
<1>2. Table(accounts)
  BY <1>1 DEF AccountInit, Table
<1> QED BY <1>2, NoCookie DEF AccountInit, AccountInv, Remembered

\* A forced logout is remembered by the account it was meant for, through logins, links,
\* edits, synchronisations and changes of the method.
THEOREM AccountInvariant == AccountSpec => []AccountInv
<1>1. AccountInit => AccountInv
  BY AccountInvInit
<1>2. AccountInv /\ [AccountNext]_accountVars => AccountInv'
  BY AccountInvStep
<1> QED BY <1>1, <1>2, PTL DEF AccountSpec

\* No route under login_required ever serves, and no settings are ever saved in, a session
\* that an administrator's forced logout of its account came after.
THEOREM AccountForcedLogoutHolds == AccountSpec => []ForcedLogoutHolds
<1>1. AccountInv => ForcedLogoutHolds
  BY DEF AccountInv, ForcedLogoutHolds
<1> QED BY <1>1, AccountInvariant, PTL

-----------------------------------------------------------------------------
(***************************************************************************)
(* Linking finds its own: whatever the table, an identity that was linked  *)
(* to an account, or given one, is found to have that account.             *)
(***************************************************************************)
\* The least of a set of numbers.
LEMMA MinLeast ==
  ASSUME NEW S, S \subseteq Nat, S # {}
  PROVE  Min(S) \in S /\ \A y \in S : Min(S) <= y
<1>1. \E x \in S : \A y \in S : x =< y
  BY LeastOf
<1> QED BY <1>1 DEF Min

\* The one way to look for a collision, when it finds one.
LEMMA FirstOfOne ==
  ASSUME NEW A
  PROVE  FirstFound(<<A>>) = IF A = {} THEN 0 ELSE Min(A)
<1> DEFINE q == <<A>>
           one == {k \in DOMAIN q : q[k] # {}}
<1>1. DOMAIN q = {1} /\ q[1] = A
  OBVIOUS
<1>2. FirstFound(q) = IF one = {} THEN 0 ELSE Min(q[Min(one)])
  BY DEF FirstFound
<1> HIDE DEF q
<1>3. one = IF A = {} THEN {} ELSE {1}
  BY <1>1
<1>4. one # {} => Min(one) = 1
  BY <1>3, MinLeast
<1> QED BY <1>1, <1>2, <1>3, <1>4 DEF q

\* The match is the first of three ways' that finds one.
LEMMA MatchIs ==
  ASSUME NEW a, NEW x
  PROVE  /\ BySubject(a, x) # {} => MatchOf(a, x) = Min(BySubject(a, x))
         /\ BySubject(a, x) = {} /\ BySourceName(a, x) # {} =>
              MatchOf(a, x) = Min(BySourceName(a, x))
         /\ BySubject(a, x) = {} /\ BySourceName(a, x) = {} /\ ByUniqueEmail(a, x) # {} =>
              MatchOf(a, x) = Min(ByUniqueEmail(a, x))
         /\ BySubject(a, x) = {} /\ BySourceName(a, x) = {} /\ ByUniqueEmail(a, x) = {} =>
              MatchOf(a, x) = 0
<1> DEFINE A == BySubject(a, x)
           B == BySourceName(a, x)
           C == ByUniqueEmail(a, x)
           s == <<A, B, C>>
           hits == {k \in DOMAIN s : s[k] # {}}
           m == Min(hits)
<1>1. DOMAIN s = {1, 2, 3} /\ s[1] = A /\ s[2] = B /\ s[3] = C
  OBVIOUS
<1>2. MatchOf(a, x) = IF hits = {} THEN 0 ELSE Min(s[m])
  BY DEF FirstFound, MatchOf
<1> HIDE DEF A, B, C, s
<1>3. hits \subseteq Nat /\ \A k \in hits : k \in {1, 2, 3} /\ s[k] # {}
  BY <1>1
<1>4. hits # {} => m \in {1, 2, 3} /\ s[m] # {} /\ \A k \in hits : m <= k
  BY <1>3, MinLeast
<1>5. /\ A # {} => 1 \in hits
      /\ B # {} => 2 \in hits
      /\ C # {} => 3 \in hits
  BY <1>1
<1> HIDE DEF hits, m
<1>6. A # {} => m = 1 /\ hits # {}
  BY <1>4, <1>5
<1>7. A = {} /\ B # {} => m = 2 /\ hits # {}
  BY <1>1, <1>4, <1>5
<1>8. A = {} /\ B = {} /\ C # {} => m = 3 /\ hits # {}
  BY <1>1, <1>4, <1>5
<1>9. A = {} /\ B = {} /\ C = {} => hits = {}
  BY <1>1, <1>3
<1>10. /\ A # {} => MatchOf(a, x) = Min(A)
       /\ A = {} /\ B # {} => MatchOf(a, x) = Min(B)
       /\ A = {} /\ B = {} /\ C # {} => MatchOf(a, x) = Min(C)
       /\ A = {} /\ B = {} /\ C = {} => MatchOf(a, x) = 0
  BY <1>1, <1>2, <1>6, <1>7, <1>8, <1>9
<1> QED BY <1>10 DEF A, B, C

\* A table has finitely many accounts.
LEMMA UsersFinite ==
  ASSUME NEW a, Table(a), NEW S \in SUBSET Users(a)
  PROVE  IsFiniteSet(S)
<1>1. S \in SUBSET (1..Len(a)) /\ Len(a) \in Int
  BY TableRows DEF Users
<1>2. IsFiniteSet(1..Len(a))
  BY <1>1, FS_Interval
<1> QED BY <1>1, <1>2, FS_Subset

\* Each way of finding an account finds accounts.
LEMMA FindsUsers ==
  ASSUME NEW a, Table(a), NEW x
  PROVE  /\ Users(a) \subseteq Nat \ {0} /\ BySubject(a, x) \subseteq Users(a)
         /\ BySourceName(a, x) \subseteq Users(a) /\ ByUniqueEmail(a, x) \subseteq Users(a)
         /\ Named(a, Plain(x.name)) \subseteq Users(a)
<1>1. Len(a) \in Nat /\ DOMAIN a = 1..Len(a)
  BY TableRows
<1> QED BY <1>1 DEF Users, BySubject, BySourceName, ByUniqueEmail, Named

\* An identity as a source makes it: one that may have a suffix is known by its subject,
\* one that may have an alias brings its email along.
Settling(x) ==
  /\ x.name # NoName /\ x.create /\ x.strategy \in {"takeover", "alias", "suffix"}
  /\ x.strategy = "suffix" => x.subject # NoSubject
  /\ x.strategy = "alias" => x.source # "proxy"

\* The accounts an alias of the identity has.
Aliases(a, x) ==
  {i \in Users(a) : a[i].name.base = x.name /\ a[i].name.alias /\ a[i].source = x.source}

\* What a collision finds, strategy by strategy.
LEMMA CollisionIs ==
  ASSUME NEW a, NEW x, x.strategy \in {"takeover", "alias", "suffix"}
  PROVE  /\ Named(a, Plain(x.name)) = {} \/ x.strategy = "suffix" => ByCollision(a, x) = {}
         /\ x.strategy = "takeover" => ByCollision(a, x) = Named(a, Plain(x.name))
         /\ x.strategy = "alias" /\ Named(a, Plain(x.name)) # {} => ByCollision(a, x) = Aliases(a, x)
<1>1. CASE x.strategy = "takeover"
  BY <1>1 DEF ByCollision
<1>2. CASE x.strategy = "alias"
  BY <1>2 DEF ByCollision, Aliases
<1>3. CASE x.strategy = "suffix"
  BY <1>3 DEF ByCollision
<1> QED BY <1>1, <1>2, <1>3

\* When no way finds another account, and one of them finds this, this one is found.
LEMMA FoundIs ==
  ASSUME NEW t, Table(t), NEW x, x.create, NEW i \in Users(t),
         BySubject(t, x) \subseteq {i}, BySourceName(t, x) \subseteq {i},
         \/ i \in BySubject(t, x) \/ i \in BySourceName(t, x)
         \/ /\ ByUniqueEmail(t, x) \subseteq {i}
            /\ \/ i \in ByUniqueEmail(t, x)
               \/ ByCollision(t, x) # {} /\ Min(ByCollision(t, x)) = i
  PROVE  FoundFor(t, x) = i
<1>1. Min({i}) = i /\ i # 0
  <2>1. i \in Nat /\ i # 0
    BY FindsUsers
  <2> QED BY <2>1, MinLeast
<1> DEFINE A == BySubject(t, x)
           B == BySourceName(t, x)
           C == ByUniqueEmail(t, x)
           D == ByCollision(t, x)
<1>2. /\ A # {} => A = {i}
      /\ B # {} => B = {i}
      /\ A = {} /\ B = {} /\ C # {} => C = {i}
  OBVIOUS
<1>3. A # {} \/ B # {} \/ C # {} => MatchOf(t, x) = i
  BY <1>1, <1>2, MatchIs
<1>4. A = {} /\ B = {} /\ C = {} => MatchOf(t, x) = 0 /\ D # {} /\ Min(D) = i
  BY MatchIs
<1>5. FirstFound(<<D>>) = IF D = {} THEN 0 ELSE Min(D)
  BY FirstOfOne
<1> HIDE DEF A, B, C, D
<1> QED BY <1>1, <1>3, <1>4, <1>5 DEF FoundFor, D

\* A table in which account i is linked to x and all others are what they were.
LinkedTo(a, t, i, x) ==
  /\ i \in Users(t) /\ t[i].source = x.source
  /\ x.subject # NoSubject => t[i].subject = x.subject
  /\ x.source # "proxy" => t[i].email = x.email
  /\ \A j \in Users(t) \ {i} : j \in Users(a) /\ t[j] = a[j]
  /\ \A j \in Users(a) \ {i} : j \in Users(t) /\ t[j] = a[j]

\* What the ways to find an account that found none before find then.
LEMMA FindsOnly ==
  ASSUME NEW a, NEW t, Table(t), NEW i, NEW x, LinkedTo(a, t, i, x)
  PROVE  /\ BySubject(a, x) = {} => BySubject(t, x) \subseteq {i}
         /\ x.subject # NoSubject => i \in BySubject(t, x)
         /\ BySourceName(a, x) = {} => BySourceName(t, x) \subseteq {i}
         /\ x.source # "proxy" => ByUniqueEmail(t, x) \subseteq {i}
         /\ x.email = NoEmail => ByUniqueEmail(t, x) = {}
<1>1. BySubject(a, x) = {} => BySubject(t, x) \subseteq {i}
  BY DEF LinkedTo, BySubject
<1>2. x.subject # NoSubject => i \in BySubject(t, x)
  BY DEF LinkedTo, BySubject
<1>3. BySourceName(a, x) = {} => BySourceName(t, x) \subseteq {i}
  BY DEF LinkedTo, BySourceName, Named
<1>4. ASSUME x.source # "proxy" PROVE ByUniqueEmail(t, x) \subseteq {i}
  <2> DEFINE same == {j \in Users(t) : t[j].email = x.email}
  <2>1. i \in same
    BY <1>4 DEF LinkedTo
  <2>2. ByUniqueEmail(t, x) = IF x.email # NoEmail /\ Cardinality(same) = 1 THEN same ELSE {}
    BY DEF ByUniqueEmail
  <2>3. IsFiniteSet(same)
    BY UsersFinite
  <2> HIDE DEF same
  <2>4. Cardinality(same) = 1 => same = {i}
    <3>1. Cardinality(same) = 1 => \E y : same = {y}
      BY <2>3, FS_Singleton
    <3> QED BY <2>1, <3>1
  <2> QED BY <2>2, <2>4
<1>5. x.email = NoEmail => ByUniqueEmail(t, x) = {}
  BY DEF ByUniqueEmail
<1> QED BY <1>1, <1>2, <1>3, <1>4, <1>5

\* Linking account i of a table to x, where i is an account already.
LEMMA LinkedLinks ==
  ASSUME NEW a, Table(a), NEW i \in Users(a), NEW x
  PROVE  /\ LinkedTo(a, Linked(a, i, x), i, x) /\ Table(Linked(a, i, x))
         /\ Linked(a, i, x)[i] = LinkedRow(a[i], x) /\ Linked(a, i, x)[i].name = a[i].name
         /\ x.source = "proxy" => Linked(a, i, x)[i].email = a[i].email
         /\ Linked(Linked(a, i, x), i, x) = Linked(a, i, x)
<1> DEFINE t == Linked(a, i, x)
<1>1. /\ t = [j \in DOMAIN a |-> IF j = i THEN LinkedRow(a[j], x) ELSE a[j]]
      /\ Row(LinkedRow(a[i], x)) /\ LinkedRow(a[i], x).name = a[i].name /\ i \in DOMAIN a
  <2>1. i \in DOMAIN a
    BY DEF Users
  <2> QED BY <2>1, LinkedIs
<1>2. Table(t)
  BY LinkedKeeps
<1> HIDE DEF t
<1>3. Row(a[i])
  BY <1>1, TableRows
<1>4. /\ LinkedRow(a[i], x).source = x.source
      /\ x.subject # NoSubject => LinkedRow(a[i], x).subject = x.subject
      /\ LinkedRow(a[i], x).email = IF x.source = "proxy" THEN a[i].email ELSE x.email
      /\ LinkedRow(LinkedRow(a[i], x), x) = LinkedRow(a[i], x)
  BY <1>3 DEF LinkedRow, Row
<1>5. LinkedTo(a, t, i, x)
  BY <1>1, <1>4 DEF LinkedTo, Users
<1>6. Linked(t, i, x) = [j \in DOMAIN t |-> IF j = i THEN LinkedRow(t[j], x) ELSE t[j]]
  BY <1>2, LinkedIs
<1>7. Linked(t, i, x) = t
  BY <1>1, <1>4, <1>6
<1> QED BY <1>1, <1>2, <1>4, <1>5, <1>7 DEF t

\* An account that was found is found again.
LEMMA FoundAgain ==
  ASSUME NEW a, Table(a), NEW x, Settling(x), FoundFor(a, x) # 0
  PROVE  LET i == FoundFor(a, x) IN /\ i \in Users(a) /\ FoundFor(Linked(a, i, x), x) = i
<1> DEFINE i == FoundFor(a, x)
           t == Linked(a, i, x)
           A == BySubject(a, x)
           B == BySourceName(a, x)
           C == ByUniqueEmail(a, x)
           D == ByCollision(a, x)
<1>1. /\ Users(a) \subseteq Nat \ {0} /\ A \subseteq Users(a) /\ B \subseteq Users(a)
      /\ C \subseteq Users(a) /\ Named(a, Plain(x.name)) \subseteq Users(a)
  BY FindsUsers
<1>2. D \subseteq Users(a)
  BY <1>1, CollisionIs DEF Settling, Aliases
<1>3. /\ A # {} => MatchOf(a, x) = Min(A)
      /\ A = {} /\ B # {} => MatchOf(a, x) = Min(B)
      /\ A = {} /\ B = {} /\ C # {} => MatchOf(a, x) = Min(C)
      /\ A = {} /\ B = {} /\ C = {} => MatchOf(a, x) = 0
  BY MatchIs
<1>4. FirstFound(<<D>>) = IF D = {} THEN 0 ELSE Min(D)
  BY FirstOfOne
<1>5. /\ A # {} => Min(A) \in A
      /\ B # {} => Min(B) \in B
      /\ C # {} => Min(C) \in C
      /\ D # {} => Min(D) \in D
  <2>1. A \subseteq Nat /\ B \subseteq Nat /\ C \subseteq Nat /\ D \subseteq Nat
    BY <1>1, <1>2
  <2> HIDE DEF A, B, C, D
  <2> QED BY <2>1, MinLeast
<1>6. \/ A # {} /\ i = Min(A)
      \/ A = {} /\ B # {} /\ i = Min(B)
      \/ A = {} /\ B = {} /\ C # {} /\ i = Min(C)
      \/ A = {} /\ B = {} /\ C = {} /\ D # {} /\ i = Min(D)
  <2> HIDE DEF A, B, C, D
  <2>1. MatchOf(a, x) # 0 => i = MatchOf(a, x)
    BY DEF FoundFor
  <2>2. MatchOf(a, x) = 0 => i = FirstFound(<<D>>)
    BY DEF FoundFor, Settling, D
  <2>3. \A y \in Users(a) : y # 0
    BY <1>1
  <2> HIDE DEF i
  <2>4. i # 0
    BY DEF i
  <2> QED BY <1>1, <1>3, <1>4, <1>5, <2>1, <2>2, <2>3, <2>4
<1>7. i \in Users(a)
  <2> HIDE DEF A, B, C, D, i
  <2> QED BY <1>1, <1>2, <1>5, <1>6
<1>8. /\ LinkedTo(a, t, i, x) /\ Table(t) /\ t[i].name = a[i].name
      /\ x.source = "proxy" => t[i].email = a[i].email
  BY <1>7, LinkedLinks
<1> HIDE DEF i, t
<1>9. /\ A = {} => BySubject(t, x) \subseteq {i}
      /\ x.subject # NoSubject => i \in BySubject(t, x)
      /\ B = {} => BySourceName(t, x) \subseteq {i}
      /\ x.source # "proxy" => ByUniqueEmail(t, x) \subseteq {i}
      /\ x.email = NoEmail => ByUniqueEmail(t, x) = {}
  BY <1>8, FindsOnly
<1>10. i \in Users(t) /\ \A j : j # i => (j \in Users(t) <=> j \in Users(a)) /\ (j \in Users(a) => t[j] = a[j])
  BY <1>8 DEF LinkedTo
<1>11. CASE A # {} /\ i = Min(A)
  <2>1. BySubject(t, x) = A
    <3>1. i \in A /\ x.subject # NoSubject
      BY <1>5, <1>11 DEF BySubject
    <3>2. i \in BySubject(t, x)
      BY <1>9, <3>1
    <3> QED BY <1>10, <3>1, <3>2 DEF BySubject
  <2>2. MatchOf(t, x) = i
    BY <1>11, <2>1, MatchIs
  <2> QED BY <1>1, <1>7, <2>2 DEF FoundFor, i, t
<1>12. CASE A = {} /\ B # {} /\ i = Min(B)
  <2>1. CASE x.subject # NoSubject
    <3>1. BySubject(t, x) = {i}
      BY <1>9, <1>12, <2>1
    <3>2. Min({i}) = i
      BY <1>1, <1>7, MinLeast
    <3>3. MatchOf(t, x) = i
      BY <3>1, <3>2, MatchIs
    <3> QED BY <1>1, <1>7, <3>3 DEF FoundFor, i, t
  <2>2. CASE x.subject = NoSubject
    <3>1. BySubject(t, x) = {}
      BY <2>2 DEF BySubject
    <3>2. BySourceName(t, x) = B
      <4>1. i \in B
        BY <1>5, <1>12
      <4>2. a[i].name = Plain(x.name) /\ a[i].source = x.source /\ t[i].source = x.source
        BY <1>8, <4>1 DEF BySourceName, Named, LinkedTo
      <4>3. i \in BySourceName(t, x)
        BY <1>8, <1>10, <4>2 DEF BySourceName, Named
      <4> QED BY <1>10, <4>1, <4>3 DEF BySourceName, Named
    <3>3. MatchOf(t, x) = i
      BY <1>12, <3>1, <3>2, MatchIs
    <3> QED BY <1>1, <1>7, <3>3 DEF FoundFor, i, t
  <2> QED BY <2>1, <2>2
<1>13. CASE A = {} /\ B = {} /\ C # {} /\ i = Min(C)
  <2>1. x.email # NoEmail /\ i \in C
    BY <1>5, <1>13 DEF ByUniqueEmail
  <2>2. {j \in Users(t) : t[j].email = x.email} = {j \in Users(a) : a[j].email = x.email}
    <3>1. a[i].email = x.email
      BY <2>1 DEF ByUniqueEmail
    <3>2. t[i].email = x.email
      BY <1>8, <3>1 DEF LinkedTo
    <3> QED BY <1>7, <1>10, <3>1, <3>2
  <2>3. ByUniqueEmail(t, x) = C
    BY <2>2 DEF ByUniqueEmail
  <2>4. C = {i}
    <3> DEFINE same == {j \in Users(a) : a[j].email = x.email}
    <3>1. C = same /\ Cardinality(same) = 1
      BY <2>1 DEF ByUniqueEmail
    <3>2. IsFiniteSet(same)
      BY UsersFinite
    <3> HIDE DEF same
    <3>3. \E y : same = {y}
      BY <3>1, <3>2, FS_Singleton
    <3> QED BY <2>1, <3>1, <3>3
  <2>5. BySubject(t, x) \subseteq {i} /\ BySourceName(t, x) \subseteq {i}
    BY <1>9, <1>13
  <2> HIDE DEF A, B, C, D
  <2>6. x.create
    BY DEF Settling
  <2>7. FoundFor(t, x) = i
    BY <1>8, <1>10, <2>3, <2>4, <2>5, <2>6, FoundIs
  <2> QED BY <1>7, <2>7 DEF i, t
<1>14. CASE A = {} /\ B = {} /\ C = {} /\ D # {} /\ i = Min(D)
  <2>1. i \in D
    BY <1>5, <1>14
  <2>2. BySubject(t, x) \subseteq {i} /\ BySourceName(t, x) \subseteq {i}
    BY <1>9, <1>14
  <2>3. CASE x.strategy = "takeover"
    <3>1. a[i].name = Plain(x.name) /\ t[i].source = x.source
      BY <1>8, <2>1, <2>3, CollisionIs DEF Settling, Named, LinkedTo
    <3>2. i \in BySourceName(t, x)
      BY <1>8, <1>10, <3>1 DEF BySourceName, Named
    <3> HIDE DEF A, B, C, D
    <3>3. FoundFor(t, x) = i
      BY <1>8, <1>10, <2>2, <3>2, FoundIs DEF Settling
    <3> QED BY <1>7, <3>3 DEF i, t
  <2>4. CASE x.strategy = "alias"
    <3>1. Named(a, Plain(x.name)) # {} /\ D = Aliases(a, x)
      BY <2>1, <2>4, CollisionIs DEF Settling
    <3>2. ByUniqueEmail(t, x) \subseteq {i}
      BY <1>9, <2>4 DEF Settling
    <3>3. a[i].name.alias /\ a[i].name # Plain(x.name)
      BY <2>1, <3>1 DEF Aliases, Plain
    <3>4. Named(t, Plain(x.name)) # {}
      <4>1. PICK j \in Named(a, Plain(x.name)) : TRUE
        BY <3>1
      <4>2. j # i
        BY <3>3, <4>1 DEF Named
      <4> QED BY <1>10, <4>1, <4>2 DEF Named
    <3>5. Aliases(t, x) = Aliases(a, x)
      <4>1. t[i].source = x.source /\ i \in Aliases(a, x)
        BY <1>8, <2>1, <3>1 DEF LinkedTo
      <4>2. i \in Aliases(t, x)
        BY <1>8, <1>10, <4>1 DEF Aliases
      <4> QED BY <1>10, <4>1, <4>2 DEF Aliases
    <3>6. ByCollision(t, x) = D
      BY <2>4, <3>1, <3>4, <3>5, CollisionIs DEF Settling
    <3> HIDE DEF A, B, C, D
    <3>7. FoundFor(t, x) = i
      BY <1>8, <1>10, <1>14, <2>2, <3>2, <3>6, FoundIs DEF Settling
    <3> QED BY <1>7, <3>7 DEF i, t
  <2> QED BY <2>1, <2>3, <2>4, CollisionIs DEF Settling
<1> HIDE DEF A, B, C, D
<1> QED BY <1>6, <1>11, <1>12, <1>13, <1>14

\* The free name is the wanted one or one made from it, never nobody's.
LEMMA FreeNameIs ==
  ASSUME NEW a, NEW x, x.name # NoName
  PROVE  /\ FreeName(a, x) # NobodysName
         /\ Named(a, Plain(x.name)) = {} => FreeName(a, x) = Plain(x.name)
         /\ Named(a, Plain(x.name)) # {} /\ x.strategy = "alias" =>
              /\ FreeName(a, x).base = x.name /\ FreeName(a, x).alias
              /\ FreeName(a, x) # Plain(x.name)
<1>1. Plain(x.name) # NobodysName
  BY DEF Plain, NobodysName
<1>2. CASE Named(a, Plain(x.name)) = {}
  BY <1>1, <1>2 DEF FreeName
<1>3. CASE Named(a, Plain(x.name)) # {}
  <2> DEFINE name(k) == [base |-> x.name, alias |-> x.strategy = "alias", suffix |-> k]
             m == Min({k \in 0..Len(a) : Named(a, name(k)) = {}})
  <2>1. FreeName(a, x) = name(m)
    BY <1>3 DEF FreeName
  <2> HIDE DEF m
  <2>2. name(m).base = x.name /\ name(m).alias = (x.strategy = "alias")
    OBVIOUS
  <2>3. NobodysName.base = NoName /\ Plain(x.name).alias = FALSE
    BY DEF NobodysName, Plain
  <2> HIDE DEF name
  <2> QED BY <1>3, <2>1, <2>2, <2>3
<1> QED BY <1>2, <1>3

\* An account made for an identity is found to be its own.
LEMMA AddedFound ==
  ASSUME NEW a, Table(a), NEW x, Settling(x), FoundFor(a, x) = 0
  PROVE  LET r == NewAccount(FreeName(a, x), x.source, x.role, FALSE, x.email, x.subject)
             i == Len(a) + 1
         IN  /\ FoundFor(Append(a, r), x) = i /\ i # 0
             /\ Linked(Append(a, r), i, x) = Append(a, r)
<1> DEFINE r == NewAccount(FreeName(a, x), x.source, x.role, FALSE, x.email, x.subject)
           i == Len(a) + 1
           t == Append(a, r)
<1>1. /\ r.name = FreeName(a, x) /\ r.source = x.source /\ r.role = x.role
      /\ r.email = x.email /\ r.subject = x.subject /\ Row(r)
  BY DEF NewAccount, Row
<1>2. LinkedRow(r, x) = r
  <2>1. Row(LinkedRow(r, x))
    BY <1>1 DEF LinkedRow, Row
  <2>2. /\ LinkedRow(r, x).name = r.name /\ LinkedRow(r, x).source = r.source
        /\ LinkedRow(r, x).role = r.role /\ LinkedRow(r, x).password = r.password
        /\ LinkedRow(r, x).email = r.email /\ LinkedRow(r, x).subject = r.subject
        /\ LinkedRow(r, x).saml = r.saml /\ LinkedRow(r, x).revokes = r.revokes
    BY <1>1 DEF LinkedRow, Row
  <2> HIDE DEF r
  <2> QED BY <1>1, <2>1, <2>2 DEF Row
<1> HIDE DEF r
<1>3. /\ Table(t) /\ DOMAIN t = 1..i /\ t[i] = r /\ \A j \in 1..Len(a) : t[j] = a[j]
      /\ Len(a) \in Nat /\ DOMAIN a = 1..Len(a)
  BY <1>1, AddedKeeps, TableRows
<1>4. i # 0 /\ i \in Nat /\ i \in DOMAIN t /\ i \notin DOMAIN a
      /\ \A j \in DOMAIN t : j # i => j \in 1..Len(a)
  BY <1>3
<1> HIDE DEF t, i
<1>5. Linked(t, i, x) = t
  <2>1. Linked(t, i, x) = [j \in DOMAIN t |-> IF j = i THEN LinkedRow(t[j], x) ELSE t[j]]
    <3>1. Table(t)
      BY <1>3
    <3> QED BY <3>1, LinkedIs
  <2>2. t = [j \in DOMAIN t |-> t[j]]
    BY <1>3, TableRows
  <2> QED BY <1>2, <1>3, <2>1, <2>2
<1>6. r.name # NobodysName
  BY <1>1, FreeNameIs DEF Settling
<1>7. LinkedTo(a, t, i, x) /\ i \in Users(t)
  BY <1>1, <1>3, <1>4, <1>6 DEF LinkedTo, Users
<1> DEFINE A == BySubject(a, x)
           B == BySourceName(a, x)
           C == ByUniqueEmail(a, x)
           D == ByCollision(a, x)
<1>8. /\ Users(a) \subseteq Nat \ {0} /\ A \subseteq Users(a) /\ B \subseteq Users(a)
      /\ C \subseteq Users(a) /\ Named(a, Plain(x.name)) \subseteq Users(a)
  BY FindsUsers
<1>9. A = {} /\ B = {} /\ C = {} /\ D = {}
  <2>1. D \subseteq Users(a)
    BY <1>8, CollisionIs DEF Settling, Aliases
  <2>2. /\ A # {} => MatchOf(a, x) = Min(A)
        /\ A = {} /\ B # {} => MatchOf(a, x) = Min(B)
        /\ A = {} /\ B = {} /\ C # {} => MatchOf(a, x) = Min(C)
        /\ FirstFound(<<D>>) = IF D = {} THEN 0 ELSE Min(D)
    BY MatchIs, FirstOfOne
  <2>3. A \subseteq Nat /\ B \subseteq Nat /\ C \subseteq Nat /\ D \subseteq Nat
    BY <1>8, <2>1
  <2>4. MatchOf(a, x) = 0 /\ FirstFound(<<D>>) = 0
    BY DEF FoundFor, Settling
  <2> HIDE DEF A, B, C, D
  <2>5. /\ A # {} => Min(A) \in A
        /\ B # {} => Min(B) \in B
        /\ C # {} => Min(C) \in C
        /\ D # {} => Min(D) \in D
    BY <2>3, MinLeast
  <2> QED BY <1>8, <2>1, <2>2, <2>4, <2>5
<1>10. /\ BySubject(t, x) \subseteq {i} /\ BySourceName(t, x) \subseteq {i}
       /\ x.subject # NoSubject => i \in BySubject(t, x)
       /\ x.source # "proxy" => ByUniqueEmail(t, x) \subseteq {i}
       /\ x.email = NoEmail => ByUniqueEmail(t, x) = {}
  BY <1>3, <1>7, <1>9, FindsOnly
<1> HIDE DEF A, B, C, D
<1>11. Table(t) /\ i \in Users(t) /\ x.create
  BY <1>3, <1>7 DEF Settling
<1>12. ASSUME x.subject # NoSubject PROVE FoundFor(t, x) = i
  BY <1>10, <1>12, <1>11, FoundIs
<1>13. ASSUME Named(a, Plain(x.name)) = {} PROVE FoundFor(t, x) = i
  <2>1. i \in BySourceName(t, x)
    BY <1>1, <1>3, <1>7, <1>13, FreeNameIs DEF BySourceName, Named, Settling
  <2> QED BY <1>10, <1>11, <2>1, FoundIs
<1>14. ASSUME x.subject = NoSubject, Named(a, Plain(x.name)) # {} PROVE FoundFor(t, x) = i
  <2>1. x.strategy = "alias" /\ x.source # "proxy"
    BY <1>9, <1>14, CollisionIs DEF Settling, D
  <2>2. Named(t, Plain(x.name)) # {}
    <3>1. PICK j \in Named(a, Plain(x.name)) : TRUE
      BY <1>14
    <3>2. j \in DOMAIN a
      BY <3>1 DEF Named, Users
    <3>3. j \in Users(t) /\ t[j] = a[j]
      BY <1>3, <1>4, <1>7, <3>1, <3>2 DEF Named, LinkedTo
    <3> QED BY <3>1, <3>3 DEF Named
  <2>3. Aliases(t, x) = {i}
    <3>1. Aliases(a, x) = {}
      BY <1>9, <1>14, <2>1, CollisionIs DEF Settling, D
    <3>2. i \in Aliases(t, x)
      <4>1. /\ FreeName(a, x).base = x.name /\ FreeName(a, x).alias
        BY <1>14, <2>1, FreeNameIs DEF Settling
      <4>2. t[i].name.base = x.name /\ t[i].name.alias /\ t[i].source = x.source
        BY <1>1, <1>3, <4>1
      <4> QED BY <1>7, <4>2 DEF Aliases
    <3>3. \A j \in Users(t) \ {i} : j \in Users(a) /\ t[j] = a[j]
      BY <1>7 DEF LinkedTo
    <3> QED BY <3>1, <3>2, <3>3 DEF Aliases
  <2>4. ByCollision(t, x) = {i} /\ Min({i}) = i
    <3>1. ByCollision(t, x) = {i}
      BY <2>1, <2>2, <2>3, CollisionIs DEF Settling
    <3> QED BY <1>4, <3>1, MinLeast
  <2> QED BY <1>10, <1>11, <2>1, <2>4, FoundIs
<1>15. FoundFor(t, x) = i
  BY <1>12, <1>13, <1>14
<1> QED BY <1>4, <1>5, <1>15 DEF t, i, r

\* What linking an identity did, linking it once more leaves as it is.
LEMMA LinkingSettled ==
  ASSUME NEW a, Table(a), NEW x, Settling(x)
  PROVE  Upsert(Upsert(a, x).table, x) = Upsert(a, x)
<1>1. CASE FoundFor(a, x) # 0
  <2> DEFINE i == FoundFor(a, x)
             t == Linked(a, i, x)
  <2>1. i \in Users(a) /\ FoundFor(t, x) = i
    BY <1>1, FoundAgain
  <2>2. Linked(t, i, x) = t
    BY <2>1, LinkedLinks
  <2>3. Upsert(a, x) = [table |-> t, id |-> i]
    BY <1>1 DEF Upsert
  <2> HIDE DEF t, i
  <2>4. Upsert(t, x) = [table |-> t, id |-> i]
    BY <1>1, <2>1, <2>2 DEF Upsert, i
  <2> QED BY <2>3, <2>4
<1>2. CASE FoundFor(a, x) = 0
  <2> DEFINE r == NewAccount(FreeName(a, x), x.source, x.role, FALSE, x.email, x.subject)
             i == Len(a) + 1
             t == Append(a, r)
  <2>1. FoundFor(t, x) = i /\ i # 0 /\ Linked(t, i, x) = t
    BY <1>2, AddedFound
  <2>2. Upsert(a, x) = [table |-> t, id |-> i]
    BY <1>2 DEF Upsert, Settling
  <2> HIDE DEF t, i, r
  <2>3. Upsert(t, x) = [table |-> t, id |-> i]
    BY <2>1 DEF Upsert
  <2> QED BY <2>2, <2>3
<1> QED BY <1>1, <1>2

\* Whatever accounts there are, an identity that comes a second time finds the account of
\* the first and changes nothing.
THEOREM AccountLinkingSettles == AccountSpec => []LinkingSettles
<1>1. AccountInv => LinkingSettles
  <2> SUFFICES ASSUME AccountInv, NEW p \in Identity,
                      NEW x \in {CwaIdentity(p, TRUE), OidcIdentity(p, FALSE, TRUE),
                                 ProxyIdentity(p.name, TRUE)}
               PROVE  Upsert(Upsert(accounts, x).table, x) = Upsert(accounts, x)
    BY DEF LinkingSettles
  <2>1. p.name # NoName /\ p.subject # NoSubject
    BY AccountsAssumption
  <2>2. ASSUME x = CwaIdentity(p, TRUE) PROVE Settling(x)
    BY <2>1, <2>2 DEF Settling, CwaIdentity
  <2>3. ASSUME x = OidcIdentity(p, FALSE, TRUE) PROVE Settling(x)
    BY <2>1, <2>3 DEF Settling, OidcIdentity
  <2>4. ASSUME x = ProxyIdentity(p.name, TRUE) PROVE Settling(x)
    BY <2>1, <2>4 DEF Settling, ProxyIdentity
  <2>5. Settling(x)
    BY <2>2, <2>3, <2>4
  <2>6. Table(accounts)
    BY DEF AccountInv
  <2> QED BY <2>5, <2>6, LinkingSettled
<1> QED BY <1>1, AccountInvariant, PTL

-----------------------------------------------------------------------------
(***************************************************************************)
(* Names stay distinct.  A new account has a name that no account has; the *)
(* suffixes up to the number of rows give one name more than there are     *)
(* rows, so one of them is free.  Linking changes no name, and deletion    *)
(* frees one.                                                              *)
(***************************************************************************)
Sources == {"builtin", "oidc", "cwa", "proxy", "saml"}
DistinctNames(a) == \A i, j \in Users(a) : a[i].name = a[j].name => i = j
SoundRow(r) == r.source \in Sources /\ r.revokes \subseteq Client
SoundTable(a) == Table(a) /\ DistinctNames(a) /\ \A i \in DOMAIN a : SoundRow(a[i])

\* A name that is made free is free.
LEMMA FreeNameIsFree ==
  ASSUME NEW a, Table(a), NEW x
  PROVE  Named(a, FreeName(a, x)) = {}
<1>1. CASE Named(a, Plain(x.name)) = {}
  BY <1>1 DEF FreeName
<1>2. CASE Named(a, Plain(x.name)) # {}
  <2> DEFINE name(k) == [base |-> x.name, alias |-> x.strategy = "alias", suffix |-> k]
             n == Len(a)
             F == {k \in 0..n : Named(a, name(k)) = {}}
  <2>1. n \in Nat /\ DOMAIN a = 1..n
    BY TableRows
  <2>2. \A k, m \in 0..n : name(k) = name(m) => k = m
    <3>1. \A k \in 0..n : name(k).suffix = k
      OBVIOUS
    <3> HIDE DEF name
    <3> QED BY <3>1
  <2>3. FreeName(a, x) = name(Min(F))
    BY <1>2 DEF FreeName
  <2> HIDE DEF name, n
  <2>4. F # {}
    <3> SUFFICES ASSUME \A k \in 0..n : Named(a, name(k)) # {} PROVE FALSE
      OBVIOUS
    <3> DEFINE who == [k \in 0..n |-> CHOOSE i \in Named(a, name(k)) : TRUE]
    <3>1. \A k \in 0..n : who[k] \in Named(a, name(k))
      OBVIOUS
    <3>2. \A k \in 0..n : who[k] \in 1..n /\ a[who[k]].name = name(k)
      BY <2>1, <3>1 DEF Named, Users
    <3>3. who \in [0..n -> 1..n]
      BY <3>2
    <3> HIDE DEF who
    <3>4. /\ IsFiniteSet(0..n) /\ Cardinality(0..n) = n + 1
          /\ IsFiniteSet(1..n) /\ Cardinality(1..n) = n
      BY <2>1, FS_Interval
    <3>5. Cardinality(1..n) < Cardinality(0..n)
      BY <2>1, <3>4
    <3>6. PICK k, m \in 0..n : k # m /\ who[k] = who[m]
      BY <3>3, <3>4, <3>5, FS_PigeonHole
    <3> QED BY <2>2, <3>2, <3>6
  <2>5. F \subseteq Nat
    BY <2>1
  <2>6. Min(F) \in F
    <3> HIDE DEF F
    <3> QED BY <2>4, <2>5, MinLeast
  <2> QED BY <2>3, <2>6
<1> QED BY <1>1, <1>2

\* Whatever is found for an identity is an account.
LEMMA FoundIsUser ==
  ASSUME NEW a, Table(a), NEW x, x.strategy \in {"takeover", "alias", "suffix"}
  PROVE  FoundFor(a, x) = 0 \/ FoundFor(a, x) \in Users(a)
<1> DEFINE A == BySubject(a, x)
           B == BySourceName(a, x)
           C == ByUniqueEmail(a, x)
           D == ByCollision(a, x)
<1>1. /\ Users(a) \subseteq Nat \ {0} /\ A \subseteq Users(a) /\ B \subseteq Users(a)
      /\ C \subseteq Users(a) /\ Named(a, Plain(x.name)) \subseteq Users(a)
  BY FindsUsers
<1>2. D \subseteq Users(a)
  BY <1>1, CollisionIs DEF Aliases
<1>3. /\ A # {} => MatchOf(a, x) = Min(A)
      /\ A = {} /\ B # {} => MatchOf(a, x) = Min(B)
      /\ A = {} /\ B = {} /\ C # {} => MatchOf(a, x) = Min(C)
      /\ A = {} /\ B = {} /\ C = {} => MatchOf(a, x) = 0
      /\ FirstFound(<<D>>) = IF D = {} THEN 0 ELSE Min(D)
  BY MatchIs, FirstOfOne
<1>4. FoundFor(a, x) \in {0, MatchOf(a, x), FirstFound(<<D>>)}
  BY DEF FoundFor
<1> HIDE DEF A, B, C, D
<1>5. /\ A # {} => Min(A) \in A
      /\ B # {} => Min(B) \in B
      /\ C # {} => Min(C) \in C
      /\ D # {} => Min(D) \in D
  BY <1>1, <1>2, MinLeast
<1> QED BY <1>1, <1>2, <1>3, <1>4, <1>5

\* A row that is replaced by a sound one of the same name.
LEMMA ReplacedSound ==
  ASSUME NEW a, SoundTable(a), NEW t, Table(t), DOMAIN t = DOMAIN a,
         \A i \in DOMAIN a : SoundRow(t[i]) /\ (t[i].name = a[i].name \/ t[i].name = NobodysName)
  PROVE  SoundTable(t)
<1>1. \A i \in Users(t) : i \in Users(a) /\ t[i].name = a[i].name
  BY DEF Users
<1>2. DistinctNames(t)
  BY <1>1 DEF DistinctNames, SoundTable
<1> QED BY <1>2 DEF SoundTable

\* An account more, under a free name.
LEMMA AddedSound ==
  ASSUME NEW a, SoundTable(a), NEW r, Row(r), SoundRow(r), Named(a, r.name) = {}
  PROVE  SoundTable(Append(a, r)) /\ Len(Append(a, r)) = Len(a) + 1
<1> DEFINE t == Append(a, r)
<1>1. /\ Table(t) /\ Len(t) = Len(a) + 1 /\ DOMAIN t = 1..(Len(a) + 1)
      /\ \A i \in 1..Len(a) : t[i] = a[i]
      /\ t[Len(a) + 1] = r
  BY AddedKeeps DEF SoundTable
<1>2. Len(a) \in Nat /\ DOMAIN a = 1..Len(a)
  BY TableRows DEF SoundTable
<1> HIDE DEF t
<1>3. \A i \in DOMAIN t : \/ i \in DOMAIN a /\ t[i] = a[i]
                          \/ i = Len(a) + 1 /\ t[i] = r
  BY <1>1, <1>2
<1>4. \A i \in DOMAIN t : SoundRow(t[i])
  BY <1>3 DEF SoundTable
<1>5. \A i \in Users(a) : a[i].name # r.name
  BY DEF Named
<1>6. DistinctNames(t)
  BY <1>3, <1>5 DEF DistinctNames, SoundTable, Users
<1> QED BY <1>1, <1>4, <1>6 DEF SoundTable, t

\* A linked row is sound.
LEMMA LinkedSound ==
  ASSUME NEW a, SoundTable(a), NEW i, NEW x, x.source \in Sources
  PROVE  SoundTable(Linked(a, i, x)) /\ Len(Linked(a, i, x)) = Len(a)
<1> DEFINE t == Linked(a, i, x)
<1>1. Table(a)
  BY DEF SoundTable
<1>2. t = [j \in DOMAIN a |-> IF j = i THEN LinkedRow(a[j], x) ELSE a[j]]
  BY <1>1, LinkedIs
<1>3. i \in DOMAIN a => /\ LinkedRow(a[i], x).source = x.source
                        /\ LinkedRow(a[i], x).name = a[i].name
                        /\ LinkedRow(a[i], x).revokes = a[i].revokes
  BY <1>1, TableRows DEF LinkedRow, Row
<1>4. Table(t) /\ Len(t) = Len(a)
  BY <1>1, LinkedKeeps
<1> HIDE DEF t
<1>5. \A j \in DOMAIN a : SoundRow(t[j]) /\ t[j].name = a[j].name
  BY <1>2, <1>3 DEF SoundTable, SoundRow
<1>6. DOMAIN t = DOMAIN a
  BY <1>2
<1> QED BY <1>4, <1>5, <1>6, ReplacedSound DEF t

\* Linking keeps a table sound and answers an account of it, or none.
LEMMA UpsertSound ==
  ASSUME NEW a, SoundTable(a), NEW x, x.source \in Sources,
         x.strategy \in {"takeover", "alias", "suffix"}
  PROVE  /\ SoundTable(Upsert(a, x).table) /\ Len(a) <= Len(Upsert(a, x).table)
         /\ Upsert(a, x).id \in 0..Len(Upsert(a, x).table)
<1>1. Table(a) /\ Len(a) \in Nat /\ DOMAIN a = 1..Len(a)
  BY TableRows DEF SoundTable
<1>2. CASE FoundFor(a, x) # 0
  <2>1. FoundFor(a, x) \in 0..Len(a)
    BY <1>1, <1>2, FoundIsUser DEF Users
  <2> QED BY <1>1, <1>2, <2>1, LinkedSound DEF Upsert
<1>3. CASE FoundFor(a, x) = 0 /\ ~x.create
  BY <1>1, <1>3 DEF Upsert
<1>4. CASE FoundFor(a, x) = 0 /\ x.create
  <2> DEFINE r == NewAccount(FreeName(a, x), x.source, x.role, FALSE, x.email, x.subject)
  <2>1. Row(r) /\ SoundRow(r) /\ r.name = FreeName(a, x)
    BY DEF Row, NewAccount, SoundRow
  <2>2. Upsert(a, x) = [table |-> Append(a, r), id |-> Len(a) + 1]
    BY <1>4 DEF Upsert
  <2> HIDE DEF r
  <2>3. Named(a, r.name) = {}
    BY <1>1, <2>1, FreeNameIsFree
  <2>4. SoundTable(Append(a, r)) /\ Len(Append(a, r)) = Len(a) + 1
    BY <2>1, <2>3, AddedSound
  <2> QED BY <1>1, <2>2, <2>4
<1> QED BY <1>2, <1>3, <1>4

\* The sources' identities.
LEMMA IdentitySources ==
  ASSUME NEW p, NEW q
  PROVE  /\ CwaIdentity(p, q).source \in Sources /\ CwaIdentity(p, q).strategy \in {"takeover", "alias", "suffix"}
         /\ ProxyIdentity(p, q).source \in Sources
         /\ ProxyIdentity(p, q).strategy \in {"takeover", "alias", "suffix"}
         /\ \A create : /\ OidcIdentity(p, q, create).source \in Sources
                        /\ OidcIdentity(p, q, create).strategy \in {"takeover", "alias", "suffix"}
BY DEF CwaIdentity, ProxyIdentity, OidcIdentity, Sources

\* The synchronisation by its steps.
LEMMA SyncIs ==
  ASSUME NEW a, NEW rows, Len(rows) \in Nat
  PROVE  \E after :
           /\ \A k \in 0..Len(rows) : after[k] = SyncStep(a, rows, after, k)
           /\ Synced(a, rows) = [i \in DOMAIN after[Len(rows)].table |->
                IF i \in Users(after[Len(rows)].table) \ after[Len(rows)].met
                   /\ after[Len(rows)].table[i].source = "cwa"
                THEN Deleted ELSE after[Len(rows)].table[i]]
<1> DEFINE n == Len(rows)
           after == CHOOSE f : f = [k \in 0..n |-> SyncStep(a, rows, f, k)]
           t == after[n].table
<1>1. after = [k \in 0..n |-> SyncStep(a, rows, after, k)]
  <2>1. \E f : f = [k \in 0..n |-> SyncStep(a, rows, f, k)]
    BY SyncSolved
  <2> HIDE DEF n
  <2> QED BY <2>1
<1>2. Synced(a, rows) = [i \in DOMAIN t |->
        IF i \in Users(t) \ after[n].met /\ t[i].source = "cwa" THEN Deleted ELSE t[i]]
  BY DEF Synced, SyncStep
<1> HIDE DEF after
<1>3. \A k \in 0..n : after[k] = SyncStep(a, rows, after, k)
  BY <1>1
<1> QED BY <1>2, <1>3

\* A synchronised table is sound and has no fewer rows.
LEMMA SyncSound ==
  ASSUME NEW a, SoundTable(a), NEW rows, Len(rows) \in Nat
  PROVE  SoundTable(Synced(a, rows)) /\ Len(a) <= Len(Synced(a, rows))
<1> DEFINE n == Len(rows)
<1>1. PICK after :
        /\ \A k \in 0..n : after[k] = SyncStep(a, rows, after, k)
        /\ Synced(a, rows) = [i \in DOMAIN after[n].table |->
             IF i \in Users(after[n].table) \ after[n].met /\ after[n].table[i].source = "cwa"
             THEN Deleted ELSE after[n].table[i]]
  BY SyncIs
<1> DEFINE t == after[n].table
           done == Synced(a, rows)
<1> HIDE DEF n
<1>2. n \in Nat /\ Len(a) \in Nat
  BY TableRows DEF SoundTable, n
<1>3. \A k \in 0..n : SoundTable(after[k].table) /\ Len(a) <= Len(after[k].table)
  <2> DEFINE B == {k \in 0..n : ~(SoundTable(after[k].table) /\ Len(a) <= Len(after[k].table))}
  <2>1. SUFFICES ASSUME B # {} PROVE FALSE
    OBVIOUS
  <2>2. B \subseteq Nat
    BY <1>2
  <2>3. PICK m \in B : \A k \in B : m <= k
    BY <2>1, <2>2, LeastOf
  <2>4. m \in 0..n /\ ~(SoundTable(after[m].table) /\ Len(a) <= Len(after[m].table))
    BY <2>3
  <2>5. CASE m = 0
    <3>1. SyncStep(a, rows, after, 0).table = a
      BY DEF SyncStep
    <3> QED BY <1>1, <1>2, <2>4, <2>5, <3>1
  <2>6. CASE m # 0
    <3>1. m - 1 \in 0..n /\ m - 1 \notin B
      BY <1>2, <2>2, <2>3, <2>4, <2>6
    <3> DEFINE p == after[m - 1].table
               x == CwaIdentity(rows[m], rows[m].admin)
    <3>2. SoundTable(p) /\ Len(a) <= Len(p)
      BY <3>1
    <3>3. SyncStep(a, rows, after, m).table = Upsert(p, x).table
      BY <2>6 DEF SyncStep
    <3>4. x.source \in Sources /\ x.strategy \in {"takeover", "alias", "suffix"}
      BY IdentitySources
    <3> HIDE DEF p, x
    <3>5. SoundTable(Upsert(p, x).table) /\ Len(p) <= Len(Upsert(p, x).table)
      BY <3>2, <3>4, UpsertSound
    <3>6. Len(p) \in Nat /\ Len(Upsert(p, x).table) \in Nat
      BY <3>2, <3>5, TableRows DEF SoundTable
    <3> QED BY <1>1, <1>2, <2>4, <3>2, <3>3, <3>5, <3>6
  <2> QED BY <2>5, <2>6
<1>4. SoundTable(t) /\ Len(a) <= Len(t)
  BY <1>2, <1>3
<1>5. done = [i \in DOMAIN t |-> IF i \in Users(t) \ after[n].met /\ t[i].source = "cwa"
                                 THEN Deleted ELSE t[i]]
  BY <1>1
<1> HIDE DEF t, done
<1>6. Len(t) \in Nat /\ DOMAIN t = 1..Len(t) /\ \A i \in DOMAIN t : Row(t[i]) /\ SoundRow(t[i])
  BY <1>4, TableRows DEF SoundTable
<1>7. Row(Deleted) /\ SoundRow(Deleted) /\ Deleted.name = NobodysName
  BY DEF Row, SoundRow, Deleted, Sources
<1>8. /\ done = [i \in 1..Len(t) |-> done[i]] /\ DOMAIN done = DOMAIN t
      /\ \A i \in 1..Len(t) : done[i] \in {Deleted, t[i]}
  BY <1>5, <1>6
<1>9. /\ \A i \in 1..Len(t) : Row(done[i])
      /\ \A i \in DOMAIN t : SoundRow(done[i]) /\ (done[i].name = t[i].name \/ done[i].name = NobodysName)
  BY <1>6, <1>7, <1>8
<1>10. Table(done) /\ Len(done) = Len(t)
  BY <1>6, <1>8, <1>9, RowsTable
<1>11. SoundTable(done)
  BY <1>4, <1>8, <1>9, <1>10, ReplacedSound
<1> QED BY <1>4, <1>10, <1>11 DEF done

\* Attempts are counted up to the limit, and locked then.
Attempts ==
  /\ attempts \in [LoginName -> [count : 0..AttemptLimit, lock : {"no", "yes", "expired"}]]
  /\ \A n \in LoginName : attempts[n].lock # "no" <=> attempts[n].count = AttemptLimit
AccountTypes ==
  /\ SoundTable(accounts) /\ Len(accounts) <= AccountLimit /\ Attempts
  /\ \A c \in Client : session[c].id \in 0..Len(accounts)

\* What a login does to the attempts of its name, and to locks that have expired.
LEMMA AttemptsKept ==
  ASSUME Attempts, NEW n \in LoginName,
         \/ UNCHANGED attempts \/ attempts' = Swept \/ attempts' = [Swept EXCEPT ![n] = NoAttempts]
         \/ LockExpires(n) \/ LoginFails(n)
  PROVE  Attempts'
<1> DEFINE Entry == [count : 0..AttemptLimit, lock : {"no", "yes", "expired"}]
           Fits(e) == e \in Entry /\ (e.lock # "no" <=> e.count = AttemptLimit)
<1>1. AttemptLimit \in Nat \ {0}
  BY AccountsAssumption
<1>2. attempts \in [LoginName -> Entry] /\ \A m \in LoginName : Fits(attempts[m])
  BY DEF Attempts
<1>3. Fits(NoAttempts)
  BY <1>1 DEF NoAttempts
<1>4. Swept = [m \in LoginName |-> Swept[m]] /\ \A m \in LoginName : Swept[m] \in {NoAttempts, attempts[m]}
  BY DEF Swept
<1>5. \A m \in LoginName : Fits(Swept[m])
  BY <1>2, <1>3, <1>4
<1>6. ASSUME NEW f, f = [m \in LoginName |-> f[m]], \A m \in LoginName : Fits(f[m]), attempts' = f
      PROVE  Attempts'
  BY <1>6 DEF Attempts
<1>7. ASSUME NEW e, Fits(e), attempts' = [Swept EXCEPT ![n] = e] PROVE Attempts'
  <2> DEFINE f == [Swept EXCEPT ![n] = e]
  <2>1. f = [m \in LoginName |-> f[m]] /\ \A m \in LoginName : f[m] = IF m = n THEN e ELSE Swept[m]
    BY <1>4
  <2> HIDE DEF f, Fits
  <2>2. \A m \in LoginName : Fits(f[m])
    BY <1>5, <1>7, <2>1
  <2> QED BY <1>6, <1>7, <2>1, <2>2 DEF f
<1>8. CASE UNCHANGED attempts
  BY <1>8 DEF Attempts
<1>9. CASE attempts' = Swept
  <2> HIDE DEF Fits
  <2> QED BY <1>4, <1>5, <1>6, <1>9
<1>10. CASE attempts' = [Swept EXCEPT ![n] = NoAttempts]
  <2> HIDE DEF Fits
  <2> QED BY <1>3, <1>7, <1>10
<1>11. CASE LockExpires(n)
  <2> DEFINE f == [attempts EXCEPT ![n].lock = "expired"]
             e == [attempts[n] EXCEPT !.lock = "expired"]
  <2>1. attempts' = f /\ attempts[n].lock = "yes"
    BY <1>11 DEF LockExpires
  <2>2. Fits(e)
    BY <1>2, <2>1
  <2>3. f = [m \in LoginName |-> f[m]] /\ \A m \in LoginName : f[m] = IF m = n THEN e ELSE attempts[m]
    BY <1>2
  <2> HIDE DEF f, e, Fits
  <2>4. \A m \in LoginName : Fits(f[m])
    BY <1>2, <2>2, <2>3
  <2> QED BY <1>6, <2>1, <2>3, <2>4
<1>12. CASE LoginFails(n)
  <2> DEFINE e == [count |-> Swept[n].count + 1,
                   lock |-> IF Swept[n].count + 1 >= AttemptLimit THEN "yes" ELSE "no"]
  <2>1. attempts' = [Swept EXCEPT ![n] = e] /\ Swept[n].lock = "no"
    BY <1>4, <1>12 DEF LoginFails, Unlocked
  <2>2. Swept[n].count \in 0..AttemptLimit /\ Swept[n].count # AttemptLimit
    BY <1>5, <2>1
  <2>3. Fits(e)
    BY <1>1, <2>2
  <2> HIDE DEF e, Fits
  <2> QED BY <1>7, <2>1, <2>3
<1> QED BY <1>8, <1>9, <1>10, <1>11, <1>12

\* A step that changes one session at most, and leaves no fewer rows.
LEMMA TypesKept ==
  ASSUME AccountInv, AccountTypes, Attempts',
         SoundTable(accounts'), Len(accounts) <= Len(accounts'), Len(accounts') <= AccountLimit,
         \/ UNCHANGED session
         \/ \E c \in Client : \E s : s.id \in 0..Len(accounts') /\ session' = [session EXCEPT ![c] = s]
  PROVE  AccountTypes'
<1>1. Len(accounts) \in Nat /\ Len(accounts') \in Nat
  BY TableRows DEF AccountTypes, SoundTable
<1>2. \A c \in Client : session[c].id \in 0..Len(accounts')
  BY <1>1 DEF AccountTypes
<1>3. ASSUME NEW c \in Client, NEW s, s.id \in 0..Len(accounts'), session' = [session EXCEPT ![c] = s]
      PROVE  \A d \in Client : session'[d].id \in 0..Len(accounts')
  <2>1. \A d \in Client : session'[d] = IF d = c THEN s ELSE session[d]
    BY <1>3 DEF AccountInv
  <2> QED BY <1>2, <1>3, <2>1
<1>4. \A c \in Client : session'[c].id \in 0..Len(accounts')
  BY <1>2, <1>3
<1> QED BY <1>4 DEF AccountTypes

\* A login to an account of a sound table.
LEMMA LogInSound ==
  ASSUME AccountInv, AccountTypes, Attempts', NEW t, SoundTable(t),
         Len(accounts) <= Len(t), Len(t) <= AccountLimit,
         NEW c \in Client, NEW name, NEW id \in 0..Len(t), LogIn(t, c, name, id)
  PROVE  AccountTypes'
<1>1. Len(t) \in Nat /\ DOMAIN t = 1..Len(t) /\ \A i \in DOMAIN t : Row(t[i]) /\ SoundRow(t[i])
  BY TableRows DEF SoundTable
<1>2. accounts' = [i \in DOMAIN t |-> [t[i] EXCEPT !.revokes = @ \ {c}]]
  BY DEF LogIn
<1>3. \A i \in DOMAIN t : /\ Row(accounts'[i]) /\ accounts'[i].name = t[i].name
                          /\ accounts'[i].revokes = t[i].revokes \ {c}
                          /\ accounts'[i].source = t[i].source
  BY <1>1, <1>2 DEF Row
<1>4. accounts' = [i \in 1..Len(t) |-> accounts'[i]] /\ DOMAIN accounts' = DOMAIN t
  BY <1>1, <1>2
<1>5. Table(accounts') /\ Len(accounts') = Len(t)
  BY <1>1, <1>3, <1>4, RowsTable
<1>6. SoundTable(accounts')
  BY <1>1, <1>3, <1>4, <1>5, ReplacedSound DEF SoundRow
<1> DEFINE s == [in |-> TRUE, name |-> name, id |-> id, admin |-> t[id].role = "admin",
                 dated |-> TRUE]
<1>7. session' = [session EXCEPT ![c] = s] /\ s.id = id
  BY DEF LogIn
<1> HIDE DEF s
<1> QED BY <1>5, <1>6, <1>7, TypesKept

\* The logins.
LEMMA LoginsSound ==
  ASSUME AccountInv, AccountTypes, NEW c \in Client,
         \/ \E n \in LoginName : LocalLogin(c, n)
         \/ \E p \in Identity, g \in BOOLEAN : CwaLogin(c, p, g) \/ SamlCallback(c, p, g)
         \/ \E p \in Identity, g, create \in BOOLEAN : OidcCallback(c, p, g, create)
  PROVE  AccountTypes'
<1>1. /\ SoundTable(accounts) /\ Len(accounts) \in Nat /\ Len(accounts) <= AccountLimit /\ Attempts
      /\ DOMAIN accounts = 1..Len(accounts) /\ AccountLimit \in Nat
  BY TableRows, AccountsAssumption DEF AccountTypes, SoundTable
<1>2. ASSUME NEW n \in LoginName, LocalLogin(c, n) PROVE AccountTypes'
  <2>1. PICK i \in Named(accounts, Plain(n)) : LogIn(accounts, c, Plain(n), i)
    BY <1>2 DEF LocalLogin
  <2>2. i \in 0..Len(accounts)
    BY <1>1 DEF Named, Users
  <2>3. attempts' = [Swept EXCEPT ![n] = NoAttempts]
    BY <1>2 DEF LocalLogin
  <2>4. Attempts'
    BY <1>1, <2>3, AttemptsKept
  <2> QED BY <1>1, <2>1, <2>2, <2>4, LogInSound
<1>3. ASSUME NEW p \in Identity, NEW g \in BOOLEAN, CwaLogin(c, p, g) PROVE AccountTypes'
  <2> DEFINE to == Upsert(accounts, CwaIdentity(p, g))
  <2>1. LogIn(to.table, c, Plain(p.name), to.id) /\ Len(to.table) <= AccountLimit
    BY <1>3 DEF CwaLogin
  <2>2. p.name \in LoginName /\ attempts' = [Swept EXCEPT ![p.name] = NoAttempts]
    BY <1>3, AccountsAssumption DEF CwaLogin
  <2>3. Attempts'
    BY <1>1, <2>2, AttemptsKept
  <2>4. SoundTable(to.table) /\ Len(accounts) <= Len(to.table) /\ to.id \in 0..Len(to.table)
    BY <1>1, IdentitySources, UpsertSound
  <2> HIDE DEF to
  <2> QED BY <2>1, <2>3, <2>4, LogInSound
<1>4. ASSUME NEW p \in Identity, NEW g \in BOOLEAN, SamlCallback(c, p, g) PROVE AccountTypes'
  <2> DEFINE new == [NewAccount(Plain(p.name), "saml", "user", FALSE, p.email, NoSubject)
                       EXCEPT !.saml = p.subject]
             known == {i \in Users(accounts) : accounts[i].saml = p.subject}
  <2>1. \/ \E i \in known : LogIn(accounts, c, accounts[i].name, i)
        \/ /\ Named(accounts, Plain(p.name)) = {} /\ Len(accounts) < AccountLimit
           /\ LogIn(Append(accounts, new), c, Plain(p.name), Len(accounts) + 1)
    BY <1>4 DEF SamlCallback
  <2>2. UNCHANGED attempts /\ p.name \in LoginName
    BY <1>4, AccountsAssumption DEF SamlCallback
  <2>3. Attempts'
    BY <1>1, <2>2 DEF Attempts
  <2>4. Row(new) /\ SoundRow(new) /\ new.name = Plain(p.name)
    BY DEF Row, NewAccount, SoundRow, Sources
  <2>5. \A i \in known : i \in 0..Len(accounts)
    BY <1>1 DEF Users
  <2> HIDE DEF new, known
  <2>6. ASSUME NEW i \in known, LogIn(accounts, c, accounts[i].name, i) PROVE AccountTypes'
    BY <1>1, <2>3, <2>5, <2>6, LogInSound
  <2>7. ASSUME Named(accounts, Plain(p.name)) = {}, Len(accounts) < AccountLimit,
               LogIn(Append(accounts, new), c, Plain(p.name), Len(accounts) + 1)
        PROVE  AccountTypes'
    <3>1. SoundTable(Append(accounts, new)) /\ Len(Append(accounts, new)) = Len(accounts) + 1
      BY <1>1, <2>4, <2>7, AddedSound
    <3> DEFINE t == Append(accounts, new)
               id == Len(accounts) + 1
    <3>2. LogIn(t, c, Plain(p.name), id)
      BY <2>7
    <3>3. id \in 0..Len(t) /\ Len(accounts) <= Len(t) /\ Len(t) <= AccountLimit /\ SoundTable(t)
      BY <1>1, <2>7, <3>1
    <3> HIDE DEF t, id
    <3> QED BY <2>3, <3>2, <3>3, LogInSound
  <2> QED BY <2>1, <2>6, <2>7
<1>5. ASSUME NEW p \in Identity, NEW g \in BOOLEAN, NEW create \in BOOLEAN,
             OidcCallback(c, p, g, create)
      PROVE  AccountTypes'
  <2> DEFINE to == Upsert(accounts, OidcIdentity(p, g, create))
  <2>1. /\ LogIn(to.table, c, to.table[to.id].name, to.id) /\ Len(to.table) <= AccountLimit
        /\ UNCHANGED attempts
    BY <1>5 DEF OidcCallback
  <2>2. Attempts'
    BY <1>1, <2>1 DEF Attempts
  <2>3. SoundTable(to.table) /\ Len(accounts) <= Len(to.table) /\ to.id \in 0..Len(to.table)
    BY <1>1, IdentitySources, UpsertSound
  <2> HIDE DEF to
  <2> QED BY <2>1, <2>2, <2>3, LogInSound
<1> QED BY <1>2, <1>3, <1>4, <1>5

\* The requests behind the proxy.
LEMMA ProxySound ==
  ASSUME AccountInv, AccountTypes, NEW c \in Client, NEW n \in LoginName, NEW grouped \in BOOLEAN,
         NEW guarded \in BOOLEAN, ProxyRequest(c, n, grouped, guarded)
  PROVE  AccountTypes'
<1> DEFINE s == session[c]
           admin == IF method.groups THEN grouped
                    ELSE \A i \in Named(accounts, Plain(n)) : accounts[i].role = "admin"
           kept == IF s.in /\ s.name # Plain(n) THEN 0 ELSE s.id
           insync == kept \in Users(accounts) /\ accounts[kept].name = Plain(n)
           u == Upsert(accounts, ProxyIdentity(n, admin))
           to == IF insync THEN [table |-> accounts, id |-> kept] ELSE u
           outdated == guarded /\ s.dated /\ c \in to.table[to.id].revokes
           q == [in |-> TRUE, name |-> Plain(n), id |-> to.id, admin |-> admin, dated |-> s.dated]
<1>1. /\ accounts' = to.table /\ Len(to.table) <= AccountLimit /\ UNCHANGED attempts
      /\ session' = [session EXCEPT ![c] = IF outdated THEN NoSession ELSE q]
  BY Zenon DEF ProxyRequest
<1>2. /\ SoundTable(accounts) /\ Len(accounts) \in Nat /\ DOMAIN accounts = 1..Len(accounts) /\ Attempts
  BY TableRows DEF AccountTypes, SoundTable
<1>3. SoundTable(u.table) /\ Len(accounts) <= Len(u.table) /\ u.id \in 0..Len(u.table)
  BY <1>2, IdentitySources, UpsertSound
<1>4. insync => kept \in 0..Len(accounts)
  BY <1>2 DEF Users
<1> HIDE DEF u, kept
<1>5. SoundTable(to.table) /\ Len(accounts) <= Len(to.table) /\ to.id \in 0..Len(to.table)
  BY <1>2, <1>3, <1>4
<1>6. q.id = to.id /\ NoSession.id = 0 /\ 0 \in 0..Len(to.table)
  <2>1. Len(to.table) \in Nat
    BY <1>5, TableRows DEF SoundTable
  <2> HIDE DEF to
  <2> QED BY <2>1 DEF NoSession
<1> HIDE DEF to, q, outdated
<1>7. (IF outdated THEN NoSession ELSE q).id \in 0..Len(accounts')
  BY <1>1, <1>5, <1>6
<1>8. Attempts'
  BY <1>1, <1>2 DEF Attempts
<1> QED BY <1>1, <1>5, <1>7, <1>8, TypesKept

\* What else a browser does.
LEMMA BrowserSound ==
  ASSUME AccountInv, AccountTypes, NEW c \in Client,
         Request(c) \/ Logout(c) \/ \E n \in LoginName : OpenLogin(c, n)
  PROVE  AccountTypes'
<1>1. /\ SoundTable(accounts) /\ Len(accounts) \in Nat /\ Attempts /\ session[c].id \in 0..Len(accounts)
      /\ Len(accounts) <= AccountLimit /\ UNCHANGED accounts
  BY TableRows DEF AccountTypes, SoundTable, Request, Logout, OpenLogin
<1>2. CASE Request(c) \/ Logout(c)
  <2>1. UNCHANGED attempts /\ (UNCHANGED session \/ session' = [session EXCEPT ![c] = NoSession])
    BY <1>2 DEF Request, Logout
  <2>2. NoSession.id \in 0..Len(accounts') /\ Attempts'
    BY <1>1, <2>1 DEF NoSession, Attempts
  <2> QED BY <1>1, <2>1, <2>2, TypesKept
<1>3. ASSUME NEW n \in LoginName, OpenLogin(c, n) PROVE AccountTypes'
  <2> DEFINE s == [session[c] EXCEPT !.in = TRUE, !.name = Plain(n)]
  <2>1. session' = [session EXCEPT ![c] = s] /\ attempts' = [Swept EXCEPT ![n] = NoAttempts]
    BY <1>3 DEF OpenLogin, AccountInv
  <2>2. s.id = session[c].id
    BY DEF AccountInv, Cookie
  <2> HIDE DEF s
  <2>3. Attempts'
    BY <1>1, <2>1, AttemptsKept
  <2>4. s.id \in 0..Len(accounts') /\ SoundTable(accounts') /\ Len(accounts') = Len(accounts)
    BY <1>1, <2>2
  <2>5. Len(accounts) <= Len(accounts') /\ Len(accounts') <= AccountLimit
    BY <1>1
  <2> QED BY <2>1, <2>3, <2>4, <2>5, TypesKept
<1> QED BY <1>2, <1>3

\* One row replaced by a sound one of its name, or of nobody's.
LEMMA RowReplacedSound ==
  ASSUME NEW a, SoundTable(a), NEW i \in DOMAIN a, NEW r, Row(r), SoundRow(r),
         r.name = a[i].name \/ r.name = NobodysName
  PROVE  SoundTable([a EXCEPT ![i] = r]) /\ Len([a EXCEPT ![i] = r]) = Len(a)
<1> DEFINE t == [a EXCEPT ![i] = r]
<1>1. /\ Len(a) \in Nat /\ DOMAIN a = 1..Len(a) /\ a = [k \in 1..Len(a) |-> a[k]]
      /\ \A k \in DOMAIN a : Row(a[k]) /\ SoundRow(a[k])
  BY TableRows DEF SoundTable
<1>2. /\ t = [k \in 1..Len(a) |-> t[k]] /\ DOMAIN t = DOMAIN a
      /\ \A k \in DOMAIN a : t[k] = IF k = i THEN r ELSE a[k]
  BY <1>1
<1> HIDE DEF t
<1>3. /\ \A k \in 1..Len(a) : Row(t[k])
      /\ \A k \in DOMAIN a : SoundRow(t[k]) /\ (t[k].name = a[k].name \/ t[k].name = NobodysName)
  BY <1>1, <1>2
<1>4. Table(t) /\ Len(t) = Len(a)
  BY <1>1, <1>2, <1>3, RowsTable
<1>5. SoundTable(t)
  BY <1>2, <1>3, <1>4, ReplacedSound
<1> QED BY <1>4, <1>5 DEF t

\* An edit writes a sound row of the same name.
LEMMA EditSound ==
  ASSUME AccountInv, AccountTypes, NEW i, NEW local, NEW password, NEW role, NEW email,
         Edited(i, local, password, role, email), i \in Users(accounts),
         UNCHANGED <<session, attempts>>
  PROVE  AccountTypes'
<1> DEFINE a == accounts[i]
           written == [a EXCEPT !.password = @ \/ password]
           whole == [written EXCEPT !.role = role, !.email = email]
<1>1. PICK r : accounts' = [accounts EXCEPT ![i] = r] /\ (r = written \/ r = whole)
  <2> DEFINE mayRole == a.source = "builtin" \/ (a.source = "oidc" /\ ~method.groups)
             allowed == (role # a.role => mayRole) /\ (email # a.email => a.source \in {"builtin", "proxy"})
  <2>1. accounts' = [accounts EXCEPT ![i] = IF allowed THEN whole ELSE written]
    BY DEF Edited
  <2> HIDE DEF allowed, written, whole
  <2> QED BY <2>1
<1>2. SoundTable(accounts) /\ Len(accounts) \in Nat /\ Len(accounts) <= AccountLimit /\ Attempts
  BY TableRows DEF AccountTypes, SoundTable
<1>3. i \in DOMAIN accounts /\ Row(a) /\ SoundRow(a)
  BY <1>2, TableRows DEF Users, SoundTable
<1>4. /\ Row(written) /\ written.name = a.name /\ written.revokes = a.revokes
      /\ written.source = a.source
  BY <1>3 DEF Row
<1> HIDE DEF written
<1>5. Row(whole) /\ whole.name = a.name /\ whole.revokes = a.revokes /\ whole.source = a.source
  BY <1>4 DEF Row
<1> HIDE DEF whole
<1>6. Row(r) /\ SoundRow(r) /\ r.name = a.name
  BY <1>1, <1>3, <1>4, <1>5 DEF SoundRow
<1>7. SoundTable(accounts') /\ Len(accounts') = Len(accounts)
  BY <1>1, <1>2, <1>3, <1>6, RowReplacedSound
<1>8. Attempts'
  BY <1>2 DEF Attempts
<1> QED BY <1>2, <1>7, <1>8, TypesKept

\* What administrators do.
LEMMA AdminSound ==
  ASSUME AccountInv, AccountTypes, NEW c \in Client, AdminStep(c)
  PROVE  AccountTypes'
<1>1. /\ SoundTable(accounts) /\ Len(accounts) \in Nat /\ Len(accounts) <= AccountLimit /\ Attempts
      /\ AccountLimit \in Nat
  BY TableRows, AccountsAssumption DEF AccountTypes, SoundTable
<1>2. ASSUME UNCHANGED <<session, attempts>>, SoundTable(accounts'), Len(accounts) <= Len(accounts'),
             Len(accounts') <= AccountLimit
      PROVE  AccountTypes'
  BY <1>1, <1>2, TypesKept DEF Attempts
<1>3. ASSUME NEW n \in LoginName, NEW r \in {"admin", "user"}, NEW e, CreateAccount(c, n, r, e)
      PROVE  AccountTypes'
  <2> DEFINE q == NewAccount(Plain(n), "builtin", IF Users(accounts) = {} THEN "admin" ELSE r,
                             TRUE, e, NoSubject)
  <2>1. /\ accounts' = Append(accounts, q) /\ UNCHANGED <<session, attempts>>
        /\ Named(accounts, Plain(n)) = {} /\ Len(accounts) < AccountLimit
    BY <1>3 DEF CreateAccount, AdminWrites
  <2>2. Row(q) /\ SoundRow(q) /\ q.name = Plain(n)
    BY DEF Row, NewAccount, SoundRow, Sources
  <2> HIDE DEF q
  <2>3. SoundTable(Append(accounts, q)) /\ Len(Append(accounts, q)) = Len(accounts) + 1
    BY <1>1, <2>1, <2>2, AddedSound
  <2> QED BY <1>1, <1>2, <2>1, <2>3
<1>4. ASSUME NEW i \in Users(accounts), ForceLogout(c, i) PROVE AccountTypes'
  <2> DEFINE dated == {d \in Client : session[d].in /\ session[d].dated}
             r == [accounts[i] EXCEPT !.revokes = @ \cup dated]
  <2>1. accounts' = [accounts EXCEPT ![i] = r] /\ UNCHANGED <<session, attempts>>
    BY <1>4 DEF ForceLogout, AdminWrites
  <2>2. i \in DOMAIN accounts /\ Row(accounts[i]) /\ SoundRow(accounts[i])
    BY <1>1, TableRows DEF Users, SoundTable
  <2>3. Row(r) /\ SoundRow(r) /\ r.name = accounts[i].name
    BY <2>2 DEF Row, SoundRow
  <2> HIDE DEF r
  <2>4. SoundTable(accounts') /\ Len(accounts') = Len(accounts)
    BY <1>1, <2>1, <2>2, <2>3, RowReplacedSound
  <2> QED BY <1>1, <1>2, <2>1, <2>4
<1>5. ASSUME NEW i \in Users(accounts), DeleteAccount(c, i) PROVE AccountTypes'
  <2>1. accounts' = [accounts EXCEPT ![i] = Deleted] /\ UNCHANGED <<session, attempts>>
    BY <1>5 DEF DeleteAccount, AdminWrites
  <2>2. Row(Deleted) /\ SoundRow(Deleted) /\ Deleted.name = NobodysName /\ i \in DOMAIN accounts
    BY DEF Row, SoundRow, Deleted, Sources, Users
  <2>3. SoundTable(accounts') /\ Len(accounts') = Len(accounts)
    BY <1>1, <2>1, <2>2, RowReplacedSound
  <2> QED BY <1>1, <1>2, <2>1, <2>3
<1>6. ASSUME NEW rows \in CwaLists, SyncCwa(c, rows) PROVE AccountTypes'
  <2>1. /\ accounts' = Synced(accounts, rows) /\ UNCHANGED <<session, attempts>>
        /\ Len(accounts') <= AccountLimit
    BY <1>6 DEF SyncCwa, AdminWrites
  <2>2. Len(rows) \in Nat
    BY AccountsAssumption
  <2>3. SoundTable(accounts') /\ Len(accounts) <= Len(accounts')
    BY <1>1, <2>1, <2>2, SyncSound
  <2> QED BY <1>2, <2>1, <2>3
<1>7. ASSUME NEW m \in AuthSettings, SaveMethod(c, m) PROVE AccountTypes'
  BY <1>1, <1>2, <1>7 DEF SaveMethod
<1>8. ASSUME NEW i \in Users(accounts), NEW password \in BOOLEAN, NEW r, NEW e,
             EditAccount(c, i, password, r, e)
      PROVE  AccountTypes'
  BY <1>8, EditSound DEF EditAccount, AdminWrites
<1> QED BY <1>3, <1>4, <1>5, <1>6, <1>7, <1>8 DEF AdminStep

\* What a browser does.
LEMMA ClientSound ==
  ASSUME AccountInv, AccountTypes, NEW c \in Client, ClientStep(c)
  PROVE  AccountTypes'
<1>1. ASSUME NEW n \in LoginName, NEW g \in BOOLEAN, NEW guarded \in BOOLEAN,
             ProxyRequest(c, n, g, guarded)
      PROVE  AccountTypes'
  BY <1>1, ProxySound
<1>2. ASSUME NEW password \in BOOLEAN, NEW e, EditSelf(c, password, e) PROVE AccountTypes'
  <2>1. /\ Edited(session[c].id, TRUE, password, accounts[session[c].id].role, e)
        /\ session[c].id \in Users(accounts) /\ UNCHANGED <<session, attempts>>
    BY <1>2 DEF EditSelf
  <2> QED BY <2>1, EditSound
<1> QED BY <1>1, <1>2, LoginsSound, BrowserSound DEF ClientStep

\* Every step keeps the types.
LEMMA AccountTypesStep ==
  AccountInv /\ AccountTypes /\ [AccountNext]_accountVars => AccountTypes'
<1> SUFFICES ASSUME AccountInv, AccountTypes, [AccountNext]_accountVars PROVE AccountTypes'
  OBVIOUS
<1>1. CASE UNCHANGED accountVars
  BY <1>1 DEF accountVars, AccountTypes, Attempts
<1>2. ASSUME NEW c \in Client, ClientStep(c) PROVE AccountTypes'
  BY <1>2, ClientSound
<1>3. ASSUME NEW c \in Client, AdminStep(c) PROVE AccountTypes'
  BY <1>3, AdminSound
<1>4. ASSUME NEW n \in Mistyped, NameStep(n) PROVE AccountTypes'
  <2>1. n \in LoginName /\ Attempts
    BY AccountsAssumption DEF AccountTypes
  <2>2. UNCHANGED <<accounts, session>>
    BY <1>4 DEF NameStep, LockExpires, LoginRefused, LoginFails
  <2>3. LockExpires(n) \/ LoginFails(n) \/ attempts' = Swept
    BY <1>4 DEF NameStep, LoginRefused
  <2>4. Attempts'
    BY <2>1, <2>3, AttemptsKept
  <2> QED BY <2>2, <2>4 DEF AccountTypes
<1> QED BY <1>1, <1>2, <1>3, <1>4 DEF AccountNext

\* The types hold at the start.
LEMMA AccountTypesInit == AccountInit => AccountTypes
<1> SUFFICES ASSUME AccountInit PROVE AccountTypes
  OBVIOUS
<1>1. accounts = <<>> /\ Len(accounts) = 0 /\ DOMAIN accounts = {}
  BY DEF AccountInit
<1>2. SoundTable(accounts)
  BY <1>1, AccountInvInit DEF AccountInv, SoundTable, DistinctNames, Users
<1>3. AttemptLimit \in Nat \ {0} /\ AccountLimit \in Nat
  BY AccountsAssumption
<1>4. Attempts
  BY <1>3 DEF AccountInit, Attempts, NoAttempts
<1> QED BY <1>1, <1>2, <1>3, <1>4 DEF AccountInit, AccountTypes, NoSession

\* What the types say of names, attempts and sessions is what the invariant asks for.
LEMMA AccountTypesFit == AccountTypes => AccountTypeOK
<1> SUFFICES ASSUME AccountTypes PROVE AccountTypeOK
  OBVIOUS
<1>1. AttemptLimit \in Nat
  BY AccountsAssumption
<1>2. \A n \in LoginName : /\ attempts[n].count <= AttemptLimit
                           /\ attempts[n].lock # "no" <=> attempts[n].count = AttemptLimit
  BY <1>1 DEF AccountTypes, Attempts
<1>3. ASSUME NEW i \in Users(accounts) PROVE Cardinality(Named(accounts, accounts[i].name)) = 1
  <2>1. Named(accounts, accounts[i].name) = {i}
    BY DEF Named, AccountTypes, SoundTable, DistinctNames
  <2> QED BY <2>1, FS_Singleton
<1>4. \A i \in Users(accounts) :
        /\ accounts[i].source \in {"builtin", "oidc", "cwa", "proxy", "saml"}
        /\ accounts[i].revokes \subseteq Client
  BY DEF Users, AccountTypes, SoundTable, SoundRow, Sources
<1>5. /\ Len(accounts) <= AccountLimit
      /\ \A c \in Client : session[c].id \in 0..Len(accounts)
  BY DEF AccountTypes
<1>6. \A i \in Users(accounts) :
        /\ accounts[i].source \in {"builtin", "oidc", "cwa", "proxy", "saml"}
        /\ accounts[i].revokes \subseteq Client
        /\ Cardinality(Named(accounts, accounts[i].name)) = 1
  BY <1>3, <1>4
<1> QED BY <1>2, <1>5, <1>6 DEF AccountTypeOK

\* No two accounts ever have the same name, whichever source made, linked or named them,
\* and a name is locked exactly while it has failed as often as the limit allows.
THEOREM AccountTyped == AccountSpec => []AccountTypeOK
<1>1. AccountInit => AccountInv /\ AccountTypes
  BY AccountInvInit, AccountTypesInit
<1>2. AccountInv /\ AccountTypes /\ [AccountNext]_accountVars => (AccountInv /\ AccountTypes)'
  BY AccountInvStep, AccountTypesStep
<1>3. AccountInv /\ AccountTypes => AccountTypeOK
  BY AccountTypesFit
<1> QED BY <1>1, <1>2, <1>3, PTL DEF AccountSpec

-----------------------------------------------------------------------------
(***************************************************************************)
(* MCTransfers.  A step of the process is a step of one component and none *)
(* of the others, so each keeps its invariant beside the others.           *)
(***************************************************************************)
\* A behaviour of the process is, for each component, a behaviour of it.
LEMMA TransfersRunsEach ==
  TransfersSpec => AccountSpec /\ []PageInv /\ [](DirectInv /\ Limits(direct))
<1>1. TransfersInit => AccountInit /\ PageInv /\ DirectInv /\ Limits(direct)
  BY PageInvInit, DirectInvInit, LimitsInit DEF TransfersInit
<1>2. [TransfersNext]_TransfersVars => [AccountNext]_accountVars
  BY DEF TransfersVars, TransfersNext, PagePart, DirectPart, AccountPart
<1>3. [TransfersNext]_TransfersVars => [PageNext]_pageVars
  BY DEF TransfersVars, TransfersNext, PagePart, DirectPart, AccountPart
<1>4. [TransfersNext]_TransfersVars => [DirectNext]_directVars
  BY DEF TransfersVars, TransfersNext, PagePart, DirectPart, AccountPart
<1>5. DirectInv /\ Limits(direct) /\ [DirectNext]_directVars => (DirectInv /\ Limits(direct))'
  BY DirectInvStep, LimitsStep
<1> QED BY <1>1, <1>2, <1>3, <1>4, <1>5, PageInvStep, PTL DEF TransfersSpec, AccountSpec

(***************************************************************************)
(* The pages, the direct download and the accounts keep their types: a     *)
(* resolver that is one of the providers, attempts, failures and pieces    *)
(* within their limits, and no two accounts of one name.                   *)
(***************************************************************************)
THEOREM TransfersTyped == TransfersSpec => []TransfersTypeOK
<1>1. PageInv => PageTypeOK
  BY DEF PageInv, PageFields, PageState, PageTypeOK, DnsChoice
<1>2. PageTypeOK /\ DirectTypeOK /\ AccountTypeOK => TransfersTypeOK
  BY DEF TransfersTypeOK
<1> QED BY <1>1, <1>2, DirectFits, TransfersRunsEach, AccountTyped, PTL

(***************************************************************************)
(* What the run checks of the resolver, the book, the linking of accounts  *)
(* and forced logouts holds in a process that has them all.                *)
(***************************************************************************)
THEOREM TransfersSafe ==
  TransfersSpec => [](DnsInForce /\ OwnBook /\ LinkingSettles /\ ForcedLogoutHolds)
<1>1. PageInv => DnsInForce
  BY DEF PageInv, Agree, Chosen, RotationWaits, DnsInForce, ResolverIsProviders, ChosenDnsStays
<1> QED BY <1>1, DirectKeepsBook, TransfersRunsEach, AccountLinkingSettles,
       AccountForcedLogoutHolds, PTL
=============================================================================
