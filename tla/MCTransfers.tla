---- MODULE MCTransfers ----
\* The components that fetch over HTTP. They share no state: a behaviour runs
\* one of them, named by part, and leaves the others at their initial states.
EXTENDS PageFetch, DirectDownload, Accounts

MCConfigs == {
  [fast |-> <<"aa-fast", "libgen">>, slow |-> <<"zlib">>, off |-> {}, key |-> FALSE,
   bypass |-> FALSE],
  [fast |-> <<"aa-fast">>, slow |-> <<"aa-slow-nowait", "aa-slow-wait">>,
   off |-> {"aa-fast"}, key |-> TRUE, bypass |-> TRUE],
  [fast |-> <<"aa-fast">>, slow |-> <<"welib", "zlib">>, off |-> {}, key |-> TRUE,
   bypass |-> TRUE]}
MCIdentities == {[name |-> "n1", email |-> "e1", subject |-> "s1"],
  [name |-> "n1", email |-> NoEmail, subject |-> "s2"]}
MCCwaLists == {<<>>, <<[name |-> "n1", email |-> "e1", admin |-> TRUE]>>,
  <<[name |-> "n2", email |-> "e1", admin |-> FALSE],
    [name |-> "n1", email |-> "e1", admin |-> TRUE]>>}
MCAuthSettings == {[name |-> m, groups |-> m \in {"none", "oidc", "saml"}] :
  m \in {"none", "builtin", "oidc", "cwa", "proxy", "saml"}}

\* Picked and Distinct collect what a loop over a list does: "if keep: out.append(item)",
\* and "if item not in out: out.append(item)".
LoopPicks(list, places) ==
  LET out[n \in 0..Len(list)] ==
        IF n = 0 THEN <<>> ELSE IF n \in places THEN Append(out[n - 1], list[n]) ELSE out[n - 1]
  IN out[Len(list)]

LoopWithoutRepeats(list) ==
  LET out[n \in 0..Len(list)] ==
        IF n = 0 THEN <<>>
        ELSE IF list[n] \in Listed(out[n - 1]) THEN out[n - 1] ELSE Append(out[n - 1], list[n])
  IN out[Len(list)]

ASSUME ListsAreLoops ==
  \A list \in UNION {[1..n -> 1..3] : n \in 0..4} :
    /\ \A places \in SUBSET (1..Len(list)) : Picked(list, places) = LoopPicks(list, places)
    /\ Distinct(list) = LoopWithoutRepeats(list)

VARIABLE part

TransfersInit ==
  /\ part \in {"pages", "direct", "accounts"}
  /\ PageInit
  /\ DirectInit
  /\ AccountInit

PagePart ==
  /\ part = "pages" /\ PageNext
  /\ UNCHANGED <<part, directVars, accountVars>>

DirectPart ==
  /\ part = "direct" /\ DirectNext
  /\ UNCHANGED <<part, pageVars, accountVars>>

AccountPart ==
  /\ part = "accounts" /\ AccountNext
  /\ UNCHANGED <<part, pageVars, directVars>>

TransfersNext ==
  \/ PagePart
  \/ DirectPart
  \/ AccountPart

\* The fairness of each component, for the behaviours that run it.
TransfersFairness ==
  /\ WF_pageVars(part = "pages" /\ DnsProviderSet)
  /\ WF_pageVars(part = "pages" /\ FetchStep)
  /\ WF_pageVars(part = "pages" /\ OthersStep)
  /\ SF_pageVars(part = "pages" /\ TakeDnsLock)
  /\ WF_directVars(part = "direct" /\ DirectStep)

TransfersVars ==
  <<part, pageVars, directVars, accountVars>>

TransfersSpec == TransfersInit /\ [][TransfersNext]_TransfersVars /\ TransfersFairness

\* The type invariants of the components.
TransfersTypeOK ==
  /\ PageTypeOK /\ DirectTypeOK /\ AccountTypeOK

\* Every direct download and every page fetch ends, but for mirrors that go on
\* redirecting.
TransfersEnd == DirectEnds /\ FetchEnds
====
