---- MODULE MCFetching ----
\* The components that fetch from other programs and sites, and the caches in
\* front of them. They share no state: a behaviour runs one of them, named by
\* part, and leaves the others at their initial states.
EXTENDS ExternalClient, IrcConnections, BookTargets, CoverCache, QBittorrent

MCSetups == {[adapter |-> "sabnzbd", source |-> "newznab", removal |-> TRUE],
  [adapter |-> "torrent", source |-> "audiobookbay", removal |-> TRUE]}
MCQbtSetups == {
  [padded |-> FALSE, own |-> FALSE, others |-> TRUE, content |-> TRUE],
  [padded |-> FALSE, own |-> TRUE, others |-> TRUE, content |-> FALSE],
  [padded |-> TRUE, own |-> TRUE, others |-> FALSE, content |-> FALSE],
  [padded |-> TRUE, own |-> TRUE, others |-> TRUE, content |-> TRUE]}

VARIABLE part

FetchingInit ==
  /\ part \in {"client", "irc", "targets", "covers", "qbt"}
  /\ ExternalInit
  /\ IrcInit
  /\ TargetInit
  /\ CoverInit
  /\ QbtInit

ExternalPart ==
  /\ part = "client" /\ ExternalNext
  /\ UNCHANGED <<part, ircVars, targetVars, coverVars, qbtVars>>

IrcPart ==
  /\ part = "irc" /\ IrcNext
  /\ UNCHANGED <<part, clientVars, targetVars, coverVars, qbtVars>>

TargetPart ==
  /\ part = "targets" /\ TargetNext
  /\ UNCHANGED <<part, clientVars, ircVars, coverVars, qbtVars>>

CoverPart ==
  /\ part = "covers" /\ CoverNext
  /\ UNCHANGED <<part, clientVars, ircVars, targetVars, qbtVars>>

QbtPart ==
  /\ part = "qbt" /\ QbtNext
  /\ UNCHANGED <<part, clientVars, ircVars, targetVars, coverVars>>

FetchingNext ==
  \/ ExternalPart
  \/ IrcPart
  \/ TargetPart
  \/ CoverPart
  \/ QbtPart

\* The fairness of each component, for the behaviours that run it.
FetchingFairness ==
  /\ \A r \in ClientRun : WF_clientVars(part = "client" /\ RunStep(r))
  /\ \A u \in IrcRun : WF_ircVars(part = "irc" /\ IrcStep(u))
  /\ WF_ircVars(part = "irc" /\ TimePasses)
  /\ WF_ircVars(part = "irc" /\ CleanupIdle)

FetchingVars ==
  <<part, clientVars, ircVars, targetVars, coverVars, qbtVars>>

FetchingSpec == FetchingInit /\ [][FetchingNext]_FetchingVars /\ FetchingFairness

\* The type invariants of the components.
FetchingTypeOK ==
  /\ ExternalTypeOK /\ IrcTypeOK /\ TargetTypeOK /\ CoverTypeOK /\ QbtTypeOK

\* A cancelled run of a client's handler ends, and so does every run of IRC, but for one
\* that waits for a server on a client out of the registry.
RunsEnd == CancelledRunEnds /\ IrcRunEnds
====
