---- MODULE MCService ----
\* The components that deliver, record and configure. They share no state: a
\* behaviour runs one of them, named by part, and leaves the others at their
\* initial states.
EXTENDS FilePublication, Delivery, ActivityView, RequestPolicy, Settings,
  LiveStatus, Notifications

MCEnvironments == {Unset, [Unset EXCEPT !["organization"] = "off"],
  [Unset EXCEPT !["enabled"] = "on"], [Unset EXCEPT !["routing"] = "off"]}
MCInstallations == {{}, {"downloads"}, {"general", "sources"}, {"general", "downloads", "sources"}}
MCTables == {
  <<[event |-> {"all"}, url |-> "ntfy"], [event |-> {"download_failed"}, url |-> "ntfy+"]>>,
  <<[event |-> {"all", "request_created"}, url |-> "nope"],
    [event |-> {"download_failed", "request_created"}, url |-> "mail"]>>,
  <<[event |-> {"bogus"}, url |-> "ntfy"], [event |-> {"download_failed"}, url |-> "blank"]>>,
  <<[event |-> {"all"}, url |-> "bad"]>>, <<>>}

VARIABLE part

ServiceInit ==
  /\ part \in {"files", "delivery", "activity", "policy", "settings", "live",
        "notices"}
  /\ FileInit
  /\ DeliveryInit
  /\ ActivityInit
  /\ PolicyInit
  /\ SettingInit
  /\ LiveInit
  /\ NoticeInit

FilePart ==
  /\ part = "files" /\ FileNext
  /\ UNCHANGED <<part, deliveryVars, activityVars, policyVars, settingVars,
        liveVars, noticeVars>>

DeliveryPart ==
  /\ part = "delivery" /\ DeliveryNext
  /\ UNCHANGED <<part, fileVars, activityVars, policyVars, settingVars,
        liveVars, noticeVars>>

ActivityPart ==
  /\ part = "activity" /\ ActivityNext
  /\ UNCHANGED <<part, fileVars, deliveryVars, policyVars, settingVars,
        liveVars, noticeVars>>

PolicyPart ==
  /\ part = "policy" /\ PolicyNext
  /\ UNCHANGED <<part, fileVars, deliveryVars, activityVars, settingVars,
        liveVars, noticeVars>>

SettingPart ==
  /\ part = "settings" /\ SettingNext
  /\ UNCHANGED <<part, fileVars, deliveryVars, activityVars, policyVars,
        liveVars, noticeVars>>

LivePart ==
  /\ part = "live" /\ LiveNext
  /\ UNCHANGED <<part, fileVars, deliveryVars, activityVars, policyVars,
        settingVars, noticeVars>>

NoticePart ==
  /\ part = "notices" /\ NoticeNext
  /\ UNCHANGED <<part, fileVars, deliveryVars, activityVars, policyVars,
        settingVars, liveVars>>

ServiceNext ==
  \/ FilePart
  \/ DeliveryPart
  \/ ActivityPart
  \/ PolicyPart
  \/ SettingPart
  \/ LivePart
  \/ NoticePart

ServiceVars ==
  <<part, fileVars, deliveryVars, activityVars, policyVars, settingVars,
    liveVars, noticeVars>>

ServiceSpec == ServiceInit /\ [][ServiceNext]_ServiceVars

\* The type invariants of the components.
ServiceTypeOK ==
  /\ FileTypeOK /\ DeliveryTypeOK /\ ActivityTypeOK /\ PolicyTypeOK
  /\ SettingTypeOK /\ LiveTypeOK /\ NoticeTypeOK
====
