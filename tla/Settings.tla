---- MODULE Settings ----
\* Settings: one JSON file per tab, the environment that overrides them, the cache in
\* memory that the program reads (core/config.py), the migrations at the first load
\* of a process (core/settings_registry.py), saves and the set-up dialog.  Nothing
\* here yields, so a request is one step unless it ends in the middle: a file is
\* written in place, and a process or a write that fails leaves it torn.
EXTENDS Naturals, FiniteSets

CONSTANTS
  Environments,   \* [Setting -> {"none", "on", "off"}]: the variables a process may see
  Installations,  \* sets of files that an earlier version may have left
  Changed,        \* the settings that are saved in a behaviour
  StopLimit,      \* bound: processes that end
  TearLimit       \* bound: writes that fail

VARIABLES
  shape,      \* shape[f]: a file is absent, whole or torn
  stored,     \* stored[k]: what the file holds
  env,        \* the environment of the process
  phase,      \* how far the process has come
  existing,   \* had_existing_install_state
  cache,      \* Config._cache
  cooling,    \* less than the cooldown has passed since the last refresh
  origin,     \* the installation the files come from
  stops, tears,
  missed,     \* history: a write came after the load the cache is from
  touched,    \* history: somebody has saved settings, or the set-up dialog has
  cut         \* history: a migration was left after its first write, or a variable
              \* had set what it migrates to

settingVars == <<shape, stored, env, phase, existing, cache, cooling, origin, stops, tears,
                 missed, touched, cut>>

\* FILE_ORGANIZATION, the old ingest settings, AA_CONTENT_TYPE_ROUTING,
\* DIRECT_DOWNLOAD_ENABLED, METADATA_PROVIDER, HARDCOVER_ENABLED and the mark of the
\* set-up dialog; "off" stands for the default.
FileOf == [organization |-> "downloads", legacy |-> "downloads", routing |-> "sources",
           direct |-> "sources", selected |-> "general", enabled |-> "hardcover",
           onboarded |-> "general"]
SettingKey == DOMAIN FileOf
SettingFile == {FileOf[k] : k \in SettingKey}
Registered == SettingKey \ {"legacy", "onboarded"}
Unset == [k \in SettingKey |-> "none"]
SettingState == [SettingKey -> {"none", "on", "off"}]

ASSUME SettingsAssumption ==
  /\ {StopLimit, TearLimit} \subseteq Nat /\ Changed \subseteq Registered
  /\ Installations \subseteq SUBSET SettingFile
  /\ \A e \in Environments : e \in SettingState /\ \A k \in SettingKey \ Registered : e[k] = "none"

SettingInit ==
  /\ shape = [f \in SettingFile |-> "absent"] /\ stored = Unset /\ env = Unset
  /\ phase = "new" /\ existing = FALSE /\ cache = Unset /\ cooling = FALSE /\ origin = "none"
  /\ stops = 0 /\ tears = 0 /\ missed = FALSE /\ touched = FALSE /\ cut = FALSE

\* load_config_file: a torn file reads as empty.
Loaded(sh, st, k) == IF sh[FileOf[k]] = "whole" THEN st[k] ELSE "none"
\* get_setting_value
SettingValue(sh, st, k) ==
  IF env[k] # "none" THEN env[k] ELSE IF Loaded(sh, st, k) # "none" THEN Loaded(sh, st, k) ELSE "off"
Reading(sh, st) == [k \in SettingKey |-> IF k \in Registered THEN SettingValue(sh, st, k) ELSE "none"]
\* save_config_file: the values are merged with what the file holds.
Saved(sh, st, f, vals) ==
  [k \in SettingKey |-> IF FileOf[k] # f THEN st[k]
                        ELSE IF vals[k] # "none" THEN vals[k] ELSE Loaded(sh, st, k)]
One(k, v) == [Unset EXCEPT ![k] = v]
WriteFile(f, vals) ==
  /\ shape' = [shape EXCEPT ![f] = "whole"] /\ stored' = Saved(shape, stored, f, vals)
\* open("w") has emptied the file when the write fails; the error is swallowed.
TearFile(f) ==
  /\ tears < TearLimit /\ tears' = tears + 1 /\ shape' = [shape EXCEPT ![f] = "torn"]
  /\ stored' = [k \in SettingKey |-> IF FileOf[k] = f THEN "none" ELSE stored[k]]
WriteOrTear(f, vals) == (WriteFile(f, vals) /\ UNCHANGED tears) \/ TearFile(f)
\* Config.refresh within the cooldown does nothing unless it is forced.
\* Fault: it never does anything unless it is forced.
RefreshKept(forced, c, sh, st) == IF forced THEN Reading(sh, st) ELSE c
Refreshed(forced, c, sh, st) == IF forced \/ ~cooling THEN Reading(sh, st) ELSE c

\* An earlier version's files: with download_sources.json ("old"), which does not hold
\* the setting, or without ("partial"), down to none but users.db; or nothing.
Install(left) ==
  /\ phase = "new" /\ phase' = "down"
  /\ origin' = IF "sources" \in left THEN "old" ELSE "partial"
  /\ shape' = [f \in SettingFile |-> IF f \in left THEN "whole" ELSE "absent"]
  /\ stored' = IF "downloads" \in left THEN One("legacy", "on") ELSE Unset
  /\ UNCHANGED <<env, existing, cache, cooling, stops, tears, missed, touched, cut>>
InstallFresh ==
  /\ phase = "new" /\ phase' = "down" /\ origin' = "fresh"
  /\ UNCHANGED <<shape, stored, env, existing, cache, cooling, stops, tears, missed, touched, cut>>
\* settings.json, users.db or a file of a plugin
Boot ==
  /\ phase = "down" /\ phase' = "defaults" /\ env' \in Environments
  /\ existing' = (origin # "fresh" \/ \E f \in SettingFile : shape[f] # "absent")
  /\ UNCHANGED <<shape, stored, cache, cooling, origin, stops, tears, missed, touched, cut>>
\* initialize_default_configs, file by file.
WriteDefaults ==
  /\ phase = "defaults"
  /\ IF \E f \in SettingFile : shape[f] = "absent"
     THEN LET f == CHOOSE x \in SettingFile : shape[x] = "absent"
          IN /\ WriteOrTear(f, [k \in SettingKey |-> IF k \in Registered THEN "off" ELSE "none"])
             /\ UNCHANGED phase
     ELSE phase' = "environment" /\ UNCHANGED <<shape, stored, tears>>
  /\ UNCHANGED <<env, existing, cache, cooling, origin, stops, missed, touched, cut>>
\* sync_env_to_config
SyncStep == [environment |-> [file |-> "general", next |-> "environment2"],
             environment2 |-> [file |-> "downloads", next |-> "environment3"],
             environment3 |-> [file |-> "sources", next |-> "environment4"],
             environment4 |-> [file |-> "hardcover", next |-> "legacy"]]
SyncEnvironment ==
  /\ phase \in DOMAIN SyncStep
  /\ LET f == SyncStep[phase].file
     IN IF \E k \in Registered : FileOf[k] = f /\ env[k] # "none" THEN WriteOrTear(f, env)
        ELSE UNCHANGED <<shape, stored, tears>>
  /\ phase' = SyncStep[phase].next
  /\ cut' = (cut \/ \E k \in {"organization", "routing"} :
                       FileOf[k] = SyncStep[phase].file /\ env[k] # "none")
  /\ UNCHANGED <<env, existing, cache, cooling, origin, stops, missed, touched>>
\* migrate_legacy_settings: two files, one after the other.
Migrating == Loaded(shape, stored, "organization") = "none" /\ Loaded(shape, stored, "legacy") = "on"
MigrateDownloads ==
  /\ phase = "legacy"
  /\ IF Migrating THEN WriteOrTear("downloads", One("organization", "on")) /\ phase' = "legacy sources"
     ELSE phase' = "direct" /\ UNCHANGED <<shape, stored, tears>>
  /\ UNCHANGED <<env, existing, cache, cooling, origin, stops, missed, touched, cut>>
MigrateSources ==
  /\ phase = "legacy sources" /\ WriteOrTear("sources", One("routing", "on")) /\ phase' = "direct"
  /\ UNCHANGED <<env, existing, cache, cooling, origin, stops, missed, touched, cut>>
\* migrate_direct_download_upgrade
\* Fault: it looks whether the file is there, not whether the setting is in it.
MigrateDirectIfAbsent ==
  /\ phase = "direct" /\ phase' = "load"
  /\ IF existing /\ shape["sources"] = "absent" THEN WriteOrTear("sources", One("direct", "on"))
     ELSE UNCHANGED <<shape, stored, tears>>
  /\ UNCHANGED <<env, existing, cache, cooling, origin, stops, missed, touched, cut>>
MigrateDirect ==
  /\ phase = "direct" /\ phase' = "load"
  /\ IF existing /\ Loaded(shape, stored, "direct") = "none" THEN WriteOrTear("sources", One("direct", "on"))
     ELSE UNCHANGED <<shape, stored, tears>>
  /\ UNCHANGED <<env, existing, cache, cooling, origin, stops, missed, touched, cut>>
FirstLoad ==
  /\ phase = "load" /\ phase' = "up" /\ cache' = Reading(shape, stored) /\ missed' = FALSE
  /\ cooling' = FALSE
  /\ UNCHANGED <<shape, stored, env, existing, origin, stops, tears, touched, cut>>

\* sync_metadata_provider_selection, on what the cache says of the providers.
Reselect(f, c, sh, st) ==
  IF f = "hardcover" /\ c["selected"] # c["enabled"] THEN One("selected", c["enabled"]) ELSE Unset
\* update_settings: a value of the environment is not saved; afterwards the cache is
\* refreshed, not forced.
Save(k, v) ==
  LET f == FileOf[k]
      sh == [shape EXCEPT ![f] = "whole"]
      st == Saved(shape, stored, f, One(k, v))
      c == Refreshed(FALSE, cache, sh, st)
      again == Reselect(f, c, sh, st)
  IN /\ phase = "up" /\ env[k] = "none" /\ touched' = TRUE
     /\ IF again = Unset
        THEN /\ shape' = sh /\ stored' = st /\ cache' = c /\ missed' = cooling
        ELSE /\ shape' = [sh EXCEPT !["general"] = "whole"]
             /\ stored' = Saved(sh, st, "general", again)
             /\ cache' = Reading(shape', stored') /\ missed' = FALSE
     /\ cooling' = TRUE
     /\ UNCHANGED <<env, phase, existing, origin, stops, tears, cut>>
SaveFails(k) ==
  /\ phase = "up" /\ env[k] = "none" /\ TearFile(FileOf[k]) /\ touched' = TRUE /\ missed' = TRUE
  /\ UNCHANGED <<env, phase, existing, cache, cooling, origin, stops, cut>>
\* Readers of the providers refresh, not forced; saving a user's settings forces it.
Refresh(forced) ==
  /\ phase = "up" /\ (forced \/ ~cooling)
  /\ cache' = Refreshed(forced, cache, shape, stored) /\ missed' = FALSE /\ cooling' = TRUE
  /\ UNCHANGED <<shape, stored, env, phase, existing, origin, stops, tears, touched, cut>>
CooldownPasses ==
  /\ cooling /\ cooling' = FALSE
  /\ UNCHANGED <<shape, stored, env, phase, existing, cache, origin, stops, tears, missed, touched, cut>>

\* save_onboarding_settings: one file after the other, without a look at the
\* environment; a write that fails is not noticed.
OnboardingStep == [onboard1 |-> [next |-> "onboard2", key |-> "selected"],
                   onboard2 |-> [next |-> "onboard3", key |-> "enabled"],
                   onboard3 |-> [next |-> "onboard4", key |-> "direct"],
                   onboard4 |-> [next |-> "onboard5", key |-> "onboarded"]]
BeginOnboarding ==
  /\ phase = "up" /\ Loaded(shape, stored, "onboarded") = "none" /\ phase' = "onboard1" /\ touched' = TRUE
  /\ UNCHANGED <<shape, stored, env, existing, cache, cooling, origin, stops, tears, missed, cut>>
Onboard ==
  /\ phase \in DOMAIN OnboardingStep
  /\ LET s == OnboardingStep[phase]
     IN WriteOrTear(FileOf[s.key], One(s.key, "on")) /\ phase' = s.next
  /\ missed' = TRUE
  /\ UNCHANGED <<env, existing, cache, cooling, origin, stops, touched, cut>>
EndOnboarding ==
  /\ phase = "onboard5" /\ phase' = "up" /\ cache' = Refreshed(FALSE, cache, shape, stored)
  /\ missed' = (missed /\ cooling) /\ cooling' = TRUE
  /\ UNCHANGED <<shape, stored, env, existing, origin, stops, tears, touched, cut>>

\* The process ends; in the middle of a write that is a torn file and then the end.
Stop ==
  /\ phase \notin {"new", "down"} /\ stops < StopLimit /\ stops' = stops + 1 /\ phase' = "down"
  /\ cache' = Unset /\ cooling' = FALSE /\ missed' = FALSE /\ cut' = (cut \/ phase = "legacy sources")
  /\ UNCHANGED <<shape, stored, env, existing, origin, tears, touched>>

SettingNext ==
  \/ InstallFresh \/ \E left \in Installations : Install(left)
  \/ Boot \/ WriteDefaults \/ SyncEnvironment \/ MigrateDownloads \/ MigrateSources \/ MigrateDirect
  \/ FirstLoad \/ CooldownPasses \/ BeginOnboarding \/ Onboard \/ EndOnboarding \/ Stop
  \/ \E k \in Changed, v \in {"on", "off"} : Save(k, v)
  \/ \E k \in Changed : SaveFails(k)
  \/ \E forced \in BOOLEAN : Refresh(forced)
SettingSpec == SettingInit /\ [][SettingNext]_settingVars

----
SettingTypeOK ==
  /\ shape \in [SettingFile -> {"absent", "whole", "torn"}]
  /\ \A k \in SettingKey : /\ {stored[k], cache[k], env[k]} \subseteq {"none", "on", "off"}
                           /\ shape[FileOf[k]] # "whole" => stored[k] = "none"

\* config.py: the program reads what the files and the environment say, unless a
\* write came within the cooldown of a refresh, failed, or belongs to a dialog
\* that is being saved.
StaleOnlyInCooldown == (phase = "up" /\ ~missed) => cache = Reading(shape, stored)

\* sync_env_to_config: the migrations carry the ingest settings over as a whole, turn
\* direct downloads on where an earlier version has left download_sources.json, and leave
\* every other installation at the defaults, which are written before: unless a process
\* ended between their writes or a write failed, or a variable had taken the place of the
\* setting migrated to.
MigratedAsInstalled ==
  (phase = "up" /\ ~touched /\ ~cut /\ tears = 0) =>
    /\ stored["legacy"] = "on" => stored["organization"] = "on" /\ stored["routing"] = "on"
    /\ \/ \E e \in Environments : e["direct"] # "none"
       \/ SettingValue(shape, stored, "direct") = IF origin = "old" THEN "on" ELSE "off"

====
