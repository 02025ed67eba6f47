------------------------------- MODULE Service -------------------------------
(* The server process around its database: settings that are edited, saved    *)
(* and reloaded, models that are scanned, marked and drawn, and the directory *)
(* that both of them change, across kills and restarts.                       *)
EXTENDS Catalog

vars == <<settingsVars, moderationVars, pictureVars, catalogVars, lately>>

Init == SettingsInit /\ ModerationInit /\ CatalogInit

(* Settings reach the directory through the policy, the writes they make and *)
(* the cache they install; the end of the process ends all handlers.         *)
Installed == Install /\ CacheInstalled /\ UNCHANGED <<moderationVars, pictureVars>>
Killed == Kill /\ ScansEnd /\ CacheEnds
SettingsStep ==
  SettingsNext /\ UNCHANGED <<moderationVars, pictureVars, catalogVars>>
ModerationStep ==
  (ScanNext \/ AdminNext \/ RenderNext) /\ UNCHANGED catalogVars

Next ==
  /\ Installed \/ Killed \/ SettingsStep \/ ModerationStep \/ RequestNext
  /\ Remember

(* A process that is down is started again, the watcher polls every two      *)
(* seconds, and whoever holds config_edit_lock goes on.                      *)
Works ==
  \/ SettingsStep /\ (\/ Boot \/ PollBegin \/ PollLoad \/ SaveCheck
                       \/ SaveReadsOld \/ Publish \/ Commit)
  \/ Installed
Fairness == WF_vars(Works /\ Remember)

Spec == Init /\ [][Next]_vars /\ Fairness

TypeOK == SettingsTypeOK /\ ModerationTypeOK /\ CatalogTypeOK
=============================================================================
