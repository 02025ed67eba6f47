---------------------------- MODULE ServiceProofs ----------------------------
(* Proofs about Service for any configurations, models, scanners, requests   *)
(* and bounds.                                                                *)
EXTENDS Service, SequenceTheorems, TLAPS

----------------------------------------------------------------------------
(* Which steps touch what. *)
AllVars == <<settingsVars, moderationVars, pictureVars, catalogVars>>

LEMMA Steps ==
  ASSUME Next
  PROVE  /\ Remember
         /\ \/ Installed \/ Killed
            \/ SettingsStep
            \/ ScanNext /\ UNCHANGED catalogVars
            \/ AdminNext /\ UNCHANGED catalogVars
            \/ RenderNext /\ UNCHANGED catalogVars
            \/ RequestNext
BY DEF Next, ModerationStep

LEMMA Stays ==
  /\ UNCHANGED settingsVars => OnlyChanges /\ changes' = changes
  /\ UNCHANGED moderationVars =>
       UNCHANGED <<verdict, mark, found, revisions, deleted, accessible>>
  /\ Writes => changes' = changes + 1
BY DEF settingsVars, moderationVars, OnlyChanges, Writes

LEMMA ScanSteps ==
  ASSUME ScanNext
  PROVE  /\ OnlyChanges
         /\ \/ \E s \in Scanners, v \in Verdicts : SaveScan(s, v)
            \/ \E s \in Scanners : Register(s)
            \/ UNCHANGED <<settingsVars, verdict, mark, found, revisions,
                           deleted, accessible, pictureVars>>
<1> DEFINE Quiet == UNCHANGED <<settingsVars, verdict, mark, found, revisions,
                                deleted, accessible, pictureVars>>
<1>1. ASSUME NEW s \in Scanners, NEW x \in Assets, NEW c \in Contents,
             StartUpload(s, x, c)
      PROVE  Quiet
  BY <1>1, Zenon DEF StartUpload
<1>2. ASSUME NEW s \in Scanners, EnforcePolicy(s)
      PROVE  Quiet
  BY <1>2, Zenon DEF EnforcePolicy
<1>3. ASSUME NEW s \in Scanners, NEW x \in Assets, StartRescan(s, x)
      PROVE  Quiet
  BY <1>3, Zenon DEF StartRescan
<1>4. ASSUME NEW s \in Scanners
      PROVE  /\ Register(s) => OnlyChanges
             /\ \A v \in Verdicts : SaveScan(s, v) => OnlyChanges
  BY Zenon DEF Register, SaveScan
<1>5. Quiet => OnlyChanges
  BY Stays
<1>6. \/ \E s \in Scanners, v \in Verdicts : SaveScan(s, v)
      \/ \E s \in Scanners : Register(s)
      \/ Quiet
  <2> HIDE DEF Quiet
  <2> QED
    BY <1>1, <1>2, <1>3, Zenon DEF ScanNext
<1>7. OnlyChanges
  <2> HIDE DEF Quiet
  <2> QED
    BY <1>4, <1>5, <1>6, Zenon
<1> QED
  BY <1>6, <1>7

LEMMA AdminSteps ==
  ASSUME AdminNext
  PROVE  /\ OnlyChanges /\ changes' = changes + 1
         /\ \/ \E x \in Assets, m \in Marks \cup {Nil} : Mark(x, m)
            \/ verdict' = verdict /\ found' = found
<1>1. \A x, m : Mark(x, m) => OnlyChanges /\ Writes
  BY Zenon DEF Mark
<1>2. \A x, b : DeleteOrRestore(x, b) =>
        OnlyChanges /\ Writes /\ verdict' = verdict /\ found' = found
  BY DEF DeleteOrRestore
<1>3. \A x, a : ChangeAccess(a, x) =>
        OnlyChanges /\ Writes /\ verdict' = verdict /\ found' = found
  BY DEF ChangeAccess
<1> QED
  BY <1>1, <1>2, <1>3, Stays, Zenon DEF AdminNext

LEMMA RenderSteps ==
  ASSUME RenderNext
  PROVE  /\ OnlyChanges /\ UNCHANGED <<verdict, mark, found, deleted, accessible>>
         /\ \/ changes' = changes + 1
            \/ changes' = changes /\ revisions' = revisions
<1> DEFINE Only == OnlyChanges /\ changes' = changes /\ revisions' = revisions
                   /\ UNCHANGED <<verdict, mark, found, deleted, accessible>>
           Wrote == OnlyChanges /\ changes' = changes + 1
                    /\ UNCHANGED <<verdict, mark, found, deleted, accessible>>
<1>1. UNCHANGED <<settingsVars, moderationVars>> => Only
  BY Stays
<1>2. ASSUME NEW r \in Renderers, NEW x \in Assets, QueueRender(r, x)
      PROVE  UNCHANGED <<settingsVars, moderationVars>>
  BY <1>2, Zenon DEF QueueRender
<1>3. ASSUME NEW r \in Renderers, Draw(r)
      PROVE  UNCHANGED <<settingsVars, moderationVars>>
  BY <1>3, Zenon DEF Draw
<1>4. ASSUME NEW r \in Renderers, OpenPicture(r)
      PROVE  UNCHANGED <<settingsVars, moderationVars>>
  BY <1>4, Zenon DEF OpenPicture
<1>5. ASSUME NEW r \in Renderers, WritePicture(r)
      PROVE  UNCHANGED <<settingsVars, moderationVars>>
  BY <1>5, Zenon DEF WritePicture
<1>6. ASSUME NEW r \in Renderers, RenamePicture(r)
      PROVE  UNCHANGED <<settingsVars, moderationVars>>
  BY <1>6, Zenon DEF RenamePicture
<1>7. ASSUME NEW r \in Renderers, GiveUpRender(r)
      PROVE  Wrote
  BY <1>7, Stays DEF GiveUpRender
<1>8. ASSUME NEW r \in Renderers, RecordPicture(r)
      PROVE  Wrote
  BY <1>8, Stays DEF RecordPicture
<1>9. Only \/ Wrote
  <2> HIDE DEF Only, Wrote
  <2> QED
    BY <1>1, <1>2, <1>3, <1>4, <1>5, <1>6, <1>7, <1>8, Zenon DEF RenderNext
<1> QED
  BY <1>9

LEMMA RequestSteps ==
  ASSUME RequestNext
  PROVE  OnlyChanges /\ changes' = changes /\ UNCHANGED moderationVars
<1>1. /\ \A r, a : BeginRequest(r, a) => UNCHANGED <<settingsVars, moderationVars>>
      /\ \A r, g : Hit(r, g) => UNCHANGED <<settingsVars, moderationVars>>
  BY Zenon DEF BeginRequest, Hit
<1>2. \A r : \/ Miss(r) \/ Recheck(r) \/ LoadPage(r) \/ EndRequest(r)
                => UNCHANGED <<settingsVars, moderationVars>>
  BY Zenon DEF Miss, Recheck, LoadPage, EndRequest
<1>3. \A r, b : Put(r, b) => UNCHANGED <<settingsVars, moderationVars>>
  BY Zenon DEF Put
<1>4. UNCHANGED <<settingsVars, moderationVars>>
  BY <1>1, <1>2, <1>3, Zenon DEF RequestNext
<1> QED
  BY <1>4, Stays

----------------------------------------------------------------------------
(* Verdicts. *)
VerdictInv ==
  /\ verdict \in [Contents -> Verdicts \cup {Nil}]
  /\ DOMAIN found = Contents
  /\ VerdictsCommute

LEMMA NoVerdict == Nil # "R18" /\ Nil # "CLEAN"
BY VerdictAssumption DEF Verdicts

LEMMA VerdictSteps ==
  ASSUME VerdictInv, [Next]_vars
  PROVE  VerdictInv'
<1>1. CASE UNCHANGED <<verdict, found>>
  BY <1>1 DEF VerdictInv, VerdictsCommute
<1>2. ASSUME NEW s \in Scanners, NEW v \in Verdicts, SaveScan(s, v)
      PROVE  VerdictInv'
  <2> DEFINE c == scan[s].content
  <2>1. /\ verdict' = [verdict EXCEPT ![c] = Merged(@, v)]
        /\ found' = [found EXCEPT ![c] = @ \cup {v}]
    BY <1>2 DEF SaveScan
  <2> HIDE DEF c
  <2>2. ASSUME NEW d \in Contents
        PROVE  /\ verdict'[d] \in Verdicts \cup {Nil}
               /\ "R18" \in found'[d] <=> verdict'[d] = "R18"
               /\ verdict'[d] = "CLEAN" <=>
                    "CLEAN" \in found'[d] /\ "R18" \notin found'[d]
    <3>1. /\ verdict[d] \in Verdicts \cup {Nil}
          /\ "R18" \in found[d] <=> verdict[d] = "R18"
          /\ verdict[d] = "CLEAN" <=>
               "CLEAN" \in found[d] /\ "R18" \notin found[d]
      BY DEF VerdictInv, VerdictsCommute
    <3>2. CASE d = c
      <4>1. verdict'[d] = Merged(verdict[d], v) /\ found'[d] = found[d] \cup {v}
        BY <2>1, <3>2 DEF VerdictInv
      <4> QED
        BY <3>1, <4>1 DEF Merged, Verdicts
    <3>3. CASE d # c
      <4>1. verdict'[d] = verdict[d] /\ found'[d] = found[d]
        BY <2>1, <3>3 DEF VerdictInv
      <4> QED
        BY <3>1, <4>1
    <3> QED
      BY <3>2, <3>3
  <2>3. /\ verdict' \in [Contents -> Verdicts \cup {Nil}]
        /\ DOMAIN found' = Contents
    BY <2>1, <2>2 DEF VerdictInv
  <2> QED
    BY <2>2, <2>3 DEF VerdictInv, VerdictsCommute
<1>3. ASSUME NEW x \in Assets, NEW m \in Marks \cup {Nil}, Mark(x, m)
      PROVE  VerdictInv'
  <2> DEFINE c == Current(x).content
  <2>1. /\ verdict' = [verdict EXCEPT ![c] = IF @ = Nil THEN "UNKNOWN" ELSE @]
        /\ found' = found
    BY <1>3 DEF Mark
  <2> HIDE DEF c
  <2>2. \A d \in Contents :
          \/ verdict'[d] = verdict[d]
          \/ verdict[d] = Nil /\ verdict'[d] = "UNKNOWN"
    BY <2>1 DEF VerdictInv
  <2>3. verdict' \in [Contents -> Verdicts \cup {Nil}]
    BY <2>1 DEF VerdictInv, Verdicts
  <2> QED
    BY <2>1, <2>2, <2>3, NoVerdict
       DEF VerdictInv, VerdictsCommute
<1>4. CASE UNCHANGED vars
  BY <1>1, <1>4 DEF vars, moderationVars
<1>5. CASE Installed \/ Killed \/ SettingsStep
  BY <1>1, <1>5, Stays DEF Installed, Killed, ScansEnd, SettingsStep
<1>6. CASE ScanNext
  BY <1>1, <1>2, <1>6, ScanSteps DEF Register
<1>7. CASE AdminNext
  BY <1>1, <1>3, <1>7, AdminSteps
<1>8. CASE RenderNext \/ RequestNext
  BY <1>1, <1>8, RenderSteps, RequestSteps, Stays
<1> QED
  BY <1>4, <1>5, <1>6, <1>7, <1>8, Steps

(* A verdict is what all scans together say, in whatever order they ended,   *)
(* failed or were repeated (ModelScanner::save_scan).                         *)
THEOREM VerdictsCommuteAlways == Spec => []VerdictsCommute
<1>1. Init => VerdictInv
  BY NoVerdict DEF Init, ModerationInit, VerdictInv, VerdictsCommute
<1>2. VerdictInv /\ [Next]_vars => VerdictInv'
  BY VerdictSteps
<1>3. VerdictInv => VerdictsCommute
  BY DEF VerdictInv
<1> QED
  BY <1>1, <1>2, <1>3, PTL DEF Spec

----------------------------------------------------------------------------
(* Settings. *)
Contained == Texts \cup {Garbage}
JobTyped ==
  /\ job \in [kind : {"none", "start", "poll", "save"},
              step : {"none", "read", "staged", "checked", "ready", "published",
                      "committed"},
              read : Contained, text : Contained, old : Contained,
              staged : SUBSET Secrets]
  /\ job.kind = "none" => job = NoJob
  /\ job.kind = "start" => job.step \in {"ready", "committed"}
  /\ job.kind = "poll" => job.step \in {"read", "ready", "committed"}
  /\ job.kind = "save" =>
       job.step \in {"staged", "checked", "ready", "published", "committed"}
  /\ job.kind # "save" => job.staged = {}
  /\ job.kind = "save" \/ job.step \in {"ready", "committed"} =>
       job.text \in Texts

SettingsTyped ==
  /\ file \in Contained /\ active \in Contained /\ secrets \subseteq Secrets
  /\ db \in [policy : SUBSET Blockable, enabled : SUBSET Providers,
             managed : SUBSET Providers]
  /\ up \in BOOLEAN
  /\ generation \in Nat
  /\ seen \in [text : Contained, generation : Nat \cup {-1}]
  /\ JobTyped
  /\ up => active \in Texts
  /\ ~up => job = NoJob

(* The credentials that a save has staged are its own until it publishes.    *)
CredentialsInv ==
  /\ Resolves(file, secrets)
  /\ job.kind = "save" =>
       /\ Resolves(job.text, secrets)
       /\ job.step \in {"staged", "checked", "ready"} =>
            file.secret \notin job.staged
       /\ job.step \in {"ready", "published"} =>
            Resolves(job.old, secrets \ job.staged)

(* The database has what is active, or what is about to be.                  *)
Enables(t) ==
  \A p \in db.managed \ overridden : p \in db.enabled <=> p \in t.says.providers
DatabaseInv ==
  /\ up /\ job.step # "committed" =>
       /\ db.policy = active.says.policy
       /\ job.kind # "start" => Enables(active)
  /\ job.step = "committed" =>
       db.policy = job.text.says.policy /\ Enables(job.text)

SettingsInv == SettingsTyped /\ CredentialsInv /\ DatabaseInv

(* What the watcher has marked as applied last is active. *)
WatcherInv ==
  /\ seen.generation <= generation
  /\ up /\ seen.generation = generation => active = seen.text

LEMMA SettingsSteps ==
  ASSUME [Next]_vars
  PROVE  \/ Boot \/ PollBegin \/ Fail
         \/ PollLoad \/ SaveCheck \/ SaveReadsOld \/ Publish \/ Commit
         \/ Install \/ Kill
         \/ \E o \in Options, s \in Secrets \cup {Nil}, replace \in BOOLEAN :
              SaveBegin(o, s, replace)
         \/ \E t \in Contained : Edit(t)
         \/ \E p \in Providers, on \in BOOLEAN : ConfigureProvider(p, on)
         \/ UNCHANGED <<file, secrets, db, up, active, generation, seen, job,
                        overridden>>
<1>1. CASE UNCHANGED vars
  BY <1>1 DEF vars, settingsVars
<1>2. CASE Installed \/ Killed \/ SettingsStep
  BY <1>2 DEF Installed, Killed, SettingsStep, SettingsNext, Contained
<1>3. CASE OnlyChanges
  BY <1>3 DEF OnlyChanges
<1> QED
  BY <1>1, <1>2, <1>3, Steps, ScanSteps, AdminSteps, RenderSteps, RequestSteps

LEMMA TextTypes ==
  /\ \A t \in Texts : /\ t # Garbage /\ t.says \in Options
                      /\ t.says.policy \subseteq Blockable
                      /\ t.says.providers \subseteq Providers
                      /\ t.secret \in Secrets \cup {Nil}
  /\ Garbage.secret = Nil /\ Nil \notin Secrets
BY OptionsAssumption DEF Texts, Garbage

LEMMA InitialSettings == SettingsInit => SettingsInv
<1> SUFFICES ASSUME SettingsInit
             PROVE  SettingsInv
  OBVIOUS
<1>1. NoJob.kind = "none" /\ NoJob.step = "none" /\ NoJob.staged = {}
  BY DEF NoJob
<1>2. SettingsTyped
  BY <1>1 DEF SettingsInit, SettingsTyped, JobTyped, Contained, NoJob, Unseen
<1>3. CredentialsInv /\ DatabaseInv
  BY <1>1 DEF SettingsInit, CredentialsInv, DatabaseInv, Resolves
<1> QED
  BY <1>2, <1>3 DEF SettingsInv

(* What each step does to the job. *)
LEMMA JobFields ==
  ASSUME SettingsTyped
  PROVE  /\ NoJob.kind = "none" /\ NoJob.step = "none" /\ NoJob.staged = {}
         /\ NoJob.read = Garbage /\ NoJob.text = Garbage /\ NoJob.old = Garbage
         /\ Boot => /\ job = NoJob /\ job'.kind = "start" /\ job'.step = "ready"
                    /\ job'.text = file /\ job'.staged = {}
                    /\ job'.read = Garbage /\ job'.old = Garbage
         /\ PollBegin => /\ job'.kind = "poll" /\ job'.step = "read"
                         /\ job'.read = file /\ job'.staged = {}
                         /\ job'.text = Garbage /\ job'.old = Garbage
         /\ PollLoad => \/ job' = NoJob
                        \/ /\ Valid(file) /\ job'.kind = "poll"
                           /\ job'.step = "ready" /\ job'.text = file
                           /\ job'.read = job.read /\ job'.staged = job.staged
                           /\ job'.old = job.old
         /\ SaveReadsOld => /\ job'.kind = "save" /\ job'.step = "ready"
                            /\ job'.old = file /\ job'.text = job.text
                            /\ job'.read = job.read
                            /\ job'.staged = job.staged
         /\ Publish => /\ job'.kind = "save" /\ job'.step = "published"
                       /\ job'.old = job.old /\ job'.text = job.text
                       /\ job'.read = job.read /\ job'.staged = job.staged
         /\ Commit => /\ job'.kind = job.kind /\ job'.step = "committed"
                      /\ job'.old = job.old /\ job'.text = job.text
                      /\ job'.read = job.read /\ job'.staged = job.staged
<1>1. /\ NoJob.kind = "none" /\ NoJob.step = "none" /\ NoJob.staged = {}
      /\ NoJob.read = Garbage /\ NoJob.text = Garbage /\ NoJob.old = Garbage
  BY DEF NoJob
<1>2. Boot => /\ job = NoJob /\ job'.kind = "start" /\ job'.step = "ready"
              /\ job'.text = file /\ job'.staged = {}
              /\ job'.read = Garbage /\ job'.old = Garbage
  BY DEF SettingsTyped, NoJob, Boot
<1>3. PollBegin => /\ job'.kind = "poll" /\ job'.step = "read"
                   /\ job'.read = file /\ job'.staged = {}
                   /\ job'.text = Garbage /\ job'.old = Garbage
  BY DEF NoJob, PollBegin
<1>4. PollLoad => \/ job' = NoJob
                  \/ /\ Valid(file) /\ job'.kind = "poll"
                     /\ job'.step = "ready" /\ job'.text = file
                     /\ job'.read = job.read /\ job'.staged = job.staged
                     /\ job'.old = job.old
  BY DEF SettingsTyped, JobTyped, PollLoad, Holds
<1> QED
  BY <1>1, <1>2, <1>3, <1>4
     DEF SettingsTyped, JobTyped, SaveReadsOld, Publish, Commit, Holds

LEMMA TypesKept ==
  ASSUME SettingsTyped, [Next]_vars
  PROVE  SettingsTyped'
<1> USE DEF Contained
<1>2. CASE Boot
  <2>1. file \in Texts
    BY <1>2 DEF SettingsTyped, Boot, Valid
  <2>2. JobTyped'
    BY <1>2, <2>1 DEF Boot, NoJob, JobTyped
  <2>3. db' \in [policy : SUBSET Blockable, enabled : SUBSET Providers,
                 managed : SUBSET Providers]
    BY <1>2, <2>1, TextTypes DEF Boot, SettingsTyped
  <2>4. seen' \in [text : Contained, generation : Nat \cup {-1}]
    BY <1>2 DEF Boot, Unseen
  <2> QED
    BY <1>2, <2>1, <2>2, <2>3, <2>4 DEF Boot, SettingsTyped
<1>3. CASE PollBegin
  <2>1. JobTyped'
    BY <1>3 DEF PollBegin, NoJob, JobTyped, SettingsTyped
  <2> QED
    BY <1>3, <2>1 DEF PollBegin, SettingsTyped
<1>4. CASE PollLoad
  <2>1. JobTyped'
    BY <1>4 DEF PollLoad, NoJob, JobTyped, SettingsTyped, Valid, Holds
  <2>2. up
    BY <1>4 DEF PollLoad, SettingsTyped, Holds, NoJob
  <2> QED
    BY <1>4, <2>1, <2>2 DEF PollLoad, SettingsTyped
<1>5. ASSUME NEW o \in Options, NEW s \in Secrets \cup {Nil},
             NEW replace \in BOOLEAN, SaveBegin(o, s, replace)
      PROVE  SettingsTyped'
  <2> DEFINE staged == IF replace THEN {s} ELSE {}
             draft == [says |-> o, secret |-> s]
  <2>1. /\ staged \subseteq Secrets /\ draft \in Texts
        /\ secrets' = secrets \cup staged
        /\ job' = [NoJob EXCEPT !.kind = "save", !.step = "staged",
                     !.read = file, !.text = draft, !.staged = staged]
    BY <1>5 DEF SaveBegin, Texts
  <2> HIDE DEF staged, draft
  <2>2. JobTyped'
    BY <2>1 DEF NoJob, JobTyped, SettingsTyped
  <2> QED
    BY <1>5, <2>1, <2>2 DEF SaveBegin, SettingsTyped
<1>6. CASE SaveCheck
  <2>1. JobTyped'
    BY <1>6 DEF SaveCheck, NoJob, JobTyped, SettingsTyped, Holds
  <2>2. up
    BY <1>6 DEF SaveCheck, SettingsTyped, Holds, NoJob
  <2> QED
    BY <1>6, <2>1, <2>2 DEF SaveCheck, SettingsTyped
<1>7. CASE SaveReadsOld
  <2>1. JobTyped'
    BY <1>7 DEF SaveReadsOld, NoJob, JobTyped, SettingsTyped, Holds
  <2> QED
    BY <1>7, <2>1 DEF SaveReadsOld, SettingsTyped, Holds, NoJob
<1>8. CASE Publish
  <2>1. JobTyped'
    BY <1>8 DEF Publish, NoJob, JobTyped, SettingsTyped, Holds
  <2> QED
    BY <1>8, <2>1 DEF Publish, SettingsTyped, JobTyped, Holds, NoJob
<1>9. CASE Commit
  <2>1. job.text \in Texts /\ up
    BY <1>9 DEF Commit, Committing, SettingsTyped, JobTyped
  <2>2. JobTyped'
    BY <1>9, <2>1 DEF Commit, Committing, NoJob, JobTyped, SettingsTyped
  <2>3. db' \in [policy : SUBSET Blockable, enabled : SUBSET Providers,
                 managed : SUBSET Providers]
    BY <1>9, <2>1, TextTypes DEF Commit, Applied, SettingsTyped
  <2> QED
    BY <1>9, <2>1, <2>2, <2>3 DEF Commit, SettingsTyped
<1>10. CASE Install
  <2>1. job.text \in Texts /\ job.read \in Contained
    BY <1>10 DEF Install, SettingsTyped, JobTyped
  <2>2. JobTyped'
    BY <1>10 DEF Install, NoJob, JobTyped
  <2>3. seen' \in [text : Contained, generation : Nat \cup {-1}]
        /\ generation' \in Nat
    BY <1>10, <2>1 DEF Install, SettingsTyped
  <2> QED
    BY <1>10, <2>1, <2>2, <2>3 DEF Install, SettingsTyped
<1>11. CASE Fail
  <2>1. PutBack \in Contained
    BY DEF PutBack, SettingsTyped, JobTyped
  <2>2. JobTyped'
    BY <1>11 DEF Fail, NoJob, JobTyped
  <2> QED
    BY <1>11, <2>1, <2>2 DEF Fail, SettingsTyped
<1>12. CASE Kill
  <2>1. JobTyped'
    BY <1>12 DEF Kill, NoJob, JobTyped
  <2> QED
    BY <1>12, <2>1 DEF Kill, SettingsTyped
<1>13. ASSUME NEW t \in Contained, Edit(t)
       PROVE  SettingsTyped'
  BY <1>13 DEF Edit, SettingsTyped, JobTyped
<1>14. ASSUME NEW q \in Providers, NEW on \in BOOLEAN, ConfigureProvider(q, on)
       PROVE  SettingsTyped'
  BY <1>14 DEF ConfigureProvider, SettingsTyped, JobTyped
<1>15. CASE UNCHANGED <<file, secrets, db, up, active, generation, seen, job,
                        overridden>>
  BY <1>15 DEF SettingsTyped, JobTyped
<1> QED
  BY <1>2, <1>3, <1>4, <1>5, <1>6, <1>7, <1>8, <1>9, <1>10, <1>11, <1>12,
     <1>13, <1>14, <1>15, SettingsSteps

LEMMA CredentialSteps ==
  ASSUME SettingsTyped, CredentialsInv, [Next]_vars
  PROVE  CredentialsInv'
<1> USE DEF CredentialsInv, Resolves
<1>0. /\ Nil \notin job.staged /\ job.staged \subseteq Secrets
      /\ secrets \subseteq Secrets /\ Nil \notin Secrets
      /\ file.secret \in secrets \cup {Nil}
  BY TextTypes DEF SettingsTyped, JobTyped
<1>1. CASE Boot
  BY <1>1, JobFields DEF Boot
<1>2. CASE PollBegin
  BY <1>2, JobFields DEF PollBegin
<1>3. CASE PollLoad
  BY <1>3, JobFields DEF PollLoad
<1>4. ASSUME NEW o \in Options, NEW s \in Secrets \cup {Nil},
             NEW replace \in BOOLEAN, SaveBegin(o, s, replace)
      PROVE  CredentialsInv'
  <2> DEFINE staged == IF replace THEN {s} ELSE {}
             draft == [says |-> o, secret |-> s]
  <2>1. /\ file.secret \notin staged /\ draft.secret \in secrets' \cup {Nil}
        /\ secrets' = secrets \cup staged /\ file' = file
        /\ job' = [NoJob EXCEPT !.kind = "save", !.step = "staged",
                     !.read = file, !.text = draft, !.staged = staged]
    BY <1>0, <1>4 DEF SaveBegin
  <2> HIDE DEF staged, draft
  <2>2. /\ job'.kind = "save" /\ job'.step = "staged" /\ job'.text = draft
        /\ job'.staged = staged
    BY <2>1 DEF NoJob
  <2> QED
    BY <1>0, <2>1, <2>2
<1>5. CASE SaveCheck
  <2>1. CASE file = job.read
    <3>1. /\ job'.kind = job.kind /\ job'.text = job.text
          /\ job'.staged = job.staged /\ job'.step = "checked"
          /\ secrets' = secrets /\ file' = file
      BY <1>5, <2>1 DEF SaveCheck, SettingsTyped, JobTyped
    <3> QED
      BY <1>5, <3>1 DEF SaveCheck, Holds
  <2>2. CASE file # job.read
    <3>1. job'.kind = "none" /\ secrets' = secrets \ job.staged /\ file' = file
      BY <1>5, <2>2, JobFields DEF SaveCheck
    <3> QED
      BY <1>0, <1>5, <3>1 DEF SaveCheck, Holds
  <2> QED
    BY <2>1, <2>2
<1>6. CASE SaveReadsOld
  <2>1. file.secret \notin job.staged /\ Resolves(job.text, secrets)
    BY <1>6 DEF SaveReadsOld, Holds
  <2> QED
    BY <1>0, <1>6, <2>1, JobFields DEF SaveReadsOld
<1>7. CASE Publish
  <2>1. /\ Resolves(job.text, secrets)
        /\ Resolves(job.old, secrets \ job.staged)
    BY <1>7 DEF Publish, Holds
  <2> QED
    BY <1>7, <2>1, JobFields DEF Publish
<1>8. CASE Commit
  BY <1>8, JobFields DEF Commit
<1>9. CASE Install
  BY <1>9, JobFields DEF Install
<1>10. CASE Fail
  <2>1. job'.kind = "none" /\ secrets' = secrets \ job.staged
    BY <1>10, JobFields DEF Fail
  <2>2. file'.secret \in (secrets \ job.staged) \cup {Nil}
    <3>1. CASE job.step = "published"
      <4>1. job.kind = "save"
        BY <3>1 DEF SettingsTyped, JobTyped, NoJob
      <4>2. file' = job.old
        BY <1>10, <3>1 DEF Fail, PutBack
      <4> QED
        BY <3>1, <4>1, <4>2
    <3>2. CASE job.step = "ready"
      BY <1>0, <1>10, <3>2 DEF Fail, PutBack, SettingsTyped, JobTyped
    <3> QED
      BY <1>10, <3>1, <3>2 DEF Fail
  <2> QED
    BY <2>1, <2>2
<1>11. CASE Kill
  BY <1>11, JobFields DEF Kill
<1>12. ASSUME NEW t \in Contained, Edit(t)
       PROVE  CredentialsInv'
  <2>1. /\ t.secret \in (secrets \ job.staged) \cup {Nil, file.secret}
        /\ file' = t /\ secrets' = secrets /\ job' = job
    BY <1>12 DEF Edit
  <2> QED
    BY <1>0, <2>1
<1>13. CASE UNCHANGED <<file, secrets, job>>
  BY <1>13
<1> QED
  BY <1>1, <1>2, <1>3, <1>4, <1>5, <1>6, <1>7, <1>8, <1>9, <1>10, <1>11, <1>12,
     <1>13, SettingsSteps DEF ConfigureProvider

LEMMA DatabaseSteps ==
  ASSUME SettingsTyped, DatabaseInv, [Next]_vars
  PROVE  DatabaseInv'
<1> USE DEF DatabaseInv, Enables
<1>1. CASE Boot
  <2>1. /\ job'.kind = "start" /\ job'.step = "ready" /\ active' = file
        /\ db'.policy = file.says.policy
    BY <1>1, JobFields DEF Boot, SettingsTyped
  <2> QED
    BY <2>1
<1>2. CASE /\ UNCHANGED <<db, up, active, overridden>>
           /\ job.kind # "start" /\ job.step # "committed" /\ job'.step # "committed"
  BY <1>2
<1>3. CASE PollBegin
  BY <1>2, <1>3, JobFields DEF PollBegin
<1>4. CASE PollLoad
  BY <1>2, <1>4, JobFields DEF PollLoad, Holds
<1>5. ASSUME NEW o \in Options, NEW s \in Secrets \cup {Nil},
             NEW replace \in BOOLEAN, SaveBegin(o, s, replace)
      PROVE  DatabaseInv'
  <2>1. job = NoJob /\ job'.step = "staged"
    BY <1>5 DEF SaveBegin, NoJob
  <2> QED
    BY <1>2, <1>5, <2>1, JobFields DEF SaveBegin
<1>6. CASE SaveCheck
  <2>1. job'.step \in {"checked", "none"}
    BY <1>6, JobFields DEF SaveCheck, SettingsTyped, JobTyped
  <2> QED
    BY <1>2, <1>6, <2>1 DEF SaveCheck, Holds
<1>7. CASE SaveReadsOld
  BY <1>2, <1>7, JobFields DEF SaveReadsOld, Holds
<1>8. CASE Publish
  BY <1>2, <1>8, JobFields DEF Publish, Holds
<1>9. CASE Commit
  <2>1. /\ job'.step = "committed" /\ job'.text = job.text
        /\ db' = Applied(job.text) /\ overridden' = {}
    BY <1>9, JobFields DEF Commit
  <2>2. /\ db'.policy = job.text.says.policy
        /\ db'.enabled = (db.enabled \ db.managed) \cup job.text.says.providers
        /\ db'.managed = db.managed \cup job.text.says.providers
    BY <2>1 DEF Applied
  <2> QED
    BY <2>1, <2>2
<1>10. CASE Install
  <2>1. job'.step = "none" /\ job'.kind = "none" /\ active' = job.text
        /\ UNCHANGED <<db, up, overridden>> /\ job.step = "committed"
    BY <1>10, JobFields DEF Install
  <2> QED
    BY <2>1
<1>11. CASE Fail
  BY <1>2, <1>11, JobFields DEF Fail
<1>12. CASE Kill
  BY <1>12, JobFields DEF Kill
<1>13. ASSUME NEW q \in Providers, NEW on \in BOOLEAN, ConfigureProvider(q, on)
       PROVE  DatabaseInv'
  <2>1. /\ db'.policy = db.policy /\ db'.managed = db.managed
        /\ \A r \in Providers \ {q} : r \in db'.enabled <=> r \in db.enabled
        /\ overridden' = overridden \cup {q}
        /\ UNCHANGED <<up, active, job>>
    BY <1>13 DEF ConfigureProvider, SettingsTyped
  <2>2. db.managed \subseteq Providers
    BY DEF SettingsTyped
  <2> QED
    BY <2>1, <2>2
<1>14. CASE UNCHANGED <<db, up, active, job, overridden>>
  BY <1>14
<1> QED
  BY <1>1, <1>3, <1>4, <1>5, <1>6, <1>7, <1>8, <1>9, <1>10, <1>11, <1>12,
     <1>13, <1>14, SettingsSteps DEF Edit

(* File, credentials, database and memory agree whenever no reload or save   *)
(* is under way, whatever was killed or failed half way                      *)
(* (config_apply.rs, admin_settings.rs, main.rs).                             *)
THEOREM SettingsAgreeAlways == Spec => []SettingsAgree
<1>1. Init => SettingsInv
  BY InitialSettings DEF Init
<1>2. SettingsInv /\ [Next]_vars => SettingsInv'
  BY TypesKept, CredentialSteps, DatabaseSteps DEF SettingsInv
<1>3. SettingsInv => SettingsAgree
  <2> SUFFICES ASSUME SettingsInv
               PROVE  SettingsAgree
    OBVIOUS
  <2>1. Resolves(file, secrets)
    BY DEF SettingsInv, CredentialsInv
  <2>2. ASSUME up, job = NoJob
        PROVE  /\ db.policy = active.says.policy
               /\ \A p \in db.managed \ overridden :
                    p \in db.enabled <=> p \in active.says.providers
    <3>1. job.kind = "none" /\ job.step = "none"
      BY <2>2 DEF NoJob
    <3> QED
      BY <2>2, <3>1 DEF SettingsInv, DatabaseInv, Enables
  <2> QED
    BY <2>1, <2>2 DEF SettingsAgree
<1> QED
  BY <1>1, <1>2, <1>3, PTL DEF Spec

(* A start forgets what the watcher has seen, and whatever is installed      *)
(* raises the generation: a mark is of this process and of what it installed *)
(* last, and a poll that has read one text has installed what it marks.      *)
LEMMA WatcherSteps ==
  ASSUME SettingsTyped, WatcherInv, OneRead, [Next]_vars
  PROVE  WatcherInv'
<1> USE DEF WatcherInv
<1>0. generation \in Nat /\ seen.generation \in Nat \cup {-1}
  BY DEF SettingsTyped
<1>1. CASE Boot
  <2>1. seen'.generation = -1 /\ generation' = 0
    BY <1>1 DEF Boot, Unseen
  <2> QED
    BY <2>1
<1>2. CASE Install
  <2>1. active' = job.text /\ generation' = generation + 1
    BY <1>2 DEF Install
  <2>2. CASE job.kind = "poll"
    <3>1. seen'.text = job.read /\ seen'.generation = generation + 1
      BY <1>2, <2>2 DEF Install
    <3>2. job.read = job.text
      BY <1>2, <2>2 DEF Install, OneRead
    <3> QED
      BY <1>0, <2>1, <3>1, <3>2
  <2>3. CASE job.kind # "poll"
    <3>1. seen' = seen
      BY <1>2, <2>3 DEF Install
    <3> QED
      BY <1>0, <2>1, <3>1
  <2> QED
    BY <2>2, <2>3
<1>3. CASE Kill
  BY <1>3 DEF Kill
<1>4. CASE UNCHANGED <<up, active, generation, seen>>
  BY <1>4
<1>5. \/ Boot \/ Install \/ Kill
      \/ UNCHANGED <<up, active, generation, seen>>
  BY SettingsSteps DEF PollBegin, PollLoad, SaveBegin, SaveCheck, SaveReadsOld,
     Publish, Commit, Fail, Edit, ConfigureProvider
<1> QED
  BY <1>1, <1>2, <1>3, <1>4, <1>5

(* Unless an editor changes the file between the two reads of one poll       *)
(* (main.rs 161, 173), what the watcher takes for applied is in use: saves,  *)
(* kills, failures and texts put back later do not mislead it.               *)
THEOREM DoubleReadsAlone == Spec => OnlyDoubleReadsMislead
<1>1. Init => SettingsTyped /\ WatcherInv
  <2> SUFFICES ASSUME Init
               PROVE  SettingsTyped /\ WatcherInv
    OBVIOUS
  <2>1. SettingsTyped
    BY InitialSettings DEF Init, SettingsInv
  <2>2. WatcherInv
    BY DEF Init, SettingsInit, WatcherInv, Unseen
  <2> QED
    BY <2>1, <2>2
<1>2. SettingsTyped /\ WatcherInv /\ OneRead /\ [Next]_vars
      => SettingsTyped' /\ WatcherInv'
  BY TypesKept, WatcherSteps
<1>3. WatcherInv => EditsAreAdopted
  <2> SUFFICES ASSUME WatcherInv, up, Seen
               PROVE  active = file
    BY DEF EditsAreAdopted
  <2>1. seen.text = file /\ seen.generation = generation
    BY DEF Seen
  <2> QED
    BY <2>1 DEF WatcherInv
<1> QED
  BY <1>1, <1>2, <1>3, PTL DEF Spec, OnlyDoubleReadsMislead

----------------------------------------------------------------------------
(* Pages. *)
Active(r) == request[r].step # "none"
Shaped(q) == {"step", "page"} \subseteq DOMAIN q

(* What may be answered from memory, now or soon. *)
Sources ==
  Entries(memory) \cup
  {KeyOf(request[r]) : r \in {q \in Requests : request[q].step = "loaded"}}

PagesTyped ==
  /\ changes \in Nat
  /\ memory \in Seq(Entries(memory))
  /\ DOMAIN request = Requests
  /\ \A r \in Requests : /\ Shaped(request[r])
                         /\ ~Active(r) => request[r] = NoRequest
  /\ ~up => memory = <<>> /\ \A r \in Requests : ~Active(r)

(* A page that was loaded since the last write is the present directory.     *)
SourcesTrue ==
  \A e \in Sources :
    /\ e.changes \in Nat /\ e.changes <= changes
    /\ e.changes = changes /\ e.account \in Accounts =>
         e.page = Directories[e.account]

FreshFor(r) ==
  Active(r) =>
    /\ request[r].account \in Accounts
    /\ request[r].changes \in Nat /\ request[r].changes <= changes
    /\ Directories[request[r].account] \in lately[r]
    /\ \A e \in Sources : SameKey(e, request[r]) => e.page \in lately[r]
    /\ request[r].step = "found" /\ request[r].backend # "redis" =>
         request[r].page \in lately[r]
    /\ request[r].step = "answered" =>
         IF request[r].backend = "redis"
         THEN request[r].page \subseteq UNION lately[r]
         ELSE request[r].page \in lately[r]

PageInv == PagesTyped /\ SourcesTrue /\ \A r \in Requests : FreshFor(r)

(* What is added to a sequence of pages. *)
LEMMA SeqOfEntries ==
  ASSUME NEW S, NEW pages \in Seq(S)
  PROVE  pages \in Seq(Entries(pages)) /\ Entries(pages) \subseteq S
<1>1. /\ Len(pages) \in Nat /\ DOMAIN pages = 1..Len(pages)
      /\ pages \in [1..Len(pages) -> S]
  BY LenProperties
<1>2. pages \in [1..Len(pages) -> Entries(pages)]
  BY <1>1 DEF Entries
<1>3. Entries(pages) \subseteq S
  <2> SUFFICES ASSUME NEW i \in 1..Len(pages)
               PROVE  pages[i] \in S
    BY <1>1 DEF Entries
  <2> QED
    BY <1>1
<1>4. pages \in Seq(Entries(pages))
  <2> DEFINE n == Len(pages)
             E == Entries(pages)
  <2>1. n \in Nat /\ pages \in [1..n -> E]
    BY <1>1, <1>2
  <2> HIDE DEF n, E
  <2>2. Seq(E) = UNION {[1..m -> E] : m \in Nat}
    BY SeqDef
  <2>3. pages \in UNION {[1..m -> E] : m \in Nat}
    BY <2>1, Zenon
  <2>4. pages \in Seq(E)
    BY <2>2, <2>3, Zenon
  <2> QED
    BY <2>4 DEF E
<1> QED
  BY <1>3, <1>4

LEMMA AddedEntries ==
  ASSUME NEW pages, pages \in Seq(Entries(pages)), NEW e
  PROVE  /\ Added(pages, e) \in Seq(Entries(Added(pages, e)))
         /\ Entries(Added(pages, e)) \subseteq Entries(pages) \cup {e}
<1> DEFINE S == Entries(pages) \cup {e}
           same == {n \in DOMAIN pages :
                      SameKey(pages[n], e) /\ pages[n].cache = e.cache}
           n == CHOOSE n \in same : TRUE
           others == IF same = {} THEN pages ELSE RemoveAt(pages, n)
           all == Append(others, e)
<1>1. pages \in Seq(S)
  BY SeqMonotonic
<1>2. Len(pages) \in Nat /\ DOMAIN pages = 1..Len(pages)
  BY <1>1, LenProperties
<1>3. others \in Seq(S)
  <2>1. ASSUME same # {}
        PROVE  RemoveAt(pages, n) \in Seq(S)
    <3>1. n \in 1..Len(pages)
      BY <1>2, <2>1
    <3> HIDE DEF n, same, S
    <3>2. \A i \in 1..Len(pages) : pages[i] \in S
      BY <1>1
    <3>3. SubSeq(pages, 1, n - 1) \in Seq(S)
      BY <1>2, <3>1, <3>2, SubSeqProperties
    <3>4. SubSeq(pages, n + 1, Len(pages)) \in Seq(S)
      BY <1>2, <3>1, <3>2, SubSeqProperties
    <3> QED
      BY <3>3, <3>4, ConcatProperties DEF RemoveAt
  <2> HIDE DEF n, same, S
  <2> QED
    BY <1>1, <2>1
<1> HIDE DEF others
<1>4. all \in Seq(S) /\ all # <<>>
  BY <1>3
<1>5. Tail(all) \in Seq(S)
  <2> HIDE DEF all, S
  <2> QED
    BY <1>4
<1>6. Added(pages, e) = IF Len(all) > MaxPages THEN Tail(all) ELSE all
  BY DEF Added, others
<1>7. Added(pages, e) \in Seq(S)
  <2> HIDE DEF all, S
  <2> QED
    BY <1>4, <1>5, <1>6
<1> QED
  BY <1>7, SeqOfEntries

(* A directory changes with a write only, and writes are counted; but when   *)
(* the process starts nothing is kept.                                        *)
LEMMA SameDirectories ==
  ASSUME UNCHANGED <<verdict, mark, revisions, deleted, accessible>>,
         db'.policy = db.policy
  PROVE  Directories' = Directories
<1>1. \A c : Blocked(c)' <=> Blocked(c)
  BY DEF Blocked, Status
<1>2. \A x : Entry(x)' = Entry(x) /\ Current(x)' = Current(x)
  BY DEF Entry, Current
<1>3. \A a : Directory(a)' = Directory(a)
  BY <1>1, <1>2 DEF Directory, HasRevision, Entry, Current, Blocked, Status
<1> QED
  BY <1>3 DEF Directories

LEMMA Counted ==
  ASSUME [Next]_vars, changes \in Nat
  PROVE  \/ SettingsStep /\ Boot
         \/ Killed
         \/ changes' = changes + 1 /\ up' = up
         \/ changes' = changes /\ up' = up /\ Directories' = Directories
<1>1. CASE UNCHANGED vars
  BY <1>1, SameDirectories DEF vars, settingsVars, moderationVars
<1>2. CASE Installed
  BY <1>2, SameDirectories DEF Installed, Install, moderationVars
<1>3. CASE SettingsStep
  <2>1. UNCHANGED <<verdict, mark, revisions, deleted, accessible>>
    BY <1>3 DEF SettingsStep, moderationVars
  <2>2. \/ Boot
        \/ changes' = changes + 1 /\ up' = up
        \/ UNCHANGED <<changes, up, db>>
    <3>1. /\ PollBegin \/ PollLoad => UNCHANGED <<changes, up, db>>
          /\ SaveCheck \/ SaveReadsOld => UNCHANGED <<changes, up, db>>
          /\ \A o, s, replace :
               SaveBegin(o, s, replace) => UNCHANGED <<changes, up, db>>
          /\ \A t : Edit(t) => UNCHANGED <<changes, up, db>>
      BY Zenon DEF PollBegin, PollLoad, SaveCheck, SaveReadsOld, SaveBegin, Edit
    <3>2. Fail \/ Publish => UNCHANGED <<changes, up, db>>
      BY DEF Fail, Publish
    <3>3. \A p, on : ConfigureProvider(p, on) => changes' = changes + 1 /\ up' = up
      BY DEF ConfigureProvider
    <3>4. Commit => \/ changes' = changes + 1 /\ up' = up
                    \/ UNCHANGED <<changes, up, db>>
      BY DEF Commit
    <3> QED
      BY <1>3, <3>1, <3>2, <3>3, <3>4, Zenon DEF SettingsStep, SettingsNext
  <2> QED
    BY <1>3, <2>1, <2>2, SameDirectories
<1>4. CASE ScanNext
  BY <1>4, ScanSteps, SameDirectories
     DEF SaveScan, Register, Writes, OnlyChanges, settingsVars
<1>5. CASE AdminNext
  BY <1>5, AdminSteps DEF OnlyChanges
<1>6. CASE RenderNext
  BY <1>6, RenderSteps, SameDirectories DEF OnlyChanges
<1>7. CASE RequestNext
  BY <1>7, RequestSteps, Stays, SameDirectories DEF OnlyChanges
<1> QED
  BY <1>1, <1>2, <1>3, <1>4, <1>5, <1>6, <1>7, Steps

(* The history holds what each directory has been. *)
LEMMA Remembered ==
  ASSUME Remember, NEW r \in Requests, request'[r].step # "none",
         request'[r].account \in Accounts
  PROVE  /\ lately[r] \subseteq lately'[r]
         /\ Directories'[request'[r].account] \in lately'[r]
<1>1. request'[r] # NoRequest
  BY DEF NoRequest
<1>2. lately'[r] = lately[r] \cup {Directories'[request'[r].account]}
  BY <1>1 DEF Remember
<1> QED
  BY <1>2

(* A request that does nothing stays fresh, if new pages are present ones. *)
LEMMA StillFresh ==
  ASSUME Remember, NEW r \in Requests, FreshFor(r),
         request'[r] = request[r],
         changes \in Nat, changes' \in Nat, changes <= changes',
         \A e \in Sources' : e \in Sources \/ e.page = Directories'[e.account]
  PROVE  FreshFor(r)'
<1> SUFFICES ASSUME Active(r)'
             PROVE  FreshFor(r)'
  BY DEF FreshFor
<1>1. Active(r)
  BY DEF Active
<1> DEFINE q == request[r]
<1>2. /\ q.account \in Accounts
      /\ q.changes \in Nat /\ q.changes <= changes
      /\ \A e \in Sources : SameKey(e, q) => e.page \in lately[r]
      /\ q.step = "found" /\ q.backend # "redis" => q.page \in lately[r]
      /\ q.step = "answered" =>
           IF q.backend = "redis" THEN q.page \subseteq UNION lately[r]
           ELSE q.page \in lately[r]
  BY <1>1 DEF FreshFor
<1>3. request'[r] = q
  OBVIOUS
<1> HIDE DEF q
<1>4. /\ lately[r] \subseteq lately'[r]
      /\ Directories'[q.account] \in lately'[r]
  BY <1>2, <1>3, Remembered DEF Active
<1>5. \A e \in Sources' : SameKey(e, q) => e.page \in lately'[r]
  BY <1>2, <1>4 DEF SameKey
<1>6. q.changes <= changes'
  BY <1>2
<1>7. UNION lately[r] \subseteq UNION lately'[r]
  BY <1>4
<1> QED
  BY <1>2, <1>3, <1>4, <1>5, <1>6, <1>7 DEF FreshFor, SameKey

(* Steps of other components *)
LEMMA OtherSteps ==
  ASSUME PageInv, Remember, UNCHANGED <<request, memory>>,
         \/ changes' = changes + 1 /\ up' = up
         \/ changes' = changes /\ up' = up /\ Directories' = Directories
  PROVE  PageInv'
<1>1. changes \in Nat /\ changes' \in Nat /\ changes <= changes'
  BY DEF PageInv, PagesTyped
<1>2. Sources' = Sources
  BY DEF Sources, KeyOf
<1>3. PagesTyped'
  BY <1>1 DEF PageInv, PagesTyped, Active, Entries
<1>4. SourcesTrue'
  BY <1>1, <1>2 DEF PageInv, SourcesTrue
<1>5. \A r \in Requests : FreshFor(r)'
  BY <1>1, <1>2, StillFresh DEF PageInv
<1> QED
  BY <1>3, <1>4, <1>5 DEF PageInv

(* One request moves: what must hold of it, for the invariant to survive. *)
SameQuestion(r, q) ==
  Active(r) /\ q.account = request[r].account /\ q.changes = request[r].changes

Moved(r, q) ==
  /\ up /\ Shaped(q)
  /\ q.step = "none" => q = NoRequest
  /\ q.step # "none" =>
       /\ q.account \in Accounts /\ q.changes \in Nat /\ q.changes <= changes
       /\ SameQuestion(r, q) \/ q.changes = changes
  /\ q.step = "loaded" => q.page = Directories[q.account]
  /\ q.step = "found" /\ q.backend # "redis" => q.page \in lately[r]
  /\ q.step = "answered" =>
       /\ Active(r)
       /\ IF q.backend = "redis" THEN q.page \subseteq UNION lately[r]
          ELSE q.page \in lately[r]

LEMMA OneMoves ==
  ASSUME PageInv, Remember, UNCHANGED <<changes, up>>,
         Directories' = Directories,
         NEW r \in Requests, NEW q, Moved(r, q), request'[r] = q,
         DOMAIN request' = Requests,
         \A p \in Requests : p # r => request'[p] = request[p],
         memory' \in Seq(Entries(memory')),
         \A e \in Entries(memory') : e \in Sources
  PROVE  PageInv'
<1> USE DEF PageInv
<1>1. /\ changes \in Nat /\ DOMAIN request = Requests
      /\ \A p \in Requests : /\ Shaped(request[p])
                             /\ ~Active(p) => request[p] = NoRequest
  BY DEF PagesTyped
<1>2. request'[r] = q /\ \A p \in Requests : p # r => request'[p] = request[p]
  OBVIOUS
<1>3. PagesTyped'
  <2>1. \A p \in Requests : /\ Shaped(request'[p])
                            /\ request'[p].step = "none" =>
                                 request'[p] = NoRequest
    BY <1>1, <1>2 DEF Moved, Active
  <2> QED
    BY <1>1, <2>1 DEF PagesTyped, Active, Moved
<1>4. \A e \in Sources' :
        \/ e \in Sources
        \/ /\ e.changes \in Nat /\ e.changes <= changes
           /\ e.page = Directories[e.account]
  <2> SUFFICES ASSUME NEW p \in Requests, request'[p].step = "loaded",
                      NEW e, e = KeyOf(request'[p])
               PROVE  \/ e \in Sources
                      \/ /\ e.changes \in Nat /\ e.changes <= changes
                         /\ e.page = Directories[e.account]
    BY DEF Sources, KeyOf
  <2>1. CASE p = r
    BY <1>2, <2>1 DEF Moved, KeyOf
  <2>2. CASE p # r
    BY <1>2, <2>2 DEF Sources
  <2> QED
    BY <2>1, <2>2
<1>5. SourcesTrue'
  BY <1>4 DEF SourcesTrue
<1>6. FreshFor(r)'
  <2> SUFFICES ASSUME q.step # "none" PROVE FreshFor(r)'
    BY <1>2 DEF FreshFor, Active
  <2>1. /\ q.account \in Accounts /\ q.changes \in Nat /\ q.changes <= changes
        /\ SameQuestion(r, q) \/ q.changes = changes
    BY DEF Moved
  <2>2. /\ lately[r] \subseteq lately'[r]
        /\ Directories'[q.account] \in lately'[r]
    BY <1>2, <2>1, Remembered
  <2>3. ASSUME NEW e \in Sources', SameKey(e, q)
        PROVE  e.page \in lately'[r]
    <3>1. CASE e \in Sources /\ q.changes = changes
      BY <2>1, <2>2, <2>3, <3>1 DEF SourcesTrue, SameKey
    <3>2. CASE e \in Sources /\ SameQuestion(r, q)
      BY <2>2, <2>3, <3>2 DEF FreshFor, SameQuestion, SameKey
    <3>3. CASE e.page = Directories[e.account]
      BY <2>2, <2>3, <3>3 DEF SameKey
    <3> QED
      BY <1>4, <2>1, <3>1, <3>2, <3>3
  <2>4. /\ q.step = "found" /\ q.backend # "redis" => q.page \in lately'[r]
        /\ q.step = "answered" =>
             IF q.backend = "redis" THEN q.page \subseteq UNION lately'[r]
             ELSE q.page \in lately'[r]
    BY <2>2 DEF Moved
  <2> QED
    BY <1>2, <2>1, <2>2, <2>3, <2>4 DEF FreshFor, SameKey
<1>7. ASSUME NEW p \in Requests, p # r
      PROVE  FreshFor(p)'
  BY <1>1, <1>2, <1>4, <1>7, StillFresh
<1> QED
  BY <1>3, <1>5, <1>6, <1>7

(* A step with a request leaves the question as it was.                      *)
Step(r, s, g) ==
  \/ request' = [request EXCEPT ![r].step = s] /\ g = request[r].page
  \/ request' = [request EXCEPT ![r].step = s, ![r].page = g]

LEMMA Stepped ==
  ASSUME DOMAIN request = Requests, NEW r \in Requests, Shaped(request[r]),
         NEW s, NEW g, Step(r, s, g)
  PROVE  /\ DOMAIN request' = Requests
         /\ \A p \in Requests : p # r => request'[p] = request[p]
         /\ Shaped(request'[r])
         /\ request'[r].step = s /\ request'[r].page = g
         /\ request'[r].account = request[r].account
         /\ request'[r].backend = request[r].backend
         /\ request'[r].changes = request[r].changes
<1>1. CASE request' = [request EXCEPT ![r].step = s] /\ g = request[r].page
  <2>1. request'[r] = [request[r] EXCEPT !.step = s]
    BY <1>1
  <2>2. \A p \in Requests : p # r => request'[p] = request[p]
    BY <1>1
  <2>3. DOMAIN request' = Requests
    BY <1>1
  <2>4. /\ Shaped(request'[r])
        /\ request'[r].step = s /\ request'[r].page = request[r].page
        /\ request'[r].account = request[r].account
        /\ request'[r].backend = request[r].backend
        /\ request'[r].changes = request[r].changes
    BY <2>1 DEF Shaped
  <2> QED
    BY <1>1, <2>2, <2>3, <2>4
<1>2. CASE request' = [request EXCEPT ![r].step = s, ![r].page = g]
  <2>1. request'[r] = [request[r] EXCEPT !.step = s, !.page = g]
    BY <1>2
  <2>2. \A p \in Requests : p # r => request'[p] = request[p]
    BY <1>2
  <2>3. DOMAIN request' = Requests
    BY <1>2
  <2>4. /\ Shaped(request'[r])
        /\ request'[r].step = s /\ request'[r].page = g
        /\ request'[r].account = request[r].account
        /\ request'[r].backend = request[r].backend
        /\ request'[r].changes = request[r].changes
    BY <2>1 DEF Shaped
  <2> QED
    BY <2>2, <2>3, <2>4
<1> QED
  BY <1>1, <1>2 DEF Step

LEMMA AnyMoves ==
  ASSUME PageInv, Remember, RequestNext
  PROVE  PageInv'
<1>1. /\ UNCHANGED <<changes, up>> /\ Directories' = Directories
      /\ changes \in Nat /\ DOMAIN request = Requests
  BY SameDirectories
     DEF RequestNext, BeginRequest, Hit, Miss, Recheck, LoadPage, Put,
         EndRequest, settingsVars, moderationVars, PageInv, PagesTyped
<1>2. memory \in Seq(Entries(memory)) /\ \A e \in Entries(memory) : e \in Sources
  BY DEF PageInv, PagesTyped, Sources
<1>3. \A r \in Requests : /\ Shaped(request[r])
                          /\ Active(r) => up /\ FreshFor(r)
  BY DEF PageInv, PagesTyped
<1>4. ASSUME NEW r \in Requests, NEW a \in Accounts, BeginRequest(r, a)
      PROVE  PageInv'
  <2> DEFINE q == [step |-> "keyed", account |-> a, cache |-> swaps,
                   backend |-> active.says.backend, changes |-> changes,
                   page |-> {}]
  <2>1. /\ request' = [request EXCEPT ![r] = q] /\ memory' = memory /\ up
    BY <1>4 DEF BeginRequest, Epoch, Serving
  <2>2. Moved(r, q)
    BY <1>1, <2>1 DEF Moved, Shaped
  <2> HIDE DEF q
  <2> QED
    BY <1>1, <1>2, <2>1, <2>2, OneMoves
<1>5. ASSUME NEW r \in Requests, NEW e \in Entries(memory) \cup Entries(redis),
             Hit(r, e)
      PROVE  PageInv'
  <2> DEFINE p == request[r]
             q == request'[r]
             s == "found"
             g == e.page
  <2>1. /\ p.step = "keyed"
        /\ \/ p.backend = "redis" /\ memory' = memory
           \/ /\ e \in Entries(memory) /\ SameKey(e, p)
              /\ memory' = Added(memory, e)
    BY <1>5 DEF Hit, InMemory, InRedis
  <2>2. up /\ FreshFor(r) /\ Shaped(p) /\ Active(r)
    BY <1>3, <2>1 DEF Active
  <2>3. /\ DOMAIN request' = Requests
        /\ \A o \in Requests : o # r => request'[o] = request[o]
        /\ Shaped(q) /\ q.step = s /\ q.page = g
        /\ q.account = p.account /\ q.backend = p.backend
        /\ q.changes = p.changes
    <3>1. Step(r, s, g)
      BY <1>5 DEF Hit, Step
    <3> HIDE DEF s, g
    <3> QED
      BY <1>1, <2>2, <3>1, Stepped
  <2>4. p.backend # "redis" => g \in lately[r]
    BY <1>2, <2>1, <2>2 DEF FreshFor
  <2>5. Moved(r, q)
    BY <2>2, <2>3, <2>4 DEF Moved, SameQuestion, FreshFor
  <2>6. /\ memory' \in Seq(Entries(memory'))
        /\ \A o \in Entries(memory') : o \in Sources
    <3>1. CASE memory' = memory
      BY <1>2, <3>1
    <3>2. CASE e \in Entries(memory) /\ memory' = Added(memory, e)
      <4>1. /\ memory' \in Seq(Entries(memory'))
            /\ Entries(memory') \subseteq Entries(memory) \cup {e}
        BY <1>2, <3>2, AddedEntries
      <4> QED
        BY <1>2, <3>2, <4>1
    <3> QED
      BY <2>1, <3>1, <3>2
  <2> QED
    BY <1>1, <2>3, <2>5, <2>6, OneMoves
<1>6. ASSUME NEW r \in Requests, Miss(r)
      PROVE  PageInv'
  <2> DEFINE p == request[r]
             q == request'[r]
             s == "missed"
             g == p.page
  <2>1. p.step = "keyed" /\ memory' = memory
    BY <1>6 DEF Miss
  <2>2. up /\ FreshFor(r) /\ Shaped(p) /\ Active(r)
    BY <1>3, <2>1 DEF Active
  <2>3. /\ DOMAIN request' = Requests
        /\ \A o \in Requests : o # r => request'[o] = request[o]
        /\ Shaped(q) /\ q.step = s /\ q.page = g
        /\ q.account = p.account /\ q.backend = p.backend
        /\ q.changes = p.changes
    <3>1. Step(r, s, g)
      BY <1>6 DEF Miss, Step
    <3> HIDE DEF s, g
    <3> QED
      BY <1>1, <2>2, <3>1, Stepped
  <2>4. Moved(r, q)
    BY <2>2, <2>3 DEF Moved, SameQuestion, FreshFor
  <2> QED
    BY <1>1, <1>2, <2>1, <2>3, <2>4, OneMoves
<1>7. ASSUME NEW r \in Requests, Recheck(r)
      PROVE  PageInv'
  <2> DEFINE p == request[r]
             q == request'[r]
             s == IF StillTrue(r) THEN "answered" ELSE "missed"
             g == p.page
  <2>1. p.step = "found" /\ memory' = memory
    BY <1>7 DEF Recheck
  <2>2. up /\ FreshFor(r) /\ Shaped(p) /\ Active(r)
    BY <1>3, <2>1 DEF Active
  <2>3. /\ DOMAIN request' = Requests
        /\ \A o \in Requests : o # r => request'[o] = request[o]
        /\ Shaped(q) /\ q.step = s /\ q.page = g
        /\ q.account = p.account /\ q.backend = p.backend
        /\ q.changes = p.changes
    <3>1. Step(r, s, g)
      BY <1>7 DEF Recheck, Step
    <3> HIDE DEF s, g
    <3> QED
      BY <1>1, <2>2, <3>1, Stepped
  <2>4. q.step = "answered" =>
          IF p.backend = "redis" THEN p.page \subseteq UNION lately[r]
          ELSE p.page \in lately[r]
    <3> SUFFICES ASSUME StillTrue(r)
                 PROVE  IF p.backend = "redis"
                        THEN p.page \subseteq UNION lately[r]
                        ELSE p.page \in lately[r]
      BY <2>3
    <3>1. p.page \subseteq Directories[p.account]
      BY <2>2 DEF StillTrue, Directories, FreshFor
    <3> QED
      BY <2>1, <2>2, <3>1 DEF FreshFor
  <2>5. Moved(r, q)
    BY <2>2, <2>3, <2>4 DEF Moved, SameQuestion, FreshFor
  <2> QED
    BY <1>1, <1>2, <2>1, <2>3, <2>5, OneMoves
<1>8. ASSUME NEW r \in Requests, LoadPage(r)
      PROVE  PageInv'
  <2> DEFINE p == request[r]
             q == request'[r]
             s == "loaded"
             g == Directory(p.account)
  <2>1. p.step = "missed" /\ memory' = memory
    BY <1>8 DEF LoadPage
  <2>2. up /\ FreshFor(r) /\ Shaped(p) /\ Active(r)
    BY <1>3, <2>1 DEF Active
  <2>3. /\ DOMAIN request' = Requests
        /\ \A o \in Requests : o # r => request'[o] = request[o]
        /\ Shaped(q) /\ q.step = s /\ q.page = g
        /\ q.account = p.account /\ q.backend = p.backend
        /\ q.changes = p.changes
    <3>1. Step(r, s, g)
      BY <1>8 DEF LoadPage, Step
    <3> HIDE DEF s, g
    <3> QED
      BY <1>1, <2>2, <3>1, Stepped
  <2>4. Moved(r, q)
    BY <2>2, <2>3 DEF Moved, SameQuestion, FreshFor, Directories
  <2> QED
    BY <1>1, <1>2, <2>1, <2>3, <2>4, OneMoves
<1>9. ASSUME NEW r \in Requests, NEW reached \in BOOLEAN, Put(r, reached)
      PROVE  PageInv'
  <2> DEFINE p == request[r]
             q == request'[r]
             s == "answered"
             g == p.page
  <2>1. /\ p.step = "loaded"
        /\ memory' = IF p.backend = "none" THEN memory
                     ELSE Added(memory, KeyOf(p))
    BY <1>9 DEF Put
  <2>2. up /\ FreshFor(r) /\ Shaped(p) /\ Active(r)
    BY <1>3, <2>1 DEF Active
  <2>3. /\ DOMAIN request' = Requests
        /\ \A o \in Requests : o # r => request'[o] = request[o]
        /\ Shaped(q) /\ q.step = s /\ q.page = g
        /\ q.account = p.account /\ q.backend = p.backend
        /\ q.changes = p.changes
    <3>1. Step(r, s, g)
      BY <1>9 DEF Put, Step
    <3> HIDE DEF s, g
    <3> QED
      BY <1>1, <2>2, <3>1, Stepped
  <2>4. KeyOf(p) \in Sources
    BY <2>1 DEF Sources
  <2>5. p.page \in lately[r]
    BY <2>2, <2>4 DEF FreshFor, KeyOf, SameKey
  <2>6. Moved(r, q)
    <3>1. IF p.backend = "redis" THEN p.page \subseteq UNION lately[r]
          ELSE p.page \in lately[r]
      BY <2>5
    <3> QED
      BY <2>2, <2>3, <3>1 DEF Moved, SameQuestion, FreshFor
  <2>7. /\ memory' \in Seq(Entries(memory'))
        /\ \A e \in Entries(memory') : e \in Sources
    <3>1. CASE p.backend = "none"
      BY <1>2, <2>1, <3>1
    <3>2. CASE p.backend # "none"
      <4> DEFINE k == KeyOf(p)
      <4>1. memory' = Added(memory, k)
        BY <2>1, <3>2
      <4>2. k \in Sources
        BY <2>4
      <4> HIDE DEF k
      <4>3. /\ memory' \in Seq(Entries(memory'))
            /\ Entries(memory') \subseteq Entries(memory) \cup {k}
        BY <1>2, <4>1, AddedEntries
      <4> QED
        BY <1>2, <4>2, <4>3
    <3> QED
      BY <3>1, <3>2
  <2> QED
    BY <1>1, <2>3, <2>6, <2>7, OneMoves
<1>10. ASSUME NEW r \in Requests, EndRequest(r)
       PROVE  PageInv'
  <2>1. /\ request[r].step = "answered" /\ memory' = memory
        /\ request' = [request EXCEPT ![r] = NoRequest]
    BY <1>10 DEF EndRequest
  <2>2. up
    BY <1>3, <2>1 DEF Active
  <2>3. Moved(r, NoRequest)
    BY <2>2 DEF Moved, Shaped, NoRequest
  <2> QED
    BY <1>1, <1>2, <2>1, <2>3, OneMoves
<1> QED
  BY <1>4, <1>5, <1>6, <1>7, <1>8, <1>9, <1>10 DEF RequestNext

(* When the process ends or starts, neither requests nor pages are there.     *)
LEMMA NothingKept ==
  ASSUME changes' \in Nat, memory' = <<>>, DOMAIN request' = Requests,
         \A r \in Requests : request'[r] = NoRequest
  PROVE  PageInv'
<1>1. Entries(memory)' = {} /\ memory' \in Seq(Entries(memory'))
  BY DEF Entries
<1>2. Sources' = {}
  BY <1>1 DEF Sources, NoRequest
<1>3. PagesTyped'
  BY <1>1 DEF PagesTyped, Active, Shaped, NoRequest
<1> QED
  BY <1>2, <1>3 DEF PageInv, SourcesTrue, FreshFor, Active, NoRequest

LEMMA PageInvInductive ==
  ASSUME PageInv, [Next]_vars
  PROVE  PageInv'
<1>1. changes \in Nat
  BY DEF PageInv, PagesTyped
<1>2. CASE UNCHANGED vars
  <2>1. Sources' = Sources /\ Directories' = Directories
    BY <1>2 DEF vars, Sources, KeyOf, catalogVars, settingsVars,
                moderationVars, Entries, Directories, Directory, HasRevision,
                Entry, Current, Blocked, Status
  <2> QED
    BY <1>2, <2>1 DEF vars, catalogVars, settingsVars, PageInv, PagesTyped,
                      SourcesTrue, FreshFor, Active, Entries
<1>3. CASE Killed
  BY <1>1, <1>3, NothingKept DEF Killed, CacheEnds, Kill
<1>4. CASE SettingsStep /\ Boot
  <2>1. /\ ~up /\ UNCHANGED <<memory, request>>
        /\ changes' = changes \/ changes' = changes + 1 \/ changes' = 0
    BY <1>4 DEF SettingsStep, Boot, catalogVars
  <2>2. /\ memory = <<>> /\ DOMAIN request = Requests
        /\ \A r \in Requests : request[r] = NoRequest
    BY <2>1 DEF PageInv, PagesTyped
  <2> QED
    BY <1>1, <2>1, <2>2, NothingKept
<1>5. CASE RequestNext /\ Remember
  BY <1>5, AnyMoves
<1>6. ASSUME Remember, ~(SettingsStep /\ Boot), ~Killed,
             UNCHANGED <<request, memory>>
      PROVE  PageInv'
  BY <1>1, <1>6, Counted, OtherSteps
<1>7. CASE Remember /\ (Installed \/ SettingsStep)
  BY <1>3, <1>4, <1>6, <1>7
     DEF Installed, CacheInstalled, SettingsStep, catalogVars
<1>8. CASE Remember /\ UNCHANGED catalogVars
  BY <1>3, <1>4, <1>6, <1>8 DEF catalogVars
<1> QED
  BY <1>2, <1>3, <1>5, <1>7, <1>8, Steps

LEMMA InitialPages ==
  ASSUME Init
  PROVE  PageInv
<1>1. /\ changes = 0 /\ memory = <<>>
      /\ request = [r \in Requests |-> NoRequest]
  BY DEF Init, SettingsInit, CatalogInit
<1>2. Entries(memory) = {} /\ memory \in Seq(Entries(memory))
  BY <1>1 DEF Entries
<1>3. Sources = {}
  BY <1>1, <1>2 DEF Sources, NoRequest
<1>4. PagesTyped
  BY <1>1, <1>2 DEF PagesTyped, Active, Shaped, NoRequest
<1> QED
  BY <1>1, <1>3, <1>4 DEF PageInv, SourcesTrue, FreshFor, Active, NoRequest

(* A page that is answered is the directory as it was at some moment of the  *)
(* request; of one that Redis may have kept nothing appears that was hidden  *)
(* throughout (catalog.rs list(), catalog_cache.rs).                          *)
THEOREM PagesAreFreshAlways == Spec => []PagesAreFresh
<1>1. Init => PageInv
  BY InitialPages
<1>2. PageInv /\ [Next]_vars => PageInv'
  BY PageInvInductive
<1>3. PageInv => PagesAreFresh
  BY DEF PageInv, PagesAreFresh, FreshFor, Active
<1> QED
  BY <1>1, <1>2, <1>3, PTL DEF Spec

----------------------------------------------------------------------------
(* Types. *)
Revision == [content : Contents, picture : Pictures]

RevisionsTyped == revisions \in [Assets -> Seq(Revision)]
MarksTyped ==
  /\ mark \in [Contents -> Marks \cup {Nil}]
  /\ deleted \subseteq Assets
  /\ accessible \in [Accounts -> SUBSET Assets]
Scans == [step : {"none", "upload", "rescan", "saved", "allowed"},
          content : Contents \cup {Nil}, asset : Assets \cup {Nil}]
Named(e) == e.step # "none" => e.content \in Contents /\ e.asset \in Assets
ScanTyped ==
  /\ scan \in [Scanners -> Scans]
  /\ \A s \in Scanners : Named(scan[s])
Renders == [step : {"none", "queued", "drawn", "open", "written", "renamed"},
            asset : Assets \cup {Nil}, revision : Nat, picture : Pictures,
            file : {"none", "temp", "stored", "gone"}]
Drawn(e) == e.step \in {"drawn", "open", "written", "renamed"}
RenderTyped ==
  /\ render \in [Renderers -> Renders]
  /\ \A r \in Renderers :
       /\ render[r].step # "none" =>
            /\ render[r].asset \in Assets
            /\ render[r].revision \in DOMAIN revisions[render[r].asset]
       /\ Drawn(render[r]) => render[r].picture \in Contents
FilesTyped == stored \in [Contents -> Files] /\ temp \in [Contents -> Files]

MediaInv ==
  RevisionsTyped /\ MarksTyped /\ ScanTyped /\ RenderTyped /\ FilesTyped

(* The current revision of an asset that has one. *)
LEMMA CurrentTyped ==
  ASSUME RevisionsTyped, NEW x \in Assets, HasRevision(x)
  PROVE  Current(x) \in Revision /\ Len(revisions[x]) \in DOMAIN revisions[x]
<1>1. revisions[x] \in Seq(Revision) /\ revisions[x] # <<>>
  BY DEF RevisionsTyped, HasRevision
<1>2. Len(revisions[x]) \in 1..Len(revisions[x])
  BY <1>1, EmptySeq
<1> QED
  BY <1>1, <1>2, ElementOfSeq DEF Current, Last

(* A picture is recorded for a revision there is, and changes no other. *)
LEMMA RecordedTyped ==
  ASSUME RevisionsTyped, RenderTyped,
         NEW r \in Renderers, render[r].step # "none",
         NEW p \in Pictures, Recorded(r, p)
  PROVE  /\ RevisionsTyped'
         /\ \A x \in Assets : DOMAIN revisions'[x] = DOMAIN revisions[x]
<1> DEFINE a == render[r].asset
           n == render[r].revision
<1>1. a \in Assets /\ n \in DOMAIN revisions[a]
  BY DEF RenderTyped
<1>2. revisions' = [revisions EXCEPT ![a][n].picture = p]
  BY DEF Recorded
<1> HIDE DEF a, n
<1>3. PICK v : v = [revisions[a] EXCEPT ![n].picture = p]
  OBVIOUS
<1>4. revisions[a] \in Seq(Revision)
  BY <1>1 DEF RevisionsTyped
<1>5. n \in 1..Len(revisions[a]) /\ revisions[a][n] \in Revision
  BY <1>1, <1>4, ElementOfSeq, LenProperties
<1>6. [revisions[a][n] EXCEPT !.picture = p] \in Revision
  BY <1>5 DEF Revision
<1>7. v = [revisions[a] EXCEPT ![n] = [revisions[a][n] EXCEPT !.picture = p]]
  BY <1>3
<1>8. v \in Seq(Revision)
  BY <1>4, <1>5, <1>6, <1>7, ExceptSeq
<1>9. DOMAIN v = DOMAIN revisions[a]
  BY <1>7
<1>10. revisions' = [revisions EXCEPT ![a] = v]
  BY <1>2, <1>3
<1> QED
  BY <1>1, <1>8, <1>9, <1>10 DEF RevisionsTyped

(* Revisions are appended, and lose none. *)
LEMMA RegisterTyped ==
  ASSUME RevisionsTyped, ScanTyped, NEW s \in Scanners, Register(s)
  PROVE  /\ RevisionsTyped'
         /\ \A x \in Assets : DOMAIN revisions[x] \subseteq DOMAIN revisions'[x]
<1> DEFINE a == scan[s].asset
           e == [content |-> scan[s].content, picture |-> Nil]
<1>1. a \in Assets /\ e \in Revision
  BY DEF Register, ScanTyped, Named, Revision, Pictures
<1>2. revisions' = [revisions EXCEPT ![a] = Append(revisions[a], e)]
  BY DEF Register
<1> HIDE DEF a, e
<1>3. revisions[a] \in Seq(Revision)
  BY <1>1 DEF RevisionsTyped
<1>4. /\ Append(revisions[a], e) \in Seq(Revision)
      /\ Len(Append(revisions[a], e)) = Len(revisions[a]) + 1
  BY <1>1, <1>3, AppendProperties
<1>5. DOMAIN revisions[a] \subseteq DOMAIN Append(revisions[a], e)
  BY <1>3, <1>4, LenProperties
<1> QED
  BY <1>1, <1>2, <1>4, <1>5 DEF RevisionsTyped

(* Steps of scans *)
LEMMA OneScan ==
  ASSUME MediaInv, NEW s \in Scanners, NEW e \in Scans, Named(e),
         scan' = [scan EXCEPT ![s] = e],
         UNCHANGED <<revisions, mark, deleted, accessible, pictureVars>>
  PROVE  MediaInv'
<1>1. ScanTyped'
  BY DEF MediaInv, ScanTyped
<1>2. RevisionsTyped' /\ MarksTyped' /\ FilesTyped'
  BY DEF MediaInv, RevisionsTyped, MarksTyped, FilesTyped, pictureVars
<1>3. RenderTyped'
  BY DEF MediaInv, RenderTyped, pictureVars
<1> QED
  BY <1>1, <1>2, <1>3 DEF MediaInv

LEMMA ScanKeeps ==
  ASSUME MediaInv, ScanNext
  PROVE  MediaInv'
<1>1. NoScan \in Scans /\ Named(NoScan)
  BY DEF Scans, Named, NoScan
<1>2. ASSUME NEW s \in Scanners
      PROVE  scan[s] \in Scans /\ Named(scan[s])
  BY DEF MediaInv, ScanTyped
<1>3. ASSUME NEW s \in Scanners, NEW x \in Assets, NEW c \in Contents,
             StartUpload(s, x, c)
      PROVE  MediaInv'
  <2>1. [step |-> "upload", content |-> c, asset |-> x] \in Scans
    BY DEF Scans
  <2> QED
    BY <1>3, <2>1, OneScan DEF StartUpload, moderationVars, Named
<1>4. ASSUME NEW s \in Scanners, NEW x \in Assets, StartRescan(s, x)
      PROVE  MediaInv'
  <2> DEFINE e == [step |-> "rescan", content |-> Current(x).content, asset |-> x]
  <2>1. Current(x).content \in Contents
    BY <1>4, CurrentTyped DEF StartRescan, MediaInv, Revision
  <2>2. e \in Scans /\ Named(e)
    BY <2>1 DEF Scans, Named
  <2>3. /\ scan' = [scan EXCEPT ![s] = e]
        /\ UNCHANGED <<revisions, mark, deleted, accessible, pictureVars>>
    BY <1>4 DEF StartRescan
  <2> HIDE DEF e
  <2> QED
    BY <2>2, <2>3, OneScan
<1>5. ASSUME NEW s \in Scanners, NEW v \in Verdicts, SaveScan(s, v)
      PROVE  MediaInv'
  <2> DEFINE e == IF scan[s].step = "rescan" THEN NoScan
                  ELSE [scan[s] EXCEPT !.step = "saved"]
  <2>1. e \in Scans /\ Named(e)
    BY <1>1, <1>2, <1>5 DEF SaveScan, Scans, Named
  <2>2. /\ scan' = [scan EXCEPT ![s] = e]
        /\ UNCHANGED <<revisions, mark, deleted, accessible, pictureVars>>
    BY <1>5 DEF SaveScan
  <2> HIDE DEF e
  <2> QED
    BY <2>1, <2>2, OneScan
<1>6. ASSUME NEW s \in Scanners, EnforcePolicy(s)
      PROVE  MediaInv'
  <2> DEFINE e == IF Blocked(scan[s].content) THEN NoScan
                  ELSE [scan[s] EXCEPT !.step = "allowed"]
  <2>1. e \in Scans /\ Named(e)
    BY <1>1, <1>2, <1>6 DEF EnforcePolicy, Scans, Named
  <2>2. /\ scan' = [scan EXCEPT ![s] = e]
        /\ UNCHANGED <<revisions, mark, deleted, accessible, pictureVars>>
    BY <1>6 DEF EnforcePolicy
  <2> HIDE DEF e
  <2> QED
    BY <2>1, <2>2, OneScan
<1>7. ASSUME NEW s \in Scanners, Register(s)
      PROVE  MediaInv'
  <2>1. /\ RevisionsTyped'
        /\ \A x \in Assets : DOMAIN revisions[x] \subseteq DOMAIN revisions'[x]
    BY <1>7, RegisterTyped DEF MediaInv
  <2>2. /\ scan' = [scan EXCEPT ![s] = NoScan]
        /\ UNCHANGED <<mark, deleted, accessible, render, stored, temp>>
    BY <1>7 DEF Register, pictureVars
  <2>3. ScanTyped'
    BY <1>1, <2>2 DEF MediaInv, ScanTyped
  <2>4. RenderTyped'
    BY <2>1, <2>2 DEF MediaInv, RenderTyped
  <2>5. MarksTyped' /\ FilesTyped'
    BY <2>2 DEF MediaInv, MarksTyped, FilesTyped
  <2> QED
    BY <2>1, <2>3, <2>4, <2>5 DEF MediaInv
<1> QED
  BY <1>3, <1>4, <1>5, <1>6, <1>7 DEF ScanNext

(* Steps of administrators *)
LEMMA AdminKeeps ==
  ASSUME MediaInv, AdminNext
  PROVE  MediaInv'
<1>1. UNCHANGED <<revisions, scan, render, stored, temp>>
  BY Zenon DEF AdminNext, Mark, DeleteOrRestore, ChangeAccess, pictureVars
<1>2. MarksTyped'
  <2>1. ASSUME NEW x \in Assets, NEW m \in Marks \cup {Nil}, Mark(x, m)
        PROVE  MarksTyped'
    BY <2>1 DEF Mark, MarksTyped, MediaInv
  <2>2. ASSUME NEW x \in Assets, NEW restore \in BOOLEAN,
               DeleteOrRestore(x, restore)
        PROVE  MarksTyped'
    BY <2>2 DEF DeleteOrRestore, MarksTyped, MediaInv
  <2>3. ASSUME NEW a \in Accounts, NEW x \in Assets, ChangeAccess(a, x)
        PROVE  MarksTyped'
    BY <2>3 DEF ChangeAccess, MarksTyped, MediaInv
  <2> QED
    BY <2>1, <2>2, <2>3 DEF AdminNext
<1> QED
  BY <1>1, <1>2
     DEF MediaInv, RevisionsTyped, ScanTyped, RenderTyped, FilesTyped

(* Steps of renderers *)
Media == <<mark, deleted, accessible, scan>>

LEMMA OneRender ==
  ASSUME MediaInv, NEW r \in Renderers, NEW e \in Renders,
         render' = [render EXCEPT ![r] = e],
         e.step # "none" =>
           /\ e.asset \in Assets
           /\ e.revision \in DOMAIN revisions[e.asset],
         Drawn(e) => e.picture \in Contents,
         UNCHANGED Media,
         RevisionsTyped', FilesTyped',
         \A x \in Assets : DOMAIN revisions'[x] = DOMAIN revisions[x]
  PROVE  MediaInv'
<1>1. RenderTyped'
  BY DEF MediaInv, RenderTyped
<1>2. MarksTyped' /\ ScanTyped'
  BY DEF MediaInv, MarksTyped, ScanTyped, Media
<1> QED
  BY <1>1, <1>2 DEF MediaInv

LEMMA RenderKeeps ==
  ASSUME MediaInv, RenderNext
  PROVE  MediaInv'
<1>1. NoRender \in Renders /\ NoRender.step = "none" /\ ~Drawn(NoRender)
  BY DEF Renders, NoRender, Pictures, Drawn
<1>2. ASSUME NEW r \in Renderers
      PROVE  /\ render[r] \in Renders
             /\ render[r].step # "none" =>
                  /\ render[r].asset \in Assets
                  /\ render[r].revision \in DOMAIN revisions[render[r].asset]
             /\ Drawn(render[r]) => render[r].picture \in Contents
  BY DEF MediaInv, RenderTyped
<1>3. UNCHANGED <<revisions, stored, temp>> =>
        /\ RevisionsTyped' /\ FilesTyped'
        /\ \A x \in Assets : DOMAIN revisions'[x] = DOMAIN revisions[x]
  BY DEF MediaInv, RevisionsTyped, FilesTyped
<1>4. ASSUME NEW r \in Renderers, NEW x \in Assets, QueueRender(r, x)
      PROVE  MediaInv'
  <2> DEFINE e == [NoRender EXCEPT !.step = "queued", !.asset = x,
                                   !.revision = Len(revisions[x])]
  <2>1. HasRevision(x)
    BY <1>4 DEF QueueRender
  <2>2. Len(revisions[x]) \in Nat /\ Len(revisions[x]) \in DOMAIN revisions[x]
    <3>1. revisions[x] \in Seq(Revision)
      BY DEF MediaInv, RevisionsTyped
    <3> QED
      BY <2>1, <3>1, LenProperties, CurrentTyped DEF MediaInv
  <2>3. /\ e \in Renders /\ ~Drawn(e)
        /\ e.asset = x /\ e.revision = Len(revisions[x])
    BY <2>2 DEF Renders, NoRender, Pictures, Drawn
  <2>4. /\ render' = [render EXCEPT ![r] = e]
        /\ UNCHANGED Media /\ UNCHANGED <<revisions, stored, temp>>
    BY <1>4 DEF QueueRender, moderationVars, Media
  <2> HIDE DEF e
  <2> QED
    BY <1>3, <2>2, <2>3, <2>4, OneRender
<1>5. ASSUME NEW r \in Renderers, Draw(r)
      PROVE  MediaInv'
  <2> DEFINE c == Current(render[r].asset).content
             e == [render[r] EXCEPT !.step = "drawn", !.picture = c]
  <2>1. render[r].step = "queued"
    BY <1>5 DEF Draw
  <2>2. c \in Contents
    <3>1. render[r].asset \in Assets /\ HasRevision(render[r].asset)
      BY <1>2, <2>1 DEF HasRevision
    <3> QED
      BY <3>1, CurrentTyped DEF MediaInv, Revision
  <2>3. /\ render' = [render EXCEPT ![r].step = "drawn", ![r].picture = c]
        /\ UNCHANGED Media /\ UNCHANGED <<revisions, stored, temp>>
    BY <1>5 DEF Draw, moderationVars, Media
  <2> HIDE DEF c
  <2>4. /\ e \in Renders /\ e.picture = c
        /\ e.asset = render[r].asset /\ e.revision = render[r].revision
    BY <1>2, <2>2 DEF Renders, Pictures
  <2>5. render' = [render EXCEPT ![r] = e]
    BY <2>3 DEF MediaInv, RenderTyped
  <2> HIDE DEF e
  <2> QED
    BY <1>2, <1>3, <2>1, <2>2, <2>3, <2>4, <2>5, OneRender
<1>6. ASSUME NEW r \in Renderers, OpenPicture(r)
      PROVE  MediaInv'
  <2> DEFINE e == [render[r] EXCEPT !.step = "open", !.file = "temp"]
  <2>1. /\ render[r].step = "drawn"
        /\ render' = [render EXCEPT ![r].step = "open", ![r].file = "temp"]
        /\ temp' = [temp EXCEPT ![render[r].picture] = "partial"]
        /\ UNCHANGED Media /\ UNCHANGED <<revisions, stored>>
    BY <1>6 DEF OpenPicture, moderationVars, Media
  <2>2. /\ e \in Renders /\ e.picture = render[r].picture
        /\ e.asset = render[r].asset /\ e.revision = render[r].revision
    BY <1>2 DEF Renders
  <2>3. render' = [render EXCEPT ![r] = e]
    BY <2>1 DEF MediaInv, RenderTyped
  <2>4. FilesTyped' /\ RevisionsTyped'
    BY <2>1 DEF MediaInv, FilesTyped, Files, RevisionsTyped
  <2> HIDE DEF e
  <2> QED
    BY <1>2, <2>1, <2>2, <2>3, <2>4, OneRender DEF Drawn
<1>7. ASSUME NEW r \in Renderers, WritePicture(r)
      PROVE  MediaInv'
  <2> DEFINE e == [render[r] EXCEPT !.step = "written"]
             c == render[r].picture
  <2>1. /\ render[r].step = "open"
        /\ render' = [render EXCEPT ![r].step = "written"]
        /\ temp' = [temp EXCEPT ![c] = "whole"] \/ temp' = temp
        /\ stored' = [stored EXCEPT ![c] = "whole"] \/ stored' = stored
        /\ UNCHANGED Media /\ UNCHANGED revisions
    BY <1>7 DEF WritePicture, moderationVars, Media
  <2>2. /\ e \in Renders /\ e.picture = render[r].picture
        /\ e.asset = render[r].asset /\ e.revision = render[r].revision
    BY <1>2 DEF Renders
  <2>3. render' = [render EXCEPT ![r] = e]
    BY <2>1 DEF MediaInv, RenderTyped
  <2>4. FilesTyped' /\ RevisionsTyped'
    BY <2>1 DEF MediaInv, FilesTyped, Files, RevisionsTyped
  <2> HIDE DEF e
  <2> QED
    BY <1>2, <2>1, <2>2, <2>3, <2>4, OneRender DEF Drawn
<1>8. ASSUME NEW r \in Renderers, NEW p \in Pictures, Recorded(r, p),
             render[r].step # "none",
             render' = [render EXCEPT ![r] = NoRender],
             UNCHANGED Media, UNCHANGED <<stored, temp>>
      PROVE  MediaInv'
  <2>1. /\ RevisionsTyped'
        /\ \A x \in Assets : DOMAIN revisions'[x] = DOMAIN revisions[x]
    BY <1>8, RecordedTyped DEF MediaInv
  <2>2. FilesTyped'
    BY <1>8 DEF MediaInv, FilesTyped
  <2> QED
    BY <1>1, <1>8, <2>1, <2>2, OneRender
<1>9. ASSUME NEW r \in Renderers, GiveUpRender(r)
      PROVE  MediaInv'
  BY <1>8, <1>9 DEF GiveUpRender, Pictures, Media
<1>10. ASSUME NEW r \in Renderers, RecordPicture(r)
       PROVE  MediaInv'
  BY <1>2, <1>8, <1>10 DEF RecordPicture, Pictures, Drawn, Media
<1>11. ASSUME NEW r \in Renderers, RenamePicture(r)
       PROVE  MediaInv'
  <2> DEFINE c == render[r].picture
  <2>1. UNCHANGED Media /\ revisions' = revisions
    BY <1>11 DEF RenamePicture, moderationVars, Media
  <2>2. CASE render' = [render EXCEPT ![r] = NoRender] /\ UNCHANGED <<stored, temp>>
    BY <1>1, <1>3, <2>1, <2>2, OneRender
  <2>3. CASE /\ stored' = [stored EXCEPT ![c] = temp[c]]
             /\ temp' = [temp EXCEPT ![c] = "none"]
             /\ render' = [q \in Renderers |->
                   IF render[q].picture # c THEN render[q]
                   ELSE [render[q] EXCEPT
                          !.file = Renamed(@),
                          !.step = IF q = r THEN "renamed" ELSE @]]
    <3>1. c \in Contents /\ render[r].step = "written"
      BY <1>2, <1>11 DEF RenamePicture, Drawn
    <3>2. FilesTyped'
      BY <2>3, <3>1 DEF MediaInv, FilesTyped, Files
    <3>3. RevisionsTyped' /\ MarksTyped' /\ ScanTyped'
      BY <2>1 DEF MediaInv, RevisionsTyped, MarksTyped, ScanTyped, Media
    <3>4. ASSUME NEW q \in Renderers
          PROVE  /\ render'[q] \in Renders
                 /\ render'[q].asset = render[q].asset
                 /\ render'[q].revision = render[q].revision
                 /\ render'[q].picture = render[q].picture
                 /\ \/ render'[q].step = render[q].step
                    \/ q = r /\ render'[q].step = "renamed"
      <4>1. render[q] \in Renders
        BY <1>2
      <4>2. Renamed(render[q].file) \in {"none", "temp", "stored", "gone"}
        BY <4>1 DEF Renders, Renamed
      <4> DEFINE f == Renamed(render[q].file)
                 w == IF q = r THEN "renamed" ELSE render[q].step
      <4>3. \/ render'[q] = render[q]
            \/ render'[q] = [render[q] EXCEPT !.file = f, !.step = w]
        BY <2>3, Zenon
      <4>4. \/ w = render[q].step
            \/ q = r /\ w = "renamed"
        OBVIOUS
      <4> HIDE DEF f, w
      <4>5. CASE render'[q] = render[q]
        BY <4>1, <4>5
      <4>6. CASE render'[q] = [render[q] EXCEPT !.file = f, !.step = w]
        <5>1. f \in {"none", "temp", "stored", "gone"}
          BY <4>2 DEF f
        <5> QED
          BY <4>1, <4>4, <4>6, <5>1 DEF Renders
      <4> QED
        BY <4>3, <4>5, <4>6
    <3>5. render' \in [Renderers -> Renders]
      BY <2>3, <3>4
    <3>6. RenderTyped'
      BY <1>2, <2>1, <3>1, <3>4, <3>5 DEF RenderTyped, Drawn
    <3> QED
      BY <3>2, <3>3, <3>6 DEF MediaInv
  <2> QED
    BY <1>11, <2>2, <2>3 DEF RenamePicture
<1> QED
  BY <1>4, <1>5, <1>6, <1>7, <1>9, <1>10, <1>11 DEF RenderNext

LEMMA MediaInductive ==
  ASSUME MediaInv, [Next]_vars
  PROVE  MediaInv'
<1> USE DEF MediaInv, RevisionsTyped, MarksTyped, ScanTyped, RenderTyped,
            FilesTyped
<1>1. CASE UNCHANGED <<mark, scan, revisions, deleted, accessible, pictureVars>>
  BY <1>1 DEF pictureVars
<1>2. CASE Killed
  <2>1. /\ UNCHANGED <<mark, revisions, deleted, accessible, stored, temp>>
        /\ scan' = [s \in Scanners |-> NoScan]
        /\ render' = [r \in Renderers |->
             IF render[r].step \in {"queued", "drawn"} THEN render[r]
             ELSE NoRender]
    BY <1>2 DEF Killed, ScansEnd
  <2>2. NoScan \in Scans /\ Named(NoScan)
    BY DEF Scans, Named, NoScan
  <2>3. NoRender \in Renders /\ NoRender.step = "none" /\ ~Drawn(NoRender)
    BY DEF Renders, NoRender, Pictures, Drawn
  <2>4. RenderTyped'
    BY <2>1, <2>3
  <2>5. ScanTyped'
    BY <2>1, <2>2
  <2> QED
    BY <2>1, <2>4, <2>5
<1>3. CASE ScanNext \/ AdminNext \/ RenderNext
  BY <1>3, ScanKeeps, AdminKeeps, RenderKeeps
<1>4. CASE UNCHANGED vars
  BY <1>1, <1>4 DEF vars, moderationVars
<1>5. CASE Installed \/ SettingsStep
  BY <1>1, <1>5 DEF Installed, SettingsStep, moderationVars
<1>6. CASE RequestNext
  <2>1. UNCHANGED <<moderationVars, pictureVars>>
    BY <1>6, Zenon DEF RequestNext, BeginRequest, Hit, Miss, Recheck, LoadPage,
                       Put, EndRequest
  <2> QED
    BY <1>1, <2>1 DEF moderationVars
<1> QED
  BY <1>2, <1>3, <1>4, <1>5, <1>6, Steps

(* What requests and caches are made of. *)
CatalogInv == PageInv /\ CatalogTypeOK

LEMMA CatalogKept ==
  ASSUME CatalogInv, [Next]_vars
  PROVE  CatalogInv'
<1>1. PageInv /\ PageInv'
  BY PageInvInductive DEF CatalogInv
<1>2. /\ swaps \in Nat
      /\ DOMAIN request = Requests
      /\ \A r \in Requests : Shaped(request[r])
      /\ \A r \in Requests : request[r].step \in
           {"none", "keyed", "found", "missed", "loaded", "answered"}
  BY <1>1 DEF CatalogInv, CatalogTypeOK, PageInv, PagesTyped
<1>3. CASE UNCHANGED <<swaps, request>>
  BY <1>1, <1>3 DEF CatalogInv, CatalogTypeOK
<1>4. CASE Killed
  BY <1>1, <1>4 DEF Killed, CacheEnds, CatalogInv, CatalogTypeOK, NoRequest
<1>5. CASE Installed
  BY <1>1, <1>2, <1>5 DEF Installed, CacheInstalled, CatalogInv, CatalogTypeOK
<1>6. CASE RequestNext
  <2>1. swaps' = swaps
    BY <1>6, Zenon DEF RequestNext, BeginRequest, Hit, Miss, Recheck, LoadPage,
                       Put, EndRequest
  <2>2. ASSUME NEW r \in Requests, NEW s, NEW g, Step(r, s, g),
               s \in {"found", "missed", "loaded", "answered"}
        PROVE  CatalogInv'
    <3>1. /\ request'[r].step = s
          /\ \A p \in Requests : p # r => request'[p] = request[p]
      BY <1>2, <2>2, Stepped
    <3> QED
      BY <1>1, <1>2, <2>1, <2>2, <3>1 DEF CatalogInv, CatalogTypeOK
  <2>3. ASSUME NEW r \in Requests, NEW a \in Accounts, BeginRequest(r, a)
        PROVE  CatalogInv'
    <3>1. /\ request'[r].step = "keyed"
          /\ \A p \in Requests : p # r => request'[p] = request[p]
      BY <1>2, <2>3 DEF BeginRequest
    <3> QED
      BY <1>1, <1>2, <2>1, <3>1 DEF CatalogInv, CatalogTypeOK
  <2>4. ASSUME NEW r \in Requests, EndRequest(r)
        PROVE  CatalogInv'
    <3>1. /\ request'[r] = NoRequest
          /\ \A p \in Requests : p # r => request'[p] = request[p]
      BY <1>2, <2>4 DEF EndRequest
    <3> QED
      BY <1>1, <1>2, <2>1, <3>1 DEF CatalogInv, CatalogTypeOK, NoRequest
  <2>5. ASSUME NEW r \in Requests, NEW e, Hit(r, e)
        PROVE  CatalogInv'
    BY <2>2, <2>5 DEF Hit, Step
  <2>6. ASSUME NEW r \in Requests, Miss(r)
        PROVE  CatalogInv'
    BY <2>2, <2>6 DEF Miss, Step
  <2>7. ASSUME NEW r \in Requests, Recheck(r)
        PROVE  CatalogInv'
    BY <2>2, <2>7 DEF Recheck, Step
  <2>8. ASSUME NEW r \in Requests, LoadPage(r)
        PROVE  CatalogInv'
    BY <2>2, <2>8 DEF LoadPage, Step
  <2>9. ASSUME NEW r \in Requests, NEW reached \in BOOLEAN, Put(r, reached)
        PROVE  CatalogInv'
    BY <2>2, <2>9 DEF Put, Step
  <2> QED
    BY <1>6, <2>3, <2>4, <2>5, <2>6, <2>7, <2>8, <2>9 DEF RequestNext
<1>7. CASE UNCHANGED vars
  BY <1>3, <1>7 DEF vars, catalogVars
<1>8. CASE SettingsStep \/ UNCHANGED catalogVars
  BY <1>3, <1>8 DEF SettingsStep, catalogVars
<1> QED
  BY <1>4, <1>5, <1>6, <1>7, <1>8, Steps

TypesInv == SettingsTyped /\ VerdictInv /\ MediaInv /\ CatalogInv

LEMMA TypesAlways == Spec => []TypesInv
<1>1. Init => TypesInv
  <2> SUFFICES ASSUME Init
               PROVE  TypesInv
    OBVIOUS
  <2>1. SettingsTyped
    BY InitialSettings DEF Init, SettingsInv
  <2>2. VerdictInv
    BY NoVerdict DEF Init, ModerationInit, VerdictInv, VerdictsCommute
  <2>3. RevisionsTyped
    <3>1. <<>> \in Seq(Revision)
      BY EmptySeq
    <3> QED
      BY <3>1 DEF Init, ModerationInit, RevisionsTyped
  <2>4. ScanTyped
    BY DEF Init, ModerationInit, ScanTyped, Scans, Named, NoScan
  <2>5. RenderTyped
    BY DEF Init, ModerationInit, RenderTyped, Renders, Drawn, NoRender, Pictures
  <2>6. MarksTyped /\ FilesTyped
    BY DEF Init, ModerationInit, MarksTyped, FilesTyped, Files
  <2>7. CatalogInv
    <3>1. PageInv
      BY InitialPages
    <3> QED
      BY <3>1 DEF Init, CatalogInit, CatalogInv, CatalogTypeOK, NoRequest
  <2> QED
    BY <2>1, <2>2, <2>3, <2>4, <2>5, <2>6, <2>7 DEF MediaInv, TypesInv
<1>2. TypesInv /\ [Next]_vars => TypesInv'
  <2>1. VerdictInv /\ [Next]_vars => VerdictInv'
    BY VerdictSteps
  <2> QED
    BY <2>1, TypesKept, MediaInductive, CatalogKept DEF TypesInv
<1> QED
  BY <1>1, <1>2, PTL DEF Spec

(* Types are kept: settings, contents, revisions, files and requests are what *)
(* their tables, structs and files can hold, and a renderer draws and hands   *)
(* in for a revision there is (config_apply.rs, moderation.rs, thumbnails.rs, *)
(* catalog.rs).                                                               *)
THEOREM TypeCorrect == Spec => []TypeOK
<1>1. TypesInv => TypeOK
  <2>1. SettingsTyped => SettingsTypeOK
    BY DEF SettingsTyped, SettingsTypeOK, JobTyped, Contained
  <2>2. VerdictInv /\ MediaInv => ModerationTypeOK
    BY DEF VerdictInv, MediaInv, RevisionsTyped, MarksTyped, FilesTyped,
           ModerationTypeOK, Revision
  <2>3. CatalogInv => CatalogTypeOK
    BY DEF CatalogInv
  <2> QED
    BY <2>1, <2>2, <2>3 DEF TypeOK, TypesInv
<1> QED
  BY <1>1, TypesAlways, PTL
----------------------------------------------------------------------------
(* Pictures of renderers that keep apart.                                    *)
Writers ==
  \A r \in Renderers :
    /\ Writing(r) => render[r].file = "temp"
    /\ render[r].step = "written" => temp[render[r].picture] = "whole"
    /\ render[r].step = "renamed" => stored[render[r].picture] = "whole"

LEMMA RecordedPictures ==
  ASSUME MediaInv, NEW r \in Renderers, render[r].step # "none",
         NEW p, Recorded(r, p),
         NEW x \in Assets, NEW n \in DOMAIN revisions'[x]
  PROVE  /\ n \in DOMAIN revisions[x]
         /\ revisions'[x][n].picture \in {p, revisions[x][n].picture}
<1> DEFINE a == render[r].asset
           k == render[r].revision
<1>1. a \in Assets /\ k \in DOMAIN revisions[a]
  BY DEF MediaInv, RenderTyped
<1>2. revisions' = [revisions EXCEPT ![a][k].picture = p]
  BY DEF Recorded
<1> HIDE DEF a, k
<1>3. DOMAIN revisions = Assets /\ revisions[x] \in Seq(Revision)
  BY DEF MediaInv, RevisionsTyped
<1>4. n \in DOMAIN revisions[x]
  BY <1>1, <1>2, <1>3
<1>5. revisions[x][n] \in Revision
  BY <1>3, <1>4, ElementOfSeq, LenProperties
<1>6. CASE x = a /\ n = k
  <2>1. revisions'[x][n] = [revisions[x][n] EXCEPT !.picture = p]
    BY <1>1, <1>2, <1>3, <1>4, <1>6
  <2> QED
    BY <1>4, <1>5, <2>1 DEF Revision
<1>7. CASE ~(x = a /\ n = k)
  BY <1>1, <1>2, <1>3, <1>4, <1>7
<1> QED
  BY <1>6, <1>7

(* No picture is recorded, and what was recorded keeps its file.             *)
LEMMA NothingRecorded ==
  ASSUME PicturesAreWhole, revisions' = revisions,
         \A c \in Contents : stored[c] = "whole" => stored'[c] = "whole"
  PROVE  PicturesAreWhole'
BY DEF PicturesAreWhole

LEMMA RegisteredPictures ==
  ASSUME MediaInv, PicturesAreWhole, NEW s \in Scanners, Register(s)
  PROVE  PicturesAreWhole'
<1> DEFINE a == scan[s].asset
           e == [content |-> scan[s].content, picture |-> Nil]
<1>1. a \in Assets /\ e \in Revision /\ e.picture \notin Contents
  BY ContentAssumption
     DEF Register, MediaInv, ScanTyped, Named, Revision, Pictures
<1>2. revisions' = [revisions EXCEPT ![a] = Append(revisions[a], e)] /\ stored' = stored
  BY DEF Register, pictureVars
<1> HIDE DEF a, e
<1>3. SUFFICES ASSUME NEW x \in Assets, NEW n \in DOMAIN revisions'[x],
                      revisions'[x][n].picture \in Contents
               PROVE  stored[revisions'[x][n].picture] = "whole"
  BY <1>2 DEF PicturesAreWhole
<1>4. DOMAIN revisions = Assets /\ revisions[x] \in Seq(Revision)
  BY DEF MediaInv, RevisionsTyped
<1>5. CASE x # a
  BY <1>2, <1>3, <1>4, <1>5 DEF PicturesAreWhole
<1>6. CASE x = a
  <2>1. revisions'[x] = Append(revisions[x], e)
    BY <1>2, <1>4, <1>6
  <2>2. n \in 1..(Len(revisions[x]) + 1)
    BY <1>1, <1>4, <2>1, AppendProperties, LenProperties
  <2>3. n # Len(revisions[x]) + 1
    BY <1>1, <1>3, <1>4, <2>1, AppendProperties
  <2>4. n \in 1..Len(revisions[x]) /\ Len(revisions[x]) \in Nat
    BY <1>4, <2>2, <2>3, LenProperties
  <2>5. revisions'[x][n] = revisions[x][n] /\ n \in DOMAIN revisions[x]
    BY <1>1, <1>4, <2>1, <2>4, AppendProperties, LenProperties
  <2> QED
    BY <1>3, <2>5 DEF PicturesAreWhole
<1> QED
  BY <1>5, <1>6

LEMMA WritersStep ==
  ASSUME MediaInv, Apart, Apart', Writers, PicturesAreWhole, RenderNext
  PROVE  Writers' /\ PicturesAreWhole'
<1>1. /\ render \in [Renderers -> Renders]
      /\ \A q \in Renderers : Drawn(render[q]) => render[q].picture \in Contents
      /\ DOMAIN stored = Contents /\ DOMAIN temp = Contents
  BY DEF MediaInv, RenderTyped, FilesTyped
<1>2. ASSUME NEW r \in Renderers, NEW x \in Assets, QueueRender(r, x)
      PROVE  Writers' /\ PicturesAreWhole'
  <2>1. /\ render' = [render EXCEPT ![r] = [NoRender EXCEPT
              !.step = "queued", !.asset = x, !.revision = Len(revisions[x])]]
        /\ UNCHANGED <<revisions, stored, temp>>
    BY <1>2 DEF QueueRender, moderationVars
  <2>2. Writers'
    BY <1>1, <2>1 DEF Writers, Writing, NoRender
  <2> QED
    BY <2>1, <2>2, NothingRecorded
<1>3. ASSUME NEW r \in Renderers, Draw(r)
      PROVE  Writers' /\ PicturesAreWhole'
  <2>1. /\ \A q \in Renderers \ {r} : render'[q] = render[q]
        /\ render'[r].step = "drawn"
        /\ UNCHANGED <<revisions, stored, temp>>
    BY <1>1, <1>3 DEF Draw, moderationVars, Renders
  <2>2. Writers'
    BY <2>1 DEF Writers, Writing
  <2> QED
    BY <2>1, <2>2, NothingRecorded
<1>4. ASSUME NEW r \in Renderers, OpenPicture(r)
      PROVE  Writers' /\ PicturesAreWhole'
  <2>1. /\ \A q \in Renderers \ {r} : render'[q] = render[q]
        /\ render'[r].step = "open" /\ render'[r].file = "temp"
        /\ render'[r].picture = render[r].picture
        /\ temp' = [temp EXCEPT ![render[r].picture] = "partial"]
        /\ UNCHANGED <<revisions, stored>>
    BY <1>1, <1>4 DEF OpenPicture, moderationVars, Renders
  <2>2. \A q \in Renderers \ {r} :
          render[q].step = "written" => render[q].picture # render[r].picture
    BY <2>1 DEF Apart, Writing
  <2>3. Writers'
    BY <1>1, <2>1, <2>2 DEF Writers, Writing, Drawn
  <2> QED
    BY <2>1, <2>3, NothingRecorded
<1>5. ASSUME NEW r \in Renderers, WritePicture(r)
      PROVE  Writers' /\ PicturesAreWhole'
  <2>1. /\ \A q \in Renderers \ {r} : render'[q] = render[q]
        /\ render[r].step = "open" /\ render'[r].step = "written"
        /\ render'[r].file = render[r].file
        /\ render'[r].picture = render[r].picture
        /\ render[r].file = "temp"
    BY <1>1, <1>5 DEF WritePicture, Renders, Writers, Writing
  <2>2. /\ temp' = [temp EXCEPT ![render[r].picture] = "whole"]
        /\ UNCHANGED <<revisions, stored>>
    BY <1>5, <2>1 DEF WritePicture, moderationVars
  <2>3. Writers'
    BY <1>1, <2>1, <2>2 DEF Writers, Writing, Drawn
  <2> QED
    BY <2>2, <2>3, NothingRecorded
<1>6. ASSUME NEW r \in Renderers, RenamePicture(r)
      PROVE  Writers' /\ PicturesAreWhole'
  <2> DEFINE c == render[r].picture
  <2>1. /\ render[r].step = "written" /\ c \in Contents
        /\ temp[c] = "whole"
    BY <1>1, <1>6 DEF RenamePicture, Writers, Drawn
  <2>2. /\ stored' = [stored EXCEPT ![c] = "whole"]
        /\ temp' = [temp EXCEPT ![c] = "none"]
        /\ render' = [q \in Renderers |->
             IF render[q].picture # c THEN render[q]
             ELSE [render[q] EXCEPT
                    !.file = Renamed(@),
                    !.step = IF q = r THEN "renamed" ELSE @]]
        /\ revisions' = revisions
    BY <1>6, <2>1 DEF RenamePicture, moderationVars
  <2> HIDE DEF c
  <2>3. ASSUME NEW q \in Renderers
        PROVE  /\ Writing(q)' => render'[q].file = "temp"
               /\ render'[q].step = "written" => temp'[render'[q].picture] = "whole"
               /\ render'[q].step = "renamed" => stored'[render'[q].picture] = "whole"
    <3>1. CASE render[q].picture # c
      <4>1. render'[q] = render[q]
        BY <2>2, <3>1, Zenon
      <4> QED
        BY <1>1, <2>2, <3>1, <4>1 DEF Writers, Writing, Drawn
    <3>2. CASE render[q].picture = c /\ q = r
      <4>1. render'[q].step = "renamed" /\ render'[q].picture = c
        BY <1>1, <2>2, <3>2 DEF Renders
      <4> QED
        BY <1>1, <2>1, <2>2, <4>1 DEF Writing
    <3>3. CASE render[q].picture = c /\ q # r
      <4>1. render'[q].step = render[q].step /\ render'[q].picture = c
        BY <1>1, <2>2, <3>3 DEF Renders
      <4>2. ~Writing(q)
        BY <2>1, <3>3 DEF Apart, Writing, c
      <4> QED
        BY <1>1, <2>1, <2>2, <4>1, <4>2 DEF Writing
    <3> QED
      BY <3>1, <3>2, <3>3
  <2>4. Writers'
    BY <2>3 DEF Writers
  <2> QED
    BY <1>1, <2>2, <2>4, NothingRecorded
<1>7. ASSUME NEW r \in Renderers, NEW p, Recorded(r, p),
             p \in Contents => stored[p] = "whole",
             render[r].step # "none",
             render' = [render EXCEPT ![r] = NoRender],
             UNCHANGED <<stored, temp>>
      PROVE  Writers' /\ PicturesAreWhole'
  <2>1. Writers'
    BY <1>1, <1>7 DEF Writers, Writing, NoRender
  <2>2. SUFFICES ASSUME NEW x \in Assets, NEW n \in DOMAIN revisions'[x],
                        revisions'[x][n].picture \in Contents
                 PROVE  stored[revisions'[x][n].picture] = "whole"
    BY <1>7, <2>1 DEF PicturesAreWhole
  <2>3. /\ n \in DOMAIN revisions[x]
        /\ revisions'[x][n].picture \in {p, revisions[x][n].picture}
    BY <1>7, RecordedPictures
  <2> QED
    BY <1>7, <2>2, <2>3 DEF PicturesAreWhole
<1>8. ASSUME NEW r \in Renderers, GiveUpRender(r) \/ RecordPicture(r)
      PROVE  Writers' /\ PicturesAreWhole'
  <2>1. CASE GiveUpRender(r)
    BY <1>7, <2>1, ContentAssumption DEF GiveUpRender
  <2>2. CASE RecordPicture(r)
    BY <1>7, <2>2 DEF RecordPicture, Writers
  <2> QED
    BY <1>8, <2>1, <2>2
<1> QED
  BY <1>2, <1>3, <1>4, <1>5, <1>6, <1>8 DEF RenderNext

LEMMA PicturesStep ==
  ASSUME MediaInv, Apart, Apart', Writers, PicturesAreWhole, [Next]_vars
  PROVE  Writers' /\ PicturesAreWhole'
<1>1. UNCHANGED <<render, temp, stored>> => Writers'
  BY DEF Writers, Writing
<1>2. CASE UNCHANGED <<revisions, pictureVars>>
  BY <1>1, <1>2, NothingRecorded DEF pictureVars
<1>3. CASE Killed
  <2>1. /\ UNCHANGED <<revisions, stored, temp>>
        /\ render' = [r \in Renderers |->
             IF render[r].step \in {"queued", "drawn"} THEN render[r]
             ELSE NoRender]
    BY <1>3 DEF Killed, ScansEnd
  <2>2. Writers'
    BY <2>1 DEF Writers, Writing, NoRender
  <2> QED
    BY <2>1, <2>2, NothingRecorded
<1>4. ASSUME NEW s \in Scanners, Register(s)
      PROVE  Writers' /\ PicturesAreWhole'
  BY <1>1, <1>4, RegisteredPictures DEF Register, pictureVars
<1>5. CASE ScanNext
  BY <1>2, <1>4, <1>5 DEF ScanNext, StartUpload, StartRescan, SaveScan, EnforcePolicy
<1>6. CASE AdminNext
  BY <1>2, <1>6, Zenon DEF AdminNext, Mark, DeleteOrRestore, ChangeAccess
<1>7. CASE RenderNext
  BY <1>7, WritersStep
<1>8. CASE UNCHANGED vars \/ Installed \/ SettingsStep
  BY <1>2, <1>8 DEF vars, moderationVars, Installed, SettingsStep
<1>9. CASE RequestNext
  <2>1. UNCHANGED <<moderationVars, pictureVars>>
    BY <1>9, Zenon DEF RequestNext, BeginRequest, Hit, Miss, Recheck, LoadPage,
                       Put, EndRequest
  <2> QED
    BY <1>2, <2>1 DEF moderationVars
<1> QED
  BY <1>3, <1>5, <1>6, <1>7, <1>8, <1>9, Steps

(* While no two renderers write the same picture at a time, whatever is       *)
(* recorded is whole: the temporary file that they share (thumbnails.rs:124)  *)
(* is the only way to publish half a picture, also across kills.              *)
THEOREM RivalsAlone == Spec => OnlyRivalsBreakPictures
<1>1. Init => Writers /\ PicturesAreWhole
  BY DEF Init, ModerationInit, Writers, Writing, NoRender, PicturesAreWhole
<1>2. /\ TypesInv /\ Apart /\ Apart' /\ Writers /\ PicturesAreWhole
      /\ [Next]_vars
      => Writers' /\ PicturesAreWhole'
  BY PicturesStep DEF TypesInv
<1> QED
  BY <1>1, <1>2, TypesAlways, PTL DEF Spec, OnlyRivalsBreakPictures
=============================================================================
