------------------------------ MODULE Settings ------------------------------
(* The selected configuration file and its credential files, what the         *)
(* database keeps of them and what the running process uses                   *)
(* (config_apply.rs, admin_settings.rs, main.rs).  Whoever holds              *)
(* config_edit_lock is the job: the start, a poll of the watcher or a save of *)
(* the owner.  Editors of the file know no lock.                              *)
EXTENDS Integers, FiniteSets

CONSTANTS
  Blockable,  \* what a policy may block: subset of {"r18", "unclassified"}
  Providers,  \* identity providers besides the official one
  Options,    \* what a configuration may say
  Secrets,    \* names for credential files, each used once
  Nil,
  MaxEdits, MaxSaves, MaxFaults, MaxChanges    \* bounds

ASSUME OptionsAssumption ==
  /\ Options \subseteq [policy : SUBSET Blockable,
                        providers : SUBSET Providers,
                        backend : {"memory", "redis", "none"}]
  /\ Nil \notin Options \cup Secrets

VARIABLES
  file,        \* the selected file
  secrets,     \* the credential files there are
  db,          \* moderation_policy, identity_providers and which are managed
  up,          \* whether the process runs
  active,      \* runtime_config
  generation,  \* settings_generation
  seen,        \* what the watcher has applied last
  job,         \* who holds config_edit_lock, and how far it is
  overridden,  \* providers set apart from the file since (history)
  changes,     \* writes that this process has made to the database
  edits, saves, faults    \* counts, for the bounds

settingsVars == <<file, secrets, db, up, active, generation, seen, job,
                  overridden, changes, edits, saves, faults>>

----------------------------------------------------------------------------
(* A text of the file, and one that says nothing valid.                      *)
Texts == [says : Options, secret : Secrets \cup {Nil}]
Garbage == [says |-> Nil, secret |-> Nil]
Unseen == [text |-> Garbage, generation |-> -1]
NoJob == [kind |-> "none", step |-> "none", read |-> Garbage, text |-> Garbage,
          old |-> Garbage, staged |-> {}]

(* LoadedConfig: the text is valid and its credentials can be read.          *)
Resolves(t, files) == t.secret \in files \cup {Nil}
Valid(t) == t # Garbage /\ Resolves(t, secrets)

(* The transaction of apply(): the policy is replaced; providers that the    *)
(* file has managed and no longer lists are disabled, the listed enabled.    *)
Applied(t) ==
  [policy |-> t.says.policy,
   enabled |-> (db.enabled \ db.managed) \cup t.says.providers,
   managed |-> db.managed \cup t.says.providers]

SeenText == seen.text = file
Seen == seen = [text |-> file, generation |-> generation]
Serving == up /\ job.kind # "start"

(* apply() holds the connection while it publishes and commits.              *)
Connected == Serving /\ job.step # "published"
Holds(kind, step) == job.kind = kind /\ job.step = step

SettingsInit ==
  /\ file \in Texts /\ file.secret = Nil
  /\ secrets = {}
  /\ db = [policy |-> {}, enabled |-> {}, managed |-> {}]
  /\ up = FALSE /\ active = Garbage
  /\ generation = 0 /\ seen = Unseen /\ job = NoJob
  /\ overridden = {} /\ changes = 0
  /\ edits = 0 /\ saves = 0 /\ faults = 0

----------------------------------------------------------------------------
(* main(): the file is loaded, the store opened, which sets the policy; then *)
(* the file is applied like any other.  A file that is not valid ends it.    *)
Boot ==
  /\ ~up /\ Valid(file)
  /\ up' = TRUE /\ active' = file
  /\ generation' = 0 /\ seen' = Unseen /\ changes' = 0
  /\ db' = [db EXCEPT !.policy = file.says.policy]
  /\ job' = [NoJob EXCEPT !.kind = "start", !.step = "ready", !.text = file]
  /\ UNCHANGED <<file, secrets, overridden, edits, saves, faults>>

(* reload_config(): the contents are read and compared, ...                  *)
PollBegin ==
  /\ up /\ job = NoJob /\ ~Seen
  /\ job' = [NoJob EXCEPT !.kind = "poll", !.step = "read", !.read = file]
  /\ UNCHANGED <<file, secrets, db, up, active, generation, seen, overridden,
                 changes, edits, saves, faults>>

(* ... and LoadedConfig::load() reads the file once more.                    *)
PollLoad ==
  /\ Holds("poll", "read")
  /\ job' = IF Valid(file) THEN [job EXCEPT !.step = "ready", !.text = file]
            ELSE NoJob
  /\ UNCHANGED <<file, secrets, db, up, active, generation, seen, overridden,
                 changes, edits, saves, faults>>

(* save() of a draft made from the present file, whose credential is kept,   *)
(* cleared or replaced by a new file, which is written at once.              *)
SaveBegin(o, s, replace) ==
  /\ up /\ job = NoJob /\ file # Garbage
  /\ saves < MaxSaves
  /\ IF replace THEN s \in Secrets \ secrets ELSE s \in {file.secret, Nil}
  /\ LET staged == IF replace THEN {s} ELSE {}
         draft == [says |-> o, secret |-> s]
     IN  /\ Resolves(draft, secrets \cup staged)
         /\ secrets' = secrets \cup staged
         /\ job' = [NoJob EXCEPT !.kind = "save", !.step = "staged",
                      !.read = file, !.text = draft, !.staged = staged]
  /\ saves' = saves + 1
  /\ UNCHANGED <<file, db, up, active, generation, seen, overridden, changes,
                 edits, faults>>

(* Dropping Staged removes the new credential files.                         *)
SaveCheck ==
  /\ Holds("save", "staged")
  /\ IF file = job.read
     THEN /\ job' = [job EXCEPT !.step = "checked"]
          /\ UNCHANGED secrets
     ELSE /\ job' = NoJob
          /\ secrets' = secrets \ job.staged
  /\ UNCHANGED <<file, db, up, active, generation, seen, overridden, changes,
                 edits, saves, faults>>

SaveReadsOld ==
  /\ Holds("save", "checked")
  /\ job' = [job EXCEPT !.step = "ready", !.old = file]
  /\ UNCHANGED <<file, secrets, db, up, active, generation, seen, overridden,
                 changes, edits, saves, faults>>

(* apply(): within the transaction a save publishes its text, ...            *)
Publish ==
  /\ Holds("save", "ready")
  /\ file' = job.text
  /\ job' = [job EXCEPT !.step = "published"]
  /\ UNCHANGED <<secrets, db, up, active, generation, seen, overridden,
                 changes, edits, saves, faults>>

Committing ==
  job.step = IF job.kind = "save" THEN "published" ELSE "ready"

(* ... the transaction commits, ...                                          *)
Commit ==
  /\ job # NoJob /\ Committing
  /\ db' = Applied(job.text)
  /\ job' = [job EXCEPT !.step = "committed"]
  /\ overridden' = {}
  /\ changes' = changes + 1
  /\ UNCHANGED <<file, secrets, up, active, generation, seen, edits, saves,
                 faults>>

(* ... and the settings are installed, after the connection is released.     *)
Install ==
  /\ job.step = "committed"
  /\ active' = job.text
  /\ generation' = generation + 1
  /\ seen' = IF job.kind = "poll"
             THEN [text |-> job.read, generation |-> generation + 1]
             ELSE seen
  /\ job' = NoJob
  /\ UNCHANGED <<file, secrets, db, up, overridden, changes, edits, saves,
                 faults>>

(* apply() fails, before or at the commit: what a save published is put      *)
(* back and its new credentials are removed.                                 *)
LeftThere == file
PutBack == IF job.step = "published" THEN job.old ELSE file
Fail ==
  /\ job.kind # "start" /\ job.step \in {"ready", "published"}
  /\ faults < MaxFaults /\ faults' = faults + 1
  /\ file' = PutBack
  /\ secrets' = secrets \ job.staged
  /\ job' = NoJob
  /\ UNCHANGED <<db, up, active, generation, seen, overridden, changes, edits,
                 saves>>

(* The process is killed, or ends because its start fails.                   *)
Kill ==
  /\ up
  /\ faults < MaxFaults /\ faults' = faults + 1
  /\ up' = FALSE /\ active' = Garbage /\ job' = NoJob
  /\ UNCHANGED <<file, secrets, db, generation, seen, overridden, changes,
                 edits, saves>>

(* An editor replaces the file; credentials it names are there, or named by  *)
(* the file it replaces.                                                     *)
Edit(t) ==
  /\ edits < MaxEdits /\ edits' = edits + 1
  /\ t # file
  /\ t.secret \in (secrets \ job.staged) \cup {Nil, file.secret}
  /\ file' = t
  /\ UNCHANGED <<secrets, db, up, active, generation, seen, job, overridden,
                 changes, saves, faults>>

(* configure_identity_provider(), with the bootstrap token                   *)
ConfigureProvider(p, on) ==
  /\ Connected /\ changes < MaxChanges
  /\ (p \in db.enabled) # on
  /\ db' = [db EXCEPT !.enabled = IF on THEN @ \cup {p} ELSE @ \ {p}]
  /\ overridden' = overridden \cup {p}
  /\ changes' = changes + 1
  /\ UNCHANGED <<file, secrets, up, active, generation, seen, job, edits,
                 saves, faults>>

(* What changes nothing but the settings; Install and Kill do.               *)
SettingsNext ==
  \/ Boot \/ PollBegin \/ Fail
  \/ PollLoad \/ SaveCheck \/ SaveReadsOld \/ Publish \/ Commit
  \/ \E o \in Options, s \in Secrets \cup {Nil}, replace \in BOOLEAN :
       SaveBegin(o, s, replace)
  \/ \E t \in Texts \cup {Garbage} : Edit(t)
  \/ \E p \in Providers, on \in BOOLEAN : ConfigureProvider(p, on)

----------------------------------------------------------------------------
SettingsTypeOK ==
  /\ file \in Texts \cup {Garbage}
  /\ secrets \subseteq Secrets
  /\ db \in [policy : SUBSET Blockable, enabled : SUBSET Providers,
             managed : SUBSET Providers]
  /\ up \in BOOLEAN /\ active \in Texts \cup {Garbage}
  /\ generation \in Nat
  /\ seen \in [text : Texts \cup {Garbage}, generation : Nat \cup {-1}]
  /\ job.kind \in {"none", "start", "poll", "save"}

(* Between jobs, file, credentials, database and memory agree, whatever was  *)
(* killed or failed half way: the file names no credential that is not       *)
(* there; the database has the policy in use, and enables of the providers   *)
(* that files have managed those of the file in use, but for what was set    *)
(* apart from it.                                                            *)
SettingsAgree ==
  /\ Resolves(file, secrets)
  /\ up /\ job = NoJob =>
       /\ db.policy = active.says.policy
       /\ \A p \in db.managed \ overridden :
            p \in db.enabled <=> p \in active.says.providers

(* "A running file watcher adopts the change" (README.md 430), "Selected     *)
(* JSON configuration is reloaded automatically" (main.rs 17; so 44): a text *)
(* that the watcher takes for applied, and will not read again, is in use.   *)
EditsAreAdopted == up /\ job = NoJob /\ Seen => active = file

(* No editor changes the file between the two reads of a poll (main.rs 161   *)
(* and 173).                                                                 *)
OneRead ==
  job.kind = "poll" /\ job.step # "read" => job.read = job.text

(* Where every poll reads one text, an edit takes effect: once the editors   *)
(* are done, the file is in use, or it is not valid and what was in use      *)
(* before stays (main.rs 156-193).                                           *)
SettingsConverge ==
  []OneRead => <>[](up => \/ active = file
                          \/ ~Valid(file) /\ active # Garbage)

(* Whatever is killed, fails, is saved or is put back: the watcher is never  *)
(* misled but by an edit between the two reads of one poll.                  *)
OnlyDoubleReadsMislead == []OneRead => []EditsAreAdopted
=============================================================================
