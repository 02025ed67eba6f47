# A TLA+ model of SPM Cloud

SPM Cloud (`src/`) is a Rust HTTP and WebSocket service that stores 3D models
for a family of game mods and tells players what the others look like. This
directory holds TLA+ modules of its core, the TLC configurations that check
them on small instances, and TLAPS proofs of what matters most for every
instance. Line numbers refer to the sources in `src/src/`.

    cd tla
    tlc -workers 2 -config MCUpload.cfg MCUpload      # one run
    tlapm UploadPipelineProofs.tla                    # one module's proofs

`PROJECT.json` lists the runs, the mutants that show each property can fail, the
lines every definition models, the findings, the hazards and the theorems.

## 1. Inventory

The server is one process with a tokio thread pool. Everything durable is in one
SQL database and one object directory.

| component | state | operations | talks to |
|---|---|---|---|
| Database layer (`database.rs`, `store.rs`) | one connection under one mutex; a transaction is `BEGIN IMMEDIATE` and rolls back when dropped | `transaction`, single statements, change counters | everything |
| Asset uploads (`api.rs` 961-1138, `store.rs` 2015-2199, 2551-2687) | `assets`, `asset_revisions`, `catalog_events`, `idempotency`, `upload_operations`, `upload_leases`, `.upload-*` files, object files by SHA-256 | `upload_asset_as`, `resolve_upload_asset_id`, `register_asset_with_visibility`, begin/complete/fail operation | limits, moderation, reaper |
| Upload reaper (`main.rs` 91-138) | none of its own | reconcile leases, remove leased and stale files, every second | upload tables and files |
| Appearance and animation (`store.rs` 1652-1922, `entity_world.rs` 508-636) | `appearances`, `animation_states` (with a lease), `target_acl`, `idempotency`, `outbox_events` | `update_appearance`, `update_animation`, `publish_entity`, `set_acl` | realtime channel |
| Realtime (`realtime.rs`, `api.rs` 817-858) | a broadcast channel of 512 events; per socket: receiver position, joined scope | subscribe, JoinScope, LeaveScope, forward, RECOVERY_REQUIRED; `GET .../events/recovery` | clients |
| Admission limits (`performance.rs`) | per limiter: active, limit, paused, a `Notify` | `acquire`, `idle`, `set_limit`, `pause`, and the drops of `Permit` and `Pause` | uploads, decoders, previews, updates |
| Updates and backups (`maintenance.rs`) | maintenance lock, two pauses | `prepare_update`, `install`, update loop, `export_archive` | limits, database, objects |
| Accounts and sessions (`store.rs` 441-568, 775-819, `admin.rs` 259-433, 677-770) | `accounts`, `account_credentials`, `admin_accounts`, `sessions` | register, password sign-in, refresh, sign-out; the owner creates, disables, promotes, resets | every handler authenticates |
| Game and browser sign-in (`game_auth.rs`, `browser_auth.rs`), account links (`account_links.rs` 43-108) | `identities`, `identity_providers`, `game_auth_challenges`, `browser_auth_flows`, `web_cloud_links` | create, claim and complete a challenge; start, call back and redeem a flow; link a profile; connect accounts | sessions, identity providers |
| Offline players (`offline_identity.rs`, `offline_authorization.rs`, `offline_player.rs`) | `cloud_offline_authorizations`, `_identities`, `_keys`, `_sessions`, `_appearances`, the policy | request, decide, enrol, issue, rotate, revoke, activate, publish, withdraw, query | accounts, configuration |
| Scopes, targets and access lists (`store.rs` 820-903, 1192-1651, `entity_world.rs` 298-412) | `scopes`, `scope_acl`, `targets`, `target_acl`, `entity_bindings`, `asset_acl` | create a scope (also on demand), a target; set an access list, a visibility, an owner; register and observe a binding | everything that is shown in a world |
| Offline bindings (`store.rs` 904-1191) | `identities`, `scoped_identity_bindings`, `claim_codes` | create an identity, request, decide, issue, redeem, revoke | scopes, targets |
| Catalog (`catalog.rs`, `catalog_cache.rs`) | page caches in memory and in Redis, keyed by change counters | page, recheck a cached page | database, Redis |
| Moderation, thumbnails, asset administration (`moderation.rs`, `thumbnails.rs`, `admin.rs`) | `model_moderation`, `moderation_policy`, `deleted_assets`, thumbnail columns | scan, merge of verdicts, manual mark, take down, restore, record thumbnail | uploads, appearances, catalog |
| Configuration (`config*.rs`, `admin_settings.rs`) | the file, the runtime configuration, active settings, a generation | apply, publish, roll back, reload | limits, cache, moderation policy |
| Visual states (`visual.rs`, `player.rs`, `entity_world.rs`, `entity_motion.rs`, `vehicle.rs`) | `projectile_snapshots` with leases, `projectile_tombstones`, `player_appearances`, `player_display_states`, `entity_model_shares`, `entity_motion_states`, `vehicle_bindings` | publish, renew, withdraw, query; a cleanup every second | scopes, assets |

**What is hard.** (1) A handler gives up the thread at every `await` and the
database mutex between store calls, so anything it read may be stale when it
acts. (2) A client may disconnect at any `await`: the handler's future is dropped
there. (3) The process may be killed anywhere; files and tables survive, tasks,
channels and permits do not. (4) Clients retry with idempotency keys and
overlapping calls. (5) Announcements follow the commit without a lock and pass
through a bounded channel. (6) The update drain waits for tasks that wait for
each other. `PROJECT.json` lists each hazard at its line.

**What makes each component correct.**

* Uploads: a key publishes at most one revision, whatever is retried; an
  operation row tells the truth; a revision has its object; files do not pile up.
* Appearance: revisions and outbox agree, a request takes effect once, a watcher
  either learns of a change or is told to recover.
* Limits and drain: permits are counted exactly, nobody sleeps through a
  notification, the snapshot is quiet, and the drain cannot deadlock.
* Sessions: a sign-in has one live session however it is refreshed, and an update
  of the account ends it; a proof of a game account is good once.
* Identities: a verified profile has one owner and stays there; links between web
  and Cloud accounts are one-to-one.
* Offline players: a session that ended never works again, whatever ended it; nothing
  is issued to an account that is not approved; a publisher id and revision stand for
  one publication.
* Bindings: one approved binding per entity, a claim code works once and within
  its attempts, and what it granted no manager decides again.
* Visual states: a shot is shown once and never after its end, a private model
  only where its owner chose to share it, an entity has one driver; cleaning up
  changes no answer.
* Catalog: a page is the directory as it was while it was asked for.
* Moderation: a verdict is the strongest any scan gave; a recorded picture is whole
  and belongs to its revision.
* Configuration: file, credentials, database and memory agree after a crash or a
  failure, and an edit takes effect, unless a poll has read two texts.

## 2. Plan

| order | module | state |
|---|---|---|
| 1 | `AssetLedger` (abstract), `UploadPipeline` (refines it), `UploadPipelineProofs` | done |
| 2 | `ChangeLog` (abstract), `AppearanceSync` (refines it), `AppearanceSyncProofs` | done |
| 3 | `Gate` (abstract), `Admission` (refines it), `AdmissionProofs` | done |
| 4 | `SignIns` (abstract), `Sessions` (refines it), `SessionsProofs` | done |
| 5 | `Presence` (abstract), `OfflineIdentities` (refines it), `OfflineIdentitiesProofs` | done |
| 6 | `Scopes`; `Claims`, `Shots` and `Avatars` on top of it; `World` composes them; `WorldProofs` | done |
| 7 | `Settings`; `Moderation` on top of it, `Catalog` on top of that; `Service` composes them; `ServiceProofs` | done |
| 8 | proofs of `ObjectsLostOnlyByUndo` and `CatalogListsRevisions`, of the refinements and of `TypeOK` of `Service` | done |
| 9 | an abstract specification of `World` | to do |

Five components refine a small abstract specification of what they promise, by
`INSTANCE ... WITH` a refinement mapping at their end. `World` is everything that
shares the tables of a world, `Service` everything that shares the connection
and the configuration of the process. Their runs share one configuration each, by
scenario, as `MCSessions` does, rather than having one run for each question.

## 3. Modules

### UploadPipeline and AssetLedger

`AssetLedger` is what a client is promised: assets are append-only sequences of
revisions, a key (account and Idempotency-Key) publishes at most one revision, a
call is acknowledged only with what its key published, administrators retire,
restore and reassign assets.

`UploadPipeline` is `upload_asset_as` with the store operations and the reaper.
A call is one HTTP request; `pc[c]` says where its handler is, and an action is a
stretch of the handler in which no other task can run:

| action | code |
|---|---|
| `Issue` | authenticate, `resolve_upload_asset_id`: the requested name, or a suffixed one when another account owns it; tombstones refuse |
| `BeginOperation`, `CreateLease`, `CreateTemp` | operation row, length check, lease row, temporary file |
| `ReceiveBody`, `Scan`, `Discard` | body and its checks, moderation verdict, removal of a rejected file |
| `Probe`, `Place` | `try_exists` of the object; drop the temporary file or rename it |
| `RegisterReplay`, `RegisterRevision`, `RegisterError` | `register_asset_with_visibility`, one transaction |
| `UndoPlace`, `FailOperation`, `CompleteOperation` | removal of the object, the two final statements |
| `Abandon` | the future is dropped, or an awaited file operation fails |
| `Reconcile`, `RemoveLeased`, `RemoveStale` | the reaper |
| `Crash*` | a kill, also between two statements that commit separately |
| `DeleteAsset`, `RestoreAsset`, `AssignOwner` | administrators |

Data are abstracted: a content stands for bytes and their SHA-256; sizes, names, formats
and visibility are left out, and with them registrations that are refused for invalid
ones (`store.rs` 2117-2130), which take the way of `RegisterError`; the request hash
compares asset and content. Time is an age per call: the lease is due after fifteen
minutes, the file is stale fifteen minutes after its last write, so `age` is 0, 1 or 2.

### AppearanceSync

Items are the appearance and the animation of each target. `Update`, `Replay`
and `Refuse` are the outcomes of `update_appearance` and `update_animation`,
which share the idempotency table; `PutEntity` is `publish_entity`, which has no
request id and announces nothing. `Announce` is the send after the commit.
`sent` is the broadcast channel and `pos[w]` a receiver's position in it; the
channel holds the last `Capacity` events. `Connect`, `Close`, `JoinScope`,
`LeaveScope`, `Forward` and `Lag` are turns of the loop `serve`. `Recover` is one
page of `outbox_recovery` taken by the client. The client (what it has seen,
where it is in the outbox, whether it has to recover) is external code: it takes
pages while `has_more` is set, recovers after a join and when told to, and keeps
the later of two revisions.

`ChangeLog` is what is left when tables, access lists, leases, channel, sockets and
pages are hidden: a log of changes, each made on the revision its author has seen and
once per request id, the present value of each item, the answers that were made, and
what watchers know, which grows and never passes what is committed. The log is the
outbox, the answers are those of the calls, and `Recover` and `Forward` are `Learn`.

### Admission

`limit`, `active` and `paused` are the three counts under a limiter's mutex;
`stage[w]` is where waiter `w` is in the loop that `acquire` and `idle` share:
`Register` (enable the notification), `Check` (read the counts, take a permit),
`Sleep`. A drop of a permit or a pause and `set_limit` change a count first and
call `notify_waiters` afterwards, in a step of its own; `notify_waiters` wakes
those who have registered. The tasks are uploads, each of which spawns a worker
that decodes what it received and survives the request, and previews or rescans.
`PauseUploads`, `PauseProcessing`, `Snapshot` and `Schedule` are
`prepare_update`; `GiveUp*` is any error, timeout or dropped request in it. The
maintenance lock makes updates exclusive, so there is one updater.

`Gate` hides counters, waiters and notifications: who is inside, which gates are
closed (uploads first, processing after the last upload has left) and whether a
snapshot may be taken. `inside` is the set of the waiters that hold a permit and not
the counter, so the refinement says that the counter admits as many as looking at
who is inside would.

### Sessions

A row of `session` is what the table keeps (`live`: not revoked and the refresh
token not expired; `fresh`: the access token not expired) and what the
properties tell sessions apart by: `since` is the number of updates its account
had when somebody signed in, `root` the session of that sign-in, `by` whether it
was issued for a sign-in or at the end of a link, `out` whether a client ever got
its tokens. These four are history; no action of the code depends on them, but
that nobody can use a session that was not handed out.

An action is one hold of the connection's mutex; `req[r].at` says where a request
is between two of them and the other fields what it has read:

| requests | actions | code |
|---|---|---|
| password sign-in (API, account page, console) | `StartSignIn`, `CheckDisabled`, `Verify`, `ReadRole`, `RevokeIssued` | `issue_session` looks at `disabled` and issues under separate locks; the pages read the role afterwards, the console revokes the session of a member |
| connection with a password | `StartConnect`, `CheckDisabled`, `Verify`, `RevokeIssued`, `Connect` | `account_links.rs` 203-219 |
| game challenge | `CreateChallenge`, `Claim`, `FindProvider`, `FinishLink`, `FinishLogin` | `game_auth.rs`: consumed before the provider is asked |
| browser with a game account | `StartBrowser`, `FindProvider`, `ProveProfile`, then `finish` | `browser_auth.rs` 462-563 |
| Microsoft | `StartFlow`, `Callback`, `Validate`, `StoreTicket`, `Redeem`, `Validate`, then `finish` | `browser_auth.rs` 200-362; flow and ticket are one row each, taken once |
| `finish` | `RecheckProvider`, `WebRole`, `ReadLink`, `ReadOwner`, `Connect`, `CloudRole`, `LinkIdentity`, `ReadWeb`, `IssueRole`, `Issue` | `browser_auth.rs` 590-695, one lock after another |
| the owner | `CreateAccount`, `GiveRole`, `UpdateAccount`, `ToggleProvider` | `admin.rs` 380-433, 698-770 |
| time, disconnection | `Expire`, `Lapse`, `Withdraw` | access and refresh expiry, a challenge that ran out, a refusal or a dropped future at an await |

A request that is refused changes nothing, so a refusal is the absence of an
action unless something was done before. Rate limits, canonical names,
provisional identities, the wrong browser cookie and the automatic upgrade of
password hashes are left out for that reason or because no property tells them
apart. A password is its version.

`SignIns` hides passwords, roles, tokens, challenges and requests. A sign-in goes by
the name of its first session (`root`) and is held by one session at a time; a refresh
is `Renew`, everything that ends a session `End`, an update of an account `Update`. A
profile is owned or moves with a pair (`Own`, `Pair`), and a session or a link that a
challenge or flow led to pays with a proof that was not spent before (`Paid`). How old
the sign-in is that a link stands for is not in it: that is `UpdatesEndEverySession`,
which the code violates.

### OfflineIdentities

An action is one transaction. Only enrolment and issue take two:
`request_offline_authorization` asks or approves, and the second transaction
inserts identity and key; `req[r]` is a request between them.

| actions | code |
|---|---|
| `RequestEnrolment`, `RequestIssue`, `Enroll`, `Issue`, `Finish` | `enroll` (`offline_authorization.rs` 186), `issue_offline_key`; `Finish` is a refusal of the second transaction, or a key enrolled before |
| `Rotate`, `RevokeKey`, `Decide` | `rotate_offline_key`, `revoke_offline_key`, `admin_update` |
| `Activate`, `Publish`, `Withdraw`, `Expire` | `activate_offline`, `publish_offline`, `withdraw_offline`; expiry is an action that may happen to a session at any time |
| `Query` | `query_offline_players` after `query_players` found no verified player for the entity |
| `Configure`, `Restart`, `SetDisabled` | `configure` from a reload or the web interface, `CloudStore::open`, `set_admin_account` |
| `SetStanding` | the owner makes a model public or private; it is deleted, restored, blocked or released |

`EndSessions` and `Unbound` are what `revoke_identity`, `invalidate_sessions` and
`admin_update` share: revoke sessions, drop appearances, unbind the identities that
were bound and raise both revisions. `decided` (an administrator's last decision)
and `answer` (what an observer was last told) are history. A secret is the row it
belongs to: who has the token of a session is its account. What is published is a
model or none; its display state is left out. `standing[m]` says whether a model is
public, private or not in `available_asset_revisions`; a query tells of a publication
only while its model is public (`offline_player.rs` 269, 281). That changes without a
revision: `NoMissedChange` says that under one publisher id and revision an observer is
told of one publication or of none, and never of another one.

`Presence` hides keys, generations, revisions, tokens and requests. `trusted` is empty
while the feature is off and the set of approved accounts while it is on, `bearer` the
session that may act for an identity and `shown` what it shows; trust that ends takes
its bearers with it, a session bears once, models may be `hidden` at any time and nobody
is told of those, and an observer is told the truth of the moment it asks, which
`Presence` defines from bearers alone and the code from bindings, sessions, generations
and appearances.

### Scopes, Claims, Shots, Avatars and World

An action is one handler under one hold of the connection, so the interleaving is
that of handlers. Those that are more than one commit have a parameter that says
how far they got before a kill: `CreateScope` (the scope, then its manager),
`CreateTarget` (target, creator's row, appearance), `RedeemCode` (the attempt is
counted by a statement of its own). The handlers of displays and motions take the
time before they wait for the lock: `Read(t)` lets `t` be up to `Lag` behind `now`.

`Scopes` has the tables that the others read: scopes with their roles, targets
with their access lists, bindings of entities, appearances and shares of targets,
models with owner, visibility and access list, verified profiles. What another
part decides is an action here: `Moderate` takes a model out of
`available_asset_revisions` or puts it back, `MoveProfile` and `ToggleProvider` are
what `Sessions` may do to a profile.

| module | actions | code |
|---|---|---|
| `Scopes` | `CreateScope`, `EntityWorld`, `SetScopeAcl`, `CreateTarget`, `SetAcl`, `RegisterBinding`, `ObserveBinding`, `UpdateAppearance`, `SetAssetAcl`, `SetVisibility`, `AssignOwner` | `store.rs`, `entity_world.rs` 298-412, `account_links.rs` |
| `Claims` | `CreateIdentity`, `RequestBinding`, `DecideBinding`, `IssueCode`, `RedeemCode`, `RevokeCode` | `store.rs` 904-1191 |
| `Shots` | `PublishShot`, `RenewShot`, `WithdrawShot`, `PublishFace`, `CleanShots` | `visual.rs`, `player.rs` |
| `Avatars` | `PublishEntity`, `PublishMotion`, `WithdrawMotion`, `CleanMotions`, `PublishVehicle` | `entity_world.rs` 508-636, `entity_motion.rs`, `vehicle.rs` |
| `World` | `Cleanup` (shots, faces and motions in one transaction), `Tick` | `visual.rs` 288-308 |

The role "editor" is another word for "edit" and "edit" stands for both; the kind that
a vehicle's publisher gives the entity is fixed and left out. What a query answers is a
predicate: `ShotShown`, `DisplayShown`, `EntityShown`,
`MotionShown`, `VehicleShown`. `fired` and `over` (every shot there was, and those
that have ended) and `offer` (what the last publication for a target shared) are
history. A code is its row and an event its id; poses, animations and payloads are
left out; a row of motions and vehicles is for one dimension, which is part of what
an entity stands for. `AppearanceSync` has the retries and announcements of
`UpdateAppearance` and `PublishEntity`; here they only change the tables.

### Settings, Moderation, Catalog and Service

`Settings`: `job` is who holds `config_edit_lock` (the start, a poll of the watcher,
a save of the owner) and how far it is; every step that another task, an editor or a
kill can come before is an action:

| actions | code |
|---|---|
| `Boot`, `PollBegin`, `PollLoad` | `main`, `reload_config` (`main.rs` 187): the text is read and compared, then the file is read once more |
| `SaveBegin`, `SaveCheck`, `SaveReadsOld`, `Publish` | `admin_settings.rs` 350-420: credential files are staged, the present text is compared and kept, the new one replaces it |
| `Commit`, `Install`, `Fail` | `config_apply.rs` 120-190: the transaction over policy and providers, the settings in memory, the file put back and staged files removed on a failure |
| `Edit`, `ConfigureProvider`, `Kill` | an editor of the file, a change with the bootstrap token, the end of the process |

What a configuration says is what the other parts of the model read: the policy, the
providers, the cache. `Garbage` is a text that is not valid; it is valid only if its
credential file exists.

`Moderation`: `scan[s]` is an upload or a rescan between its two holds of the
connection, `StartUpload` or `StartRescan`, `SaveScan` (the merge of verdicts),
`EnforcePolicy`, `Register`; what a scan finds is a choice. `Mark`,
`DeleteOrRestore` and `ChangeAccess` are the administrators'. `render[r]` is a
renderer: `QueueRender`, `Draw`, `OpenPicture`, `WritePicture`, `RenamePicture`,
`RecordPicture`, `GiveUpRender`; `stored` and `temp` are what is under a picture's
two names, and a renderer writes to the file it opened, whatever it is called by
then.

`Catalog`: `request[r]` is a request for the directory: `BeginRequest` (the cache in use
and the writes counted so far make the key), `Hit` (which makes a page found in memory
the youngest one there) or `Miss`, `Recheck`, `LoadPage`, `Put`, `EndRequest`. `memory`
and `redis` are the two caches, the first lost with the process; a page may expire, so a
lookup may always miss. `Directory(a)` is what the query answers; `lately[r]` is what it
would have answered at each moment of the request (history).

`Service` lets them meet: a save or reload changes the policy and with it the
directory, each write raises the counter in the keys, `Installed` may replace the
cache, `Killed` ends every handler.

## 4. Runs

| run | instance | states | checks |
|---|---|---|---|
| `upload` | 2 calls, one of them the first upload; 2 accounts, 1 name, 2 contents, 2 keys, 1 crash, 1 administrator step | 355k | one revision per key, COMMITTED means registered, lease follows operation, objects lost only by undo, catalog order, refinement of `AssetLedger`; files are reclaimed, leased operations settle |
| `upload_objects` | 2 rival calls, nothing else | found at once | expected violation of `RevisionsHaveObjects` |
| `appearance` | 3 calls, or 2 with a restart and a change of role; 6 requests, 2 targets, 1 watcher, channel and page of 1 | 158k | outbox is the history, one effect per request, no silent loss, changes arrive, refinement of `ChangeLog` |
| `admission` | 2 uploads, or 1 with a preview and a change of the limit from 1 to 0 or 2; 1 update | 93k | no lost wake-up, uploads can finish, the drain ends, waiters are admitted, refinement of `Gate` |
| `sessions_safety` | 2 accounts, 2 sessions, 2 requests, 1 profile, 2 updates of one account, 10 scenarios | 230k | updates end sign-ins, one session per sign-in, one owner, one-to-one links, proofs used once, refinement of `SignIns` |
| `sessions_links` | 1 scenario: password and browser requests, updates | found at once | expected violation of `UpdatesEndEverySession` |
| `offline_safety` | 2 accounts, 2 identities, 2 keys, 2 sessions, 1 entity, 1 request, quota 2, revisions up to 3, 1 model with its standing | 103k | the tables agree, no missed change, sessions never revive, decisions stand, issued only to approved, refinement of `Presence` |
| `world` | 1 world, 2 accounts, 2 rows of each kind, 1 model, 1 profile, clock to 3, 13 scenarios | 104k | one holder per entity, claims are final, shots shown once, shares are chosen, motions follow their driver, cleanup is invisible |
| `service` | 1 account, 1 model of 2 contents, 2 configurations, 2 scanners, 2 requests, 1 page, 1 kill or failure, 9 scenarios | 399k | settings agree, settings converge, verdicts commute, pages are fresh |
| `edits_adopted` | the configuration alone, 2 edits | found at once | expected violation of `EditsAreAdopted` |
| `pictures_whole` | 2 renderers of one picture | found at once | expected violation of `PicturesAreWhole` |
| `pictures_stale` | 1 renderer, 1 new revision | found at once | expected violation of `StalePicturesAreRejected` |

Every module has a `TypeOK`; the runs leave them to the proofs, and with them
`PermitsCounted`, `SnapshotIsQuiet`, `NoPhantoms` and `BindingsStay`, which the
refinements of `Gate`, `ChangeLog` and `SignIns` are about.

**Bounds.** Two upload calls suffice for every race of the pipeline: it has one writer
per key and per object and the interesting cases are pairs (retry against original,
rival against rival, handler against reaper). One crash at any point is enough because a
restart leaves only tables and files behind, whose inconsistencies do not add up across
restarts: a second crash meets the same reaper. In `MCUpload` one call is always the
first upload of its key, content and account, and the other one its retry under the same
or another key, a reuse of the key or a rival, issued before, during or after it; the
crash and the administrator meet where both calls are of one account (`InInstance`). A
channel of one slot makes lag happen at the second announcement and a page of one row
makes `has_more` true after every row; larger values only delay both. Two uploads, or an
upload and a preview, with one permit make tasks wait for each other in both limiters;
the change of limit covers "unlimited" and "more". `MaxCrashes`, `MaxAdmin`,
`MaxUpdates` and `MaxSettings` bound counters in guards.

In `MCSessions` a behaviour serves requests of a few kinds only
(`serving`, chosen at the start and constant): every kind meets updates of its
account, and game challenges, connections and browser links, which write the same
tables, meet in pairs; a redeemed Microsoft sign-in goes through the same `finish`
as a browser link and is not paired again. "solo"
scenarios have one multi-step request in flight against single-step ones (refresh,
update, switch of a provider), "kept" ones no session that ends, "lasting" ones none
that expires (the others cover both), and browsers that are "linking" start no sign-in;
the browser sign-ins are those of the scenario of Microsoft flows, which is not "solo"
and ends in the same `finish`. Two accounts can be connected in opposite roles, the
shortest chain; that two web accounts never share a Cloud account takes three and is
left to the proof. Two updates let an account be disabled and enabled again.

In `MCOffline` every revision and generation is bounded by `MaxRevision` (in the guards,
`Room`): three bindings are a session, its replacement and the end of that. `InInstance`
keeps the states where at most one account is disabled, at most one is decided, an
account without an identity beside one that has one is enabled and was approved, if at
all, by the policy, a model is withheld only where one identity publishes, no account is
disabled and no request is between its transactions, and, where both identities exist,
no account is disabled and the two are bounded by `RivalRevision`: rivals are there for
ambiguous answers and for ending the sessions of several identities at once.

In `MCWorld` a scenario names the tables that change: those that depend on one
another meet (roles with targets, targets with looks and access lists, claims with
targets, bindings with vehicles, entities with looks, rights and owners, motions
with each of access, bindings and looks, shots with faces, profiles and
moderation). Two rows of a kind are a rival and its victim. `CodeTtl` and
`MotionTtl` are 1 and the lease of a shot 2 within a lifetime of 3, so that a lease
can be renewed once, end early or at its absolute end, and be cleaned up after each
before the clock stops at `MaxTime`; `Lag` lets one tick pass while a handler waits.
`MaxRevision` is 3 and reached in "long" scenarios, `MaxAttempts` 2: the first
attempt that fails and the last one. `InScenario` keeps rows in order and drops
combinations that the scenario's tables do not tell apart.

In `MCService` the two configurations differ in everything the model reads of one.
`MaxEdits` 2 lets an edit follow another one between two reads of a poll; one save
(`MaxSaves`) with one new credential and one kill or failure (`MaxFaults`) at any
point cover its recovery, which no earlier fault influences because each leaves the
four places in agreement (`SettingsAgree`). `MaxChanges` and `MaxKeys` bound the
counter in the keys, `MaxPages` 1 makes the second page evict the first. "warm"
scenarios start with a polled process and a clean model. Editors may write any text at
any moment, between the two reads of a poll too; `SettingsConverge` is about the
behaviours in which no edit falls there (`OneRead`, a condition of the property and no
assumption about the code), and `edits_adopted` about the others.

The theorems carry the results beyond the mixes. Deadlock is not checked: calls are
finite and clocks bounded, so every instance comes to rest. Symmetry is used over
the names of accounts (other than the owner), identities, keys, sessions and requests,
in runs without liveness only.

**Fairness.** `upload`: the reaper runs every second and time passes;
nothing is assumed of a call, whose client may stall for ever. `appearance`:
a committed call announces without waiting, a socket's loop is polled, a client
that is told to recover does. `admission`: threads run, decoders end
because each has a time limit; the properties are conditional on no client
leaving its upload hanging, and no wait of the updater has to time out. `service`:
a process that is down is started again, the watcher polls every two seconds, and
whoever holds `config_edit_lock` goes on; nothing is assumed of editors, scans,
renderers and requests.

**Mutants.** For every property of a passing run there is a plausible bug in the
code, written beside the definition it changes, under which TLC finds the
property violated.

## 5. What the checks show

* *A revision can lose its bytes* (`upload_objects`). When the registration
  fails, `upload_asset_as` removes the object it renamed into place
  (`api.rs` 1113-1116). Another upload of the same content may have found that
  object (1083), dropped its own copy and registered a revision.
  `docs/PROTOCOL_V1.md` line 26 promises that a revision stores the original
  bytes. `ObjectsLostOnlyByUndo` shows that this is the only way to lose one.
* *A link in flight outlives a password reset* (`sessions_links`). A link request
  is authenticated before the identity provider is asked and issues a new session
  at its end (`browser_auth.rs` 633) after checking only that the account is not
  disabled; `README.md` line 76 of the repository says that role changes and
  password resets invalidate existing sessions. `UpdatesEndSignIns` shows that
  this is the only way: every session that goes back to a sign-in is ended.
* *A picture can be published half written* (`pictures_whole`). The temporary file of
  a thumbnail is named after the picture alone (`thumbnails.rs` 124), so that two
  renderers of the same picture share it and one renames what the other has just
  emptied. The comment above it (122) says that this cannot happen. The theorem
  `RivalsAlone` says that nothing else breaks a picture, a kill included.
* *A picture of an old revision is accepted* (`pictures_stale`). `record_thumbnail`
  writes to whatever revision the renderer names (`store.rs` 2400); its comment
  (2385) says that a revision which is not the current one is rejected.
* *The watcher can miss an edit* (`edits_adopted`). `reload_config` compares one read
  of the file (`main.rs` 161), applies what a second one finds (173) and remembers the
  first (187). When an editor changes the file between the two and puts the first text
  back afterwards, the watcher takes the file for applied while the other text is in
  use, until the file changes again or the process restarts. `README.md` line 430 of
  the repository says that a running file watcher adopts the change, and `main.rs` 17
  and 44 say so too. `SettingsConverge` and the theorem `DoubleReadsAlone` show that
  this is the only way to miss one: saves, kills, failures and texts put back at other
  moments do not.
* However scans of one content end, fail or are repeated, its verdict is the same,
  because the merge is a maximum that ignores failures (`VerdictsCommute`).
* A cached page survives no write that it could contradict: the counter is read
  before the page is loaded, and a page from another process (Redis outlives the
  counter) is rechecked row by row. That recheck sees what must not be shown any more
  and not what is missing, so for Redis `PagesAreFresh` promises the first only.
* A claim code counts an attempt before the transaction that consumes it: a kill
  between them costs an attempt and nothing else.
* A game login issues a session for a disabled account (`finish_game_identity`
  does not look), as a password sign-in may when it races with the disabling. It
  opens nothing while the account is disabled, and `UpdatesEndSignIns` shows that
  enabling the account ends it.
* `identities` has no index that allows one owner per verified profile; `OneOwner`
  shows that the check inside each writing transaction is enough.
* A session of an offline identity outlives a disabling of its account:
  `set_admin_account` ends the rows of `sessions` and not those of
  `cloud_offline_sessions`. It is refused while the account is disabled and works
  again if the account is enabled within the lifetime of the session (at most five
  minutes). The comment at `offline_identity.rs` 637 speaks of the feature, restarts
  and restored backups only, so `SessionsNeverRevive` leaves this case out.
* Everything else listed holds on these instances: in particular an operation
  whose lease expired under a slow handler still ends COMMITTED or FAILED
  truthfully, and a kill between two statements is repaired by the reaper.
* What an observer is told of an offline player may change under the same publisher id
  and revision: its model is made private, taken down or blocked, or comes back
  (`offline_player.rs` 269, 281). Nothing in the repository promises that the revision
  tells of it; `NoMissedChange` says what the code does keep, that it is the one
  published model or none.
* A change made through the entity world reaches a watcher only at its next
  recovery, because `publish_entity` writes the outbox and announces nothing.
  `ChangesArrive` and the first part of `NoSilentLoss` are stated for the update
  endpoints; the second part, that no cursor passes a change its client does not
  know, is stated for all, so the next recovery does bring it.

## 6. Proofs

The proof modules extend their component and TLAPS. Assumptions are the named
ASSUMEs of the components: sizes are natural numbers, null values are distinct
from the values they stand beside, sets that share a table or a name space are
disjoint, and in `Admission` the set of tasks is finite.
Every `TypeOK` is proved, and with it every invariant, action property and
refinement that a passing run checks.

`UploadPipelineProofs`: `TypeCorrect` first. `LeaseAfterOperation` needs
`StatusInv`, which ties the state of the two rows to the point the handler has
reached: the bare property is not inductive because a handler that is about to
complete an operation must still own its rows. `KeysPublishOnce` rests on
`LedgerInv`, the three parts of `OneRevisionPerKey` strengthened with what a
handler knows at `placed` and `registered`. `CommittedOperations` adds the
receipt to it. `PipelineImplementsLedger` shows step by step that registration is
`Publish`, completion is `Acknowledge` (from the invariants: the receipt is the
stored answer of the call's key), administrators map to administrators, and
every other action leaves the ledger unchanged. `ObjectsStayOrAreUndone` needs
`PlacedOrUndone`: from the moment a handler has found or renamed its object, the
object is there or its removal by a rival is on record, which covers the handler that
is about to register a revision. `CatalogListsRevisions` is inductive with the types;
it says which revisions are listed and in which order without computing the list, so
that `CatalogInOrder` needs no induction over sequences.

`AdmissionProofs`: `DrainInv` joins the counts (`PermitsCounted`), what the pauses
are in each phase of the updater (`PausesHeld`), where the updater's waits may be
(`WaitsInPhase`) and that no task is admitted from the moment a limiter was found
idle (`Drained`); neither "the snapshot is quiet" nor "no deadlock" is inductive
without all four. `NobodyOversleeps` needs in addition that a waiter which has
read the counts and not yet gone to sleep is in the same position as a sleeper.
`LimitersImplementGate` uses all of `DrainInv`: a permit is taken while the count is
below the limit, and the count is the number of tasks inside (`PermitsCounted`); the
second gate is closed, and the snapshot begins, when nobody is inside (`Drained`).

`SessionsProofs`: `Inv` has a part per table and one for the requests; `Known` says
what a request has read by the place where it is (the account before `issue`, the
profile before `link`), without which not even the types are kept. Three lemmas
reduce the forty actions to what they do to one table: `SessionChange` (insert,
narrow, refresh, end all of an account), `IdentityChange` (connect, link) and
`ProofChange` (open, take, lapse, exchange for a ticket, spend). `SessionsOK` says
that the row of a live session's sign-in is taken, which `OneSessionPerSignIn`
needs to be inductive; `ProofsUsedOnce` needs `ProofsHeldOnce`: a proof is either in
its row or with one request, and is unspent in both. `BindingsStay` follows from
`OneOwner` and the conditions of `Connect`. `SessionsImplementSignIns` joins the three
kinds of change: a step is of sessions or of identities and never of both
(`ApartSteps`), and one that uses a proof issues a session or links a profile
(`SpendingSteps`); the proof is unspent by `ProofsHeldOnce`, the accounts of a new pair
are in no other by the conditions of `Connect`, and `OneOwner` makes the move of
profiles a move from one owner to one owner.

`OfflineIdentitiesProofs`: `Consistent` is inductive as it stands. What all the
transactions that end sessions have in common is one lemma (`EndingKeeps`), and a
withdrawal is an instance of it, because the session that is withdrawn is the only one
of its identity that was not revoked. `SessionsNeverRevive` follows from it step by
step: a session is refused if it is not bound, and only an activation binds one, which
is new. `NoMissedChange` needs that what an observer was told of an identity has an
older revision than the identity has now, or is what would be told now (`AnswersHold`):
every step that changes what is published raises the revision, and a model's standing
decides only between that and nothing. `DecisionsStand` rests on `DecidedHolds`: what
was decided is what is granted. `IdentitiesImplementPresence` follows from `Consistent`
alone. Every transaction either keeps what is shown of an identity or ends its bearer
(`EndingMaps`), except an activation, a publication, a change of a model's standing
(`Hide`) and a query. A query compares bindings, sessions and their generations; that
they say the same as the bearers (`BearersHold`) is why it tells the truth of
`Presence`.

`AppearanceSyncProofs`: `SyncInv` adds to the four properties what they rest on:
answers, announcements and the channel are rows of the outbox (`Logged`); the
position of a receiver and what is held for it lie inside the channel (`InChannel`);
a role that an account had may change and is never lost entirely (`RolesKept`); and what
a client has passed it knows (`CursorKnown`, `CursorFits`). The step for `Recover`
rests on a lemma about pages: a page is an initial segment of the rows after the
cursor, and one that is not full leaves none behind. In `ServiceImplementsLog` an
accepted request commits a change under an unused id because `OneEffectPerRequest`
finds the answer of a used one, a replay repeats a row of the log, and what a watcher
learns is committed because `NoPhantoms` holds after the step.

`WorldProofs`: one invariant, `WorldInv`, with a part for each family of tables.
`OneHolderPerEntity` needs `CodesFitPolicies`: a code exists only in a world whose
policy allows codes, and policies never change; from it `ClaimsAreFinal` follows,
because managers decide only under the other policy. `ShotInv` says that every row
and tombstone was fired, that names are used once (`NamesAreUnique`), that a shot is
in the table or behind a tombstone (`TombsReplaceShots`) and that one that is over is
withdrawn or gone (`OverIsOver`); none of these is inductive alone. `SharesAreChosen`
follows from `SharesWereOffered`, which every publication restores. A withdrawn motion
is dead (`WithdrawnIsDead`) because the lease is longer than no time at all.
`CleanupIsInvisible` is an argument about one step: what is removed at `t` was no
longer shown at `t`, and `t` is not later than `now`.

`ServiceProofs`: `VerdictInv` is almost the property itself. `SettingsInv` says what the
file, the credentials and the database are at each point of a job: which credential
files are staged and by whom, that the database has the policy in use or that of the job
that has committed. `SettingsAgreeAlways` follows from it, whatever editors do.
`DoubleReadsAlone` is about the violated `EditsAreAdopted`: it holds in every behaviour
in which no edit falls between the two reads of a poll (`OneRead`), because then a mark
of the present generation is of the text in use (`WatcherInv`): a start forgets the mark
and everything that is installed raises the generation. `PageInv` is about every page
that may still be answered from memory, those loaded and not yet kept included: it was
loaded under a counter that is not in the future, and if the counter is the present one,
the page is the present directory. So a request, whose key has the counter of its
beginning, finds only pages that were true since then. `TypeCorrect` needs `MediaInv`: a
scan names an asset and a content, and what a renderer is about to record is a picture
of a revision there is, because revisions are only appended. `RivalsAlone` is about the
violated `PicturesAreWhole`: it holds in every behaviour in which no two renderers are
between opening and renaming the file of one picture (`Apart`, a condition of the
theorem and no assumption about the code), because then a renderer still has under its
temporary name what it wrote (`Writers`).

Only model-checked: liveness, which is out of the prover's reach (no ENABLED, no
fairness reasoning): `TempsAreReclaimed`, `LeasedOperationsSettle`, `ChangesArrive`,
`DrainEnds`, `WaitersAreAdmitted`, `SettingsConverge`. The five violated properties
stay with TLC too.

## 7. Not modelled

Listed per component in `PROJECT.json`. Out of scope on purpose: parsing,
validation and formatting of payloads and configuration, model decoding and
rendering, SQL dialects and migration, the restart helper script, the web
interface and deployment files. Errors of single SQL statements (disk full, lost
database) are not modelled except as a killed process.

Closer to what is modelled, and left out:

* Settings: a write to the same database by another process (`external_version`); a
  failure inside the rollback of a failed save; a credential file whose contents
  change while its name stays; providers that are listed and disabled; environment
  overrides; an edit that is made between the last check of a save and its
  replacement of the file (`admin_settings.rs` 411), which is lost; a commit whose
  outcome MySQL does not tell; export, import and snapshots between databases.
* Catalog: searching, sorting and several pages; a request is for the first one.
* Worlds: request rates and limits on the length of queries, which only refuse; the
  provenance of observed bindings, which is only listed.
* The legacy identity challenges of `store.rs` are reached by tests only.
