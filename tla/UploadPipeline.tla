--------------------------- MODULE UploadPipeline ---------------------------
(* POST /v1/assets (api.rs, upload_asset_as) and the store operations and    *)
(* background reaper it works with.  One call is one HTTP request; a client  *)
(* that retries issues another call with the same idempotency key.  Every    *)
(* action is one stretch of the handler between two points where another     *)
(* task can run: an await, or the release of the database mutex.             *)
EXTENDS Naturals, Sequences, FiniteSets

CONSTANTS
  Calls,       \* upload requests; each is issued at most once
  Accounts, Assets, Contents, Keys,
  Requests,    \* the [account, key, asset, content] a client may send
  NoOne,       \* owner of an asset that does not exist
  NoReply,     \* "no response stored" and "no response held"
  NoJob,       \* what a call works on before it is issued
  MaxCrashes,  \* bound on server crashes
  MaxAdmin     \* bound on administrator operations

ASSUME RequestsAssumption ==
  Requests \subseteq [account : Accounts, key : Keys,
                      asset : Assets, content : Contents]
ASSUME NoOneAssumption == NoOne \notin Accounts
ASSUME BoundsAssumption == MaxCrashes \in Nat /\ MaxAdmin \in Nat

(* An upload to a name another account owns goes to a suffixed name. *)
Suffixed(asset, account) == <<asset, account>>
AssetIds == Assets \cup (Assets \X Accounts)

Reply == [asset : AssetIds, content : Contents, revision : Nat \ {0}]
ASSUME NoReplyAssumption == NoReply \notin Reply
Job == [account : Accounts, key : Keys, asset : AssetIds, content : Contents]
ASSUME NoJobAssumption == NoJob \notin Job

VARIABLES
  \* tables of the database, which survive a crash
  owner,       \* assets.owner_account_id
  revisions,   \* asset_revisions.raw_sha256, by asset, oldest first
  catalog,     \* catalog_events, in sequence order
  tombstones,  \* deleted_assets
  idempotency, \* the response stored for <<account, key>>, or NoReply
  op,          \* upload_operations.status of the call
  lease,       \* upload_leases.state of the call
  \* the object directory, which survives a crash
  temp,        \* calls whose .upload-* file exists
  objects,     \* contents whose object file exists
  \* the server process
  pc,          \* where the call's handler is
  job,         \* what the call works on, with the asset id it resolved
  existed,     \* object_already_exists, as the call saw it
  receipt,     \* the summary register_asset returned to the call
  reaping,     \* temporary files the reaper has yet to remove
  \* time and bounds
  age,         \* 0: young, 1: the lease is due, 2: the file is stale as well
  crashes, admins,
  \* history
  undone       \* contents whose object a failed registration removed

dbVars == <<owner, revisions, catalog, tombstones, idempotency>>
opVars == <<op, lease>>
fileVars == <<temp, objects>>
callVars == <<pc, job, existed, receipt>>
boundVars == <<crashes, admins>>
vars == <<owner, revisions, catalog, tombstones, idempotency, op, lease, temp,
          objects, pc, job, existed, receipt, reaping, age, crashes, admins,
          undone>>

Init ==
  /\ owner = [id \in AssetIds |-> NoOne]
  /\ revisions = [id \in AssetIds |-> << >>]
  /\ catalog = << >>
  /\ tombstones = {}
  /\ idempotency = [k \in Accounts \X Keys |-> NoReply]
  /\ op = [c \in Calls |-> "NONE"]
  /\ lease = [c \in Calls |-> "NONE"]
  /\ temp = {}
  /\ objects = {}
  /\ pc = [c \in Calls |-> "idle"]
  /\ job = [c \in Calls |-> NoJob]
  /\ existed = [c \in Calls |-> FALSE]
  /\ receipt = [c \in Calls |-> NoReply]
  /\ reaping = {}
  /\ age = [c \in Calls |-> 0]
  /\ crashes = 0
  /\ admins = 0
  /\ undone = {}

----------------------------------------------------------------------------
(* The handler, step by step. *)

At(c, here) == pc[c] = here
Goto(c, there) == pc' = [pc EXCEPT ![c] = there]

(* resolve_upload_asset_id: the asset a request writes to. *)
Resolved(r) ==
  IF owner[r.asset] \in {NoOne, r.account}
    THEN r.asset
    ELSE Suffixed(r.asset, r.account)

(* Neither the requested name nor its suffixed form may be taken down. *)
Refused(r) == r.asset \in tombstones \/ Resolved(r) \in tombstones

Issue(c) ==
  /\ At(c, "idle")
  /\ \E r \in Requests :
       IF Refused(r)
         THEN Goto(c, "done") /\ UNCHANGED job
         ELSE /\ Goto(c, "resolved")
              /\ job' = [job EXCEPT ![c] = [r EXCEPT !.asset = Resolved(r)]]
  /\ UNCHANGED <<dbVars, opVars, fileVars, existed, receipt, reaping, age,
                 boundVars, undone>>

(* A declared length over the limit fails the operation before any lease;   *)
(* otherwise create_upload_lease follows.                                   *)
BeginOperation(c) ==
  /\ At(c, "resolved")
  /\ op' = [op EXCEPT ![c] = "RECEIVING"]
  /\ Goto(c, "failing") \/ Goto(c, "begun")
  /\ UNCHANGED <<dbVars, lease, fileVars, job, existed, receipt, reaping, age,
                 boundVars, undone>>

CreateLease(c) ==
  /\ At(c, "begun")
  /\ lease' = [lease EXCEPT ![c] = "ACTIVE"]
  /\ Goto(c, "leased")
  /\ UNCHANGED <<dbVars, op, fileVars, job, existed, receipt, reaping, age,
                 boundVars, undone>>

CreateTemp(c) ==
  /\ At(c, "leased")
  /\ temp' = temp \cup {c}
  /\ Goto(c, "receiving")
  /\ UNCHANGED <<dbVars, opVars, objects, job, existed, receipt, reaping, age,
                 boundVars, undone>>

(* The body arrives; it is kept, or it is too large, empty or has another   *)
(* hash than announced.  Its last write makes the file young again.         *)
ReceiveBody(c) ==
  /\ At(c, "receiving")
  /\ Goto(c, "received") \/ Goto(c, "discarding")
  /\ age' = [age EXCEPT ![c] = IF @ = 2 THEN 1 ELSE @]
  /\ UNCHANGED <<dbVars, opVars, fileVars, job, existed, receipt, reaping,
                 boundVars, undone>>

(* The scan is awaited, its result saved, and the content policy enforced.  *)
Scan(c) ==
  /\ At(c, "received")
  /\ Goto(c, "scanned") \/ Goto(c, "discarding")
  /\ UNCHANGED <<dbVars, opVars, fileVars, job, existed, receipt, reaping, age,
                 boundVars, undone>>

Discard(c) ==
  /\ At(c, "discarding")
  /\ temp' = temp \ {c}
  /\ Goto(c, "failing")
  /\ UNCHANGED <<dbVars, opVars, objects, job, existed, receipt, reaping, age,
                 boundVars, undone>>

(* Mutant: an error of try_exists counts as "the object is there". *)
ProbeHopeful(c) ==
  /\ At(c, "scanned")
  /\ \E seen \in {TRUE, job[c].content \in objects} :
       existed' = [existed EXCEPT ![c] = seen]
  /\ Goto(c, "probed")
  /\ UNCHANGED <<dbVars, opVars, fileVars, job, receipt, reaping, age,
                 boundVars, undone>>

Probe(c) ==
  /\ At(c, "scanned")
  /\ existed' = [existed EXCEPT ![c] = job[c].content \in objects]
  /\ Goto(c, "probed")
  /\ UNCHANGED <<dbVars, opVars, fileVars, job, receipt, reaping, age,
                 boundVars, undone>>

(* The temporary file is dropped when the object was there, and renamed to  *)
(* it otherwise.  A rename whose source the reaper took returns an error.   *)
Place(c) ==
  /\ At(c, "probed")
  /\ \/ /\ existed[c]
        /\ Goto(c, "placed")
        /\ UNCHANGED objects
     \/ /\ ~existed[c]
        /\ c \in temp
        /\ Goto(c, "placed")
        /\ objects' = objects \cup {job[c].content}
     \/ /\ ~existed[c]
        /\ c \notin temp
        /\ Goto(c, "done")
        /\ UNCHANGED objects
  /\ temp' = temp \ {c}
  /\ UNCHANGED <<dbVars, opVars, job, existed, receipt, reaping, age,
                 boundVars, undone>>

(* register_asset_with_visibility: one transaction.  A stored response for  *)
(* the key is returned if it answers the same request and is a conflict     *)
(* otherwise; a new revision needs an asset in service that nobody else     *)
(* owns.                                                                     *)
KeyOf(c) == <<job[c].account, job[c].key>>
(* Mutant: the stored response is not looked up. *)
StoredForgotten(c) == NoReply
Stored(c) == idempotency[KeyOf(c)]
(* Mutant: the request hash leaves the content out. *)
SameRequestByName(c) == Stored(c).asset = job[c].asset
SameRequest(c) ==
  Stored(c).asset = job[c].asset /\ Stored(c).content = job[c].content
(* Mutant: the check made when the name was resolved is trusted. *)
InServiceAsResolved(c) == At(c, "placed")
InService(c) == job[c].asset \notin tombstones
OwnedOrNew(c) == owner[job[c].asset] \in {NoOne, job[c].account}

(* Mutant: the event sequence taken for the revision.                        *)
NewReplyBySequence(c) == [asset |-> job[c].asset, content |-> job[c].content,
                          revision |-> Len(catalog) + 1]
NewReply(c) == [asset |-> job[c].asset, content |-> job[c].content,
                revision |-> Len(revisions[job[c].asset]) + 1]

RegisterReplay(c) ==
  /\ At(c, "placed")
  /\ Stored(c) # NoReply
  /\ SameRequest(c)
  /\ receipt' = [receipt EXCEPT ![c] = Stored(c)]
  /\ Goto(c, "registered")
  /\ UNCHANGED <<dbVars, opVars, fileVars, job, existed, reaping, age,
                 boundVars, undone>>

RegisterRevision(c) ==
  /\ At(c, "placed")
  /\ Stored(c) = NoReply
  /\ InService(c)
  /\ OwnedOrNew(c)
  /\ owner' = [owner EXCEPT ![job[c].asset] = job[c].account]
  /\ revisions' = [revisions EXCEPT
                     ![job[c].asset] = Append(@, job[c].content)]
  /\ catalog' = Append(catalog, [tenant |-> job[c].account,
                                 asset |-> job[c].asset,
                                 revision |-> NewReply(c).revision])
  /\ idempotency' = [idempotency EXCEPT ![KeyOf(c)] = NewReply(c)]
  /\ receipt' = [receipt EXCEPT ![c] = NewReply(c)]
  /\ Goto(c, "registered")
  /\ UNCHANGED <<tombstones, opVars, fileVars, job, existed, reaping, age,
                 boundVars, undone>>

(* A registration that fails takes back the object, but only when the call  *)
(* did not find it there.  Metadata that registration would not accept       *)
(* (store.rs 2117-2130) takes the same way and is left out: the calls of the *)
(* model carry valid ones.                                                   *)
RegisterRefused(c) ==
  IF Stored(c) # NoReply
    THEN ~SameRequest(c)
    ELSE ~InService(c) \/ ~OwnedOrNew(c)

RegisterError(c) ==
  /\ At(c, "placed")
  /\ RegisterRefused(c)
  /\ Goto(c, IF existed[c] THEN "failing" ELSE "undoing")
  /\ UNCHANGED <<dbVars, opVars, fileVars, job, existed, receipt, reaping, age,
                 boundVars, undone>>

UndoPlace(c) ==
  /\ At(c, "undoing")
  /\ objects' = objects \ {job[c].content}
  /\ undone' = undone \cup {job[c].content}
  /\ Goto(c, "failing")
  /\ UNCHANGED <<dbVars, opVars, temp, job, existed, receipt, reaping, age,
                 boundVars>>

(* fail_upload_operation and complete_upload_operation: two statements      *)
(* under one hold of the database mutex, each committed on its own.          *)
FailedStatus(c) == IF op[c] \in {"COMMITTED", "FAILED"} THEN op[c] ELSE "FAILED"
FailedLease(c) == IF lease[c] = "ACTIVE" THEN "FAILED" ELSE lease[c]

FailOperation(c) ==
  /\ At(c, "failing")
  /\ op' = [op EXCEPT ![c] = FailedStatus(c)]
  /\ lease' = [lease EXCEPT ![c] = FailedLease(c)]
  /\ Goto(c, "done")
  /\ UNCHANGED <<dbVars, fileVars, job, existed, receipt, reaping, age,
                 boundVars, undone>>

CompleteOperation(c) ==
  /\ At(c, "registered")
  /\ op' = [op EXCEPT ![c] = "COMMITTED"]
  /\ lease' = [lease EXCEPT ![c] = "COMMITTED"]
  /\ Goto(c, "done")
  /\ UNCHANGED <<dbVars, fileVars, job, existed, receipt, reaping, age,
                 boundVars, undone>>

(* The handler's future is dropped when the client disconnects, and returns *)
(* early when an awaited file operation fails.  Either happens only at an   *)
(* await, and leaves the operation as it is.                                 *)
AtAwait(c) ==
  \/ pc[c] \in {"leased", "receiving", "discarding", "received", "scanned",
                "probed", "placed", "undoing"}
  \/ pc[c] = "failing" /\ lease[c] # "NONE" /\ ~existed[c]

Abandon(c) ==
  /\ AtAwait(c)
  /\ Goto(c, "done")
  /\ UNCHANGED <<dbVars, opVars, fileVars, job, existed, receipt, reaping, age,
                 boundVars, undone>>

----------------------------------------------------------------------------
(* The reaper: a loop that reconciles leases, removes the files of those    *)
(* that just expired and then every .upload-* file not written to for long. *)

IsDue(c) == lease[c] = "ACTIVE" /\ age[c] >= 1
ReconciledLease(c) == IF IsDue(c) THEN "EXPIRED" ELSE lease[c]
(* Mutant: only the leases this call expires are followed. *)
ReconciledStatusOfDue(c) ==
  IF op[c] = "RECEIVING" /\ IsDue(c) THEN "EXPIRED" ELSE op[c]

ReconciledStatus(c) ==
  IF op[c] = "RECEIVING" /\ ReconciledLease(c) = "EXPIRED"
    THEN "EXPIRED"
    ELSE op[c]

Reconcile ==
  /\ reaping = {}
  /\ lease' = [c \in Calls |-> ReconciledLease(c)]
  /\ op' = [c \in Calls |-> ReconciledStatus(c)]
  /\ reaping' = {c \in Calls : IsDue(c)}
  /\ UNCHANGED <<dbVars, fileVars, callVars, age, boundVars, undone>>

RemoveLeased(c) ==
  /\ c \in reaping
  /\ temp' = temp \ {c}
  /\ reaping' = reaping \ {c}
  /\ UNCHANGED <<dbVars, opVars, objects, callVars, age, boundVars, undone>>

(* Mutant: a file is left alone while a handler may still be writing it. *)
RemoveStaleOfEnded(c) ==
  /\ reaping = {}
  /\ c \in temp
  /\ age[c] = 2
  /\ At(c, "done")
  /\ temp' = temp \ {c}
  /\ UNCHANGED <<dbVars, opVars, objects, callVars, reaping, age, boundVars,
                 undone>>

RemoveStale(c) ==
  /\ reaping = {}
  /\ c \in temp
  /\ age[c] = 2
  /\ temp' = temp \ {c}
  /\ UNCHANGED <<dbVars, opVars, objects, callVars, reaping, age, boundVars,
                 undone>>

(* Fifteen minutes pass: since the lease was created, then since the last   *)
(* write to the file.  Time is told only where something still depends on it.*)
LeaseComesDue(c) ==
  /\ lease[c] = "ACTIVE" \/ c \in temp
  /\ age[c] = 0
  /\ age' = [age EXCEPT ![c] = 1]
  /\ UNCHANGED <<dbVars, opVars, fileVars, callVars, reaping, boundVars,
                 undone>>

TempGoesStale(c) ==
  /\ c \in temp
  /\ age[c] = 1
  /\ age' = [age EXCEPT ![c] = 2]
  /\ UNCHANGED <<dbVars, opVars, fileVars, callVars, reaping, boundVars,
                 undone>>

----------------------------------------------------------------------------
(* The process dies and is restarted.  A kill can fall between the two      *)
(* statements of an operation on upload_operations and upload_leases.       *)

Die ==
  /\ crashes < MaxCrashes
  /\ crashes' = crashes + 1
  /\ pc' = [c \in Calls |-> IF At(c, "idle") THEN "idle" ELSE "done"]
  /\ reaping' = {}
  /\ UNCHANGED <<dbVars, fileVars, job, existed, receipt, age, admins, undone>>

Crash == Die /\ UNCHANGED opVars

CrashInFail(c) ==
  /\ At(c, "failing")
  /\ op' = [op EXCEPT ![c] = FailedStatus(c)]
  /\ Die
  /\ UNCHANGED lease

(* Mutant: the lease is committed before the operation. *)
CrashInCompleteLeaseFirst(c) ==
  /\ At(c, "registered")
  /\ lease' = [lease EXCEPT ![c] = "COMMITTED"]
  /\ Die
  /\ UNCHANGED op

CrashInComplete(c) ==
  /\ At(c, "registered")
  /\ op' = [op EXCEPT ![c] = "COMMITTED"]
  /\ Die
  /\ UNCHANGED lease

CrashInReconcile ==
  /\ reaping = {}
  /\ lease' = [c \in Calls |-> ReconciledLease(c)]
  /\ Die
  /\ UNCHANGED op

----------------------------------------------------------------------------
(* Administrators: admin_delete_asset and assign_asset_owner. *)

Administer(id) ==
  /\ admins < MaxAdmin
  /\ admins' = admins + 1
  /\ owner[id] # NoOne
  /\ UNCHANGED <<revisions, catalog, idempotency, opVars, fileVars, callVars,
                 reaping, age, crashes, undone>>

DeleteAsset(id) ==
  /\ Administer(id)
  /\ tombstones' = tombstones \cup {id}
  /\ UNCHANGED owner

RestoreAsset(id) ==
  /\ Administer(id)
  /\ tombstones' = tombstones \ {id}
  /\ UNCHANGED owner

AssignOwner(id, a) ==
  /\ Administer(id)
  /\ owner' = [owner EXCEPT ![id] = a]
  /\ UNCHANGED tombstones

----------------------------------------------------------------------------
Register(c) == RegisterReplay(c) \/ RegisterRevision(c) \/ RegisterError(c)

Handle(c) ==
  \/ Issue(c) \/ BeginOperation(c) \/ CreateLease(c) \/ CreateTemp(c)
  \/ ReceiveBody(c) \/ Scan(c) \/ Discard(c) \/ Probe(c) \/ Place(c)
  \/ Register(c) \/ UndoPlace(c) \/ FailOperation(c) \/ CompleteOperation(c)
  \/ Abandon(c)

Reap == Reconcile \/ \E c \in Calls : RemoveLeased(c) \/ RemoveStale(c)

TimePasses == \E c \in Calls : LeaseComesDue(c) \/ TempGoesStale(c)

Fail ==
  \/ Crash \/ CrashInReconcile
  \/ \E c \in Calls : CrashInFail(c) \/ CrashInComplete(c)

Manage ==
  \E id \in AssetIds :
    \/ DeleteAsset(id) \/ RestoreAsset(id)
    \/ \E a \in Accounts : AssignOwner(id, a)

Next == (\E c \in Calls : Handle(c)) \/ Reap \/ TimePasses \/ Fail \/ Manage

Spec == Init /\ [][Next]_vars

(* The reaper runs every second and time passes.  Nothing is assumed of a   *)
(* call: its client may stall for ever.                                      *)
Fairness ==
  /\ WF_vars(Reconcile)
  /\ \A c \in Calls :
       /\ WF_vars(RemoveLeased(c))
       /\ WF_vars(RemoveStale(c))
       /\ WF_vars(LeaseComesDue(c))
       /\ WF_vars(TempGoesStale(c))

FairSpec == Spec /\ Fairness

----------------------------------------------------------------------------
Points == {"idle", "resolved", "begun", "leased", "receiving", "discarding",
           "received", "scanned", "probed", "placed", "undoing", "registered",
           "failing", "done"}

(* Every table, file set and handler state is of its kind (the schema of     *)
(* upload_operations, upload_leases, assets, asset_revisions, idempotency).  *)
TypeOK ==
  /\ owner \in [AssetIds -> Accounts \cup {NoOne}]
  /\ revisions \in [AssetIds -> Seq(Contents)]
  /\ catalog \in Seq([tenant : Accounts, asset : AssetIds,
                      revision : Nat \ {0}])
  /\ tombstones \subseteq AssetIds
  /\ idempotency \in [Accounts \X Keys -> Reply \cup {NoReply}]
  /\ op \in [Calls -> {"NONE", "RECEIVING", "COMMITTED", "FAILED", "EXPIRED"}]
  /\ lease \in [Calls -> {"NONE", "ACTIVE", "COMMITTED", "FAILED", "EXPIRED"}]
  /\ temp \subseteq Calls
  /\ objects \subseteq Contents
  /\ pc \in [Calls -> Points]
  /\ job \in [Calls -> Job \cup {NoJob}]
  /\ existed \in [Calls -> BOOLEAN]
  /\ receipt \in [Calls -> Reply \cup {NoReply}]
  /\ reaping \subseteq Calls
  /\ age \in [Calls -> 0..2]
  /\ crashes \in 0..MaxCrashes
  /\ admins \in 0..MaxAdmin
  /\ undone \subseteq Contents

(* The answer names a revision that exists and has the content it says. *)
Names(reply) ==
  /\ reply.revision \in DOMAIN revisions[reply.asset]
  /\ revisions[reply.asset][reply.revision] = reply.content

(* However calls with the same idempotency key race, fail, crash and are     *)
(* retried, every revision is the stored answer of exactly one key, and      *)
(* every stored answer names a revision (register_asset_with_visibility).    *)
OneRevisionPerKey ==
  /\ \A k \in Accounts \X Keys :
       idempotency[k] # NoReply => Names(idempotency[k])
  /\ \A id \in AssetIds : \A n \in DOMAIN revisions[id] :
       \E k \in Accounts \X Keys :
         /\ idempotency[k] # NoReply
         /\ idempotency[k].asset = id /\ idempotency[k].revision = n
  /\ \A k, l \in Accounts \X Keys :
       (idempotency[k] # NoReply /\ idempotency[k] = idempotency[l]) => k = l

(* An operation row says COMMITTED only when the revision it names is in the *)
(* catalogue with the content this call uploaded, whatever crash or lease    *)
(* expiry came between registration and completion.                          *)
CommittedMeansRegistered ==
  \A c \in Calls : op[c] = "COMMITTED" =>
    /\ receipt[c] # NoReply
    /\ receipt[c] = Stored(c)
    /\ receipt[c].content = job[c].content
    /\ Names(receipt[c])

(* The lease row never runs ahead of the operation row: a kill between the   *)
(* two statements leaves the lease behind, for the reaper to expire, and an  *)
(* operation expires only with its lease.                                     *)
LeaseFollowsOperation ==
  \A c \in Calls :
    /\ lease[c] = "COMMITTED" => op[c] = "COMMITTED"
    /\ lease[c] = "FAILED" => op[c] = "FAILED"
    /\ op[c] = "EXPIRED" => lease[c] = "EXPIRED"

(* A registered revision loses its object in one way only: a registration    *)
(* that failed removed an object of the same content.  Neither the reaper    *)
(* nor a crash nor a lost race to create the object does it.                 *)
ObjectsLostOnlyByUndo ==
  \A id \in AssetIds : \A n \in DOMAIN revisions[id] :
    revisions[id][n] \in objects \cup undone

(* "An asset revision stores the original bytes" (docs/PROTOCOL_V1.md): the  *)
(* object of every registered revision exists.                               *)
RevisionsHaveObjects ==
  \A id \in AssetIds : \A n \in DOMAIN revisions[id] :
    revisions[id][n] \in objects

(* A client that replays the catalogue events from the start meets the       *)
(* revisions of an asset in order, each exactly once, whoever published them.*)
CatalogListsRevisions ==
  /\ \A m \in DOMAIN catalog :
       catalog[m].revision \in DOMAIN revisions[catalog[m].asset]
  /\ \A m, n \in DOMAIN catalog :
       (m < n /\ catalog[m].asset = catalog[n].asset)
         => catalog[m].revision < catalog[n].revision
  /\ \A id \in AssetIds : \A r \in DOMAIN revisions[id] :
       \E m \in DOMAIN catalog :
         catalog[m].asset = id /\ catalog[m].revision = r

(* Every temporary file is removed in the end, also the one of a call that   *)
(* stalls, of a call that lost its process, and of a reaper killed between   *)
(* expiring the lease and removing the file.                                 *)
TempsAreReclaimed == \A c \in Calls : c \in temp ~> c \notin temp

(* An operation that has a lease does not stay RECEIVING for ever. *)
LeasedOperationsSettle ==
  \A c \in Calls :
    (op[c] = "RECEIVING" /\ lease[c] # "NONE") ~> op[c] # "RECEIVING"

(* The pipeline implements the ledger: what a client was told is what its    *)
(* operation row says once it is COMMITTED.                                   *)
Ledger == INSTANCE AssetLedger WITH
  retired <- tombstones,
  claims <- idempotency,
  receipts <- [c \in Calls |->
                 IF op[c] = "COMMITTED" THEN receipt[c] ELSE NoReply]

(* The pipeline implements the ledger. *)
ImplementsLedger == Ledger!Spec
=============================================================================
