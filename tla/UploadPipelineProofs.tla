------------------------ MODULE UploadPipelineProofs ------------------------
(* Theorems about UploadPipeline, for every set of calls, accounts, assets,  *)
(* contents, keys and requests and every bound on crashes and administrators.*)
EXTENDS UploadPipeline, TLAPS

LEMMA NamesAreAssets ==
  \A r \in Requests : Resolved(r) \in AssetIds
BY RequestsAssumption, SMT DEF Resolved, Suffixed, AssetIds

LEMMA IssuedJobs ==
  \A r \in Requests : [r EXCEPT !.asset = Resolved(r)] \in Job
BY NamesAreAssets, RequestsAssumption DEF Job

(* What a call works on is known at every point of its handler where it is   *)
(* used (the locals of upload_asset_as).                                      *)
JobKnown ==
  \A c \in Calls : pc[c] \notin {"idle", "done"} => job[c] \in Job

TypeInv == TypeOK /\ JobKnown

LEMMA TypeInit == Init => TypeInv
BY BoundsAssumption DEF Init, TypeInv, TypeOK, JobKnown, Points

LEMMA NewReplyType ==
  ASSUME TypeInv, NEW c \in Calls, pc[c] = "placed"
  PROVE  /\ NewReply(c) \in Reply
         /\ KeyOf(c) \in Accounts \X Keys
         /\ job[c].asset \in AssetIds
         /\ job[c].content \in Contents
         /\ job[c].account \in Accounts
         /\ Len(revisions[job[c].asset]) \in Nat
<1>1. job[c] \in Job
  BY DEF TypeInv, JobKnown
<1>2. revisions[job[c].asset] \in Seq(Contents)
  BY <1>1 DEF TypeInv, TypeOK, Job
<1>3. Len(revisions[job[c].asset]) \in Nat
  BY <1>2
<1> QED
  BY <1>1, <1>3 DEF Job, NewReply, Reply, KeyOf

LEMMA TypeHandle ==
  ASSUME TypeInv, NEW c \in Calls, Handle(c)
  PROVE  TypeInv'
<1> USE DEF TypeInv, TypeOK, JobKnown, Points, At, Goto, dbVars, opVars,
            fileVars, boundVars
<1>1. CASE Issue(c)
  <2>1. CASE Goto(c, "done") /\ UNCHANGED job
    BY <1>1, <2>1 DEF Issue
  <2>2. CASE \E r \in Requests :
               /\ Goto(c, "resolved")
               /\ job' = [job EXCEPT ![c] = [r EXCEPT !.asset = Resolved(r)]]
    <3>1. PICK j \in Job : job' = [job EXCEPT ![c] = j]
      BY <2>2, IssuedJobs
    <3> QED
      BY <1>1, <2>2, <3>1 DEF Issue
  <2> QED
    BY <1>1, <2>1, <2>2 DEF Issue
<1>2. CASE BeginOperation(c)
  BY <1>2 DEF BeginOperation
<1>3. CASE CreateLease(c)
  BY <1>3 DEF CreateLease
<1>4. CASE CreateTemp(c)
  BY <1>4 DEF CreateTemp
<1>5. CASE ReceiveBody(c)
  <2>1. age' \in [Calls -> 0..2]
    BY <1>5 DEF ReceiveBody
  <2>2. pc' \in [Calls -> Points] /\ JobKnown'
    BY <1>5 DEF ReceiveBody
  <2> QED
    BY <1>5, <2>1, <2>2 DEF ReceiveBody
<1>6. CASE Scan(c)
  BY <1>6 DEF Scan
<1>7. CASE Discard(c)
  BY <1>7 DEF Discard
<1>8. CASE Probe(c)
  BY <1>8 DEF Probe
<1>9. CASE Place(c)
  BY <1>9, ZenonT(60) DEF Place, Job
<1>10. CASE RegisterReplay(c)
  <2>1. Stored(c) \in Reply
    BY <1>10, NewReplyType DEF RegisterReplay, Stored
  <2> QED
    BY <1>10, <2>1 DEF RegisterReplay
<1>11. CASE RegisterRevision(c)
  <2> DEFINE event == [tenant |-> job[c].account, asset |-> job[c].asset,
                       revision |-> NewReply(c).revision]
  <2>1. /\ NewReply(c) \in Reply
        /\ KeyOf(c) \in Accounts \X Keys
        /\ job[c].asset \in AssetIds
        /\ job[c].content \in Contents
        /\ job[c].account \in Accounts
    BY <1>11, NewReplyType DEF RegisterRevision
  <2>2. owner' \in [AssetIds -> Accounts \cup {NoOne}]
    BY <1>11, <2>1 DEF RegisterRevision
  <2>3. revisions' \in [AssetIds -> Seq(Contents)]
    BY <1>11, <2>1 DEF RegisterRevision
  <2>4. event \in [tenant : Accounts, asset : AssetIds,
                   revision : Nat \ {0}]
    BY <2>1 DEF Reply
  <2>5. catalog' \in Seq([tenant : Accounts, asset : AssetIds,
                          revision : Nat \ {0}])
    BY <1>11, <2>4 DEF RegisterRevision
  <2>6. idempotency' \in [Accounts \X Keys -> Reply \cup {NoReply}]
    BY <1>11, <2>1 DEF RegisterRevision
  <2>7. receipt' \in [Calls -> Reply \cup {NoReply}]
    BY <1>11, <2>1 DEF RegisterRevision
  <2>8. pc' \in [Calls -> Points] /\ JobKnown'
    BY <1>11 DEF RegisterRevision
  <2> QED
    BY <1>11, <2>2, <2>3, <2>5, <2>6, <2>7, <2>8 DEF RegisterRevision
<1>12. CASE RegisterError(c)
  BY <1>12 DEF RegisterError
<1>13. CASE UndoPlace(c)
  BY <1>13 DEF UndoPlace, Job
<1>14. CASE FailOperation(c)
  BY <1>14 DEF FailOperation, FailedStatus, FailedLease
<1>15. CASE CompleteOperation(c)
  BY <1>15 DEF CompleteOperation
<1>16. CASE Abandon(c)
  BY <1>16 DEF Abandon
<1> QED
  BY <1>1, <1>2, <1>3, <1>4, <1>5, <1>6, <1>7, <1>8, <1>9, <1>10, <1>11,
     <1>12, <1>13, <1>14, <1>15, <1>16 DEF Handle, Register

LEMMA TypeReap ==
  ASSUME TypeInv, Reap
  PROVE  TypeInv'
<1> USE DEF TypeInv, TypeOK, JobKnown, dbVars, opVars, fileVars, callVars,
            boundVars
<1>1. CASE Reconcile
  BY <1>1 DEF Reconcile, ReconciledLease, ReconciledStatus
<1>2. ASSUME NEW c \in Calls, RemoveLeased(c) \/ RemoveStale(c)
      PROVE  TypeInv'
  BY <1>2 DEF RemoveLeased, RemoveStale
<1> QED
  BY <1>1, <1>2 DEF Reap

LEMMA TypeTime ==
  ASSUME TypeInv, TimePasses
  PROVE  TypeInv'
BY DEF TimePasses, LeaseComesDue, TempGoesStale, TypeInv, TypeOK, JobKnown,
       dbVars, opVars, fileVars, callVars, boundVars

LEMMA TypeFail ==
  ASSUME TypeInv, Fail
  PROVE  TypeInv'
<1> USE BoundsAssumption DEF TypeInv, TypeOK, JobKnown, dbVars, fileVars
<1>1. Die => crashes' \in 0..MaxCrashes
  BY DEF Die
<1>2. Die => pc' \in [Calls -> Points] /\ JobKnown'
  BY DEF Die, Points, At
<1>3. CASE Crash
  BY <1>1, <1>2, <1>3 DEF Crash, Die, opVars
<1>4. CASE CrashInReconcile
  BY <1>1, <1>2, <1>4 DEF CrashInReconcile, Die, ReconciledLease
<1>5. ASSUME NEW c \in Calls, CrashInFail(c) \/ CrashInComplete(c)
      PROVE  TypeInv'
  BY <1>1, <1>2, <1>5, ZenonT(60)
  DEF CrashInFail, CrashInComplete, Die, FailedStatus
<1> QED
  BY <1>3, <1>4, <1>5 DEF Fail

LEMMA TypeManage ==
  ASSUME TypeInv, Manage
  PROVE  TypeInv'
<1> USE BoundsAssumption DEF TypeInv, TypeOK, JobKnown, opVars, fileVars,
                             callVars
<1>1. PICK id \in AssetIds :
        \/ DeleteAsset(id) \/ RestoreAsset(id)
        \/ \E a \in Accounts : AssignOwner(id, a)
  BY DEF Manage
<1>2. Administer(id) => admins' \in 0..MaxAdmin
  BY DEF Administer
<1>3. CASE DeleteAsset(id) \/ RestoreAsset(id)
  BY <1>2, <1>3 DEF DeleteAsset, RestoreAsset, Administer
<1>4. CASE \E a \in Accounts : AssignOwner(id, a)
  BY <1>2, <1>4 DEF AssignOwner, Administer
<1> QED
  BY <1>1, <1>3, <1>4

LEMMA TypeStep ==
  ASSUME TypeInv, [Next]_vars
  PROVE  TypeInv'
<1>1. CASE UNCHANGED vars
  BY <1>1 DEF TypeInv, TypeOK, JobKnown, vars
<1> QED
  BY <1>1, TypeHandle, TypeReap, TypeTime, TypeFail, TypeManage DEF Next

(* Every table, file set and handler state is of its kind, whatever calls,   *)
(* crashes and administrators do.                                             *)
THEOREM TypeCorrect == Spec => []TypeOK
<1>1. Spec => []TypeInv
  BY TypeInit, TypeStep, PTL DEF Spec
<1> QED
  BY <1>1, PTL DEF TypeInv
----------------------------------------------------------------------------
(* What the rows of upload_operations and upload_leases say at each point of *)
(* the handler: LeaseFollowsOperation alone is not inductive, because it     *)
(* does not say that a call which is still failing has not committed.        *)
StatusOrder ==
  \A c \in Calls :
    /\ pc[c] \in {"idle", "resolved", "begun"} => lease[c] = "NONE"
    /\ op[c] = "COMMITTED" => pc[c] = "done"
    /\ lease[c] = "FAILED" => pc[c] = "done"

StatusInv == TypeInv /\ StatusOrder /\ LeaseFollowsOperation

LEMMA StatusInit == Init => StatusInv
BY TypeInit DEF Init, StatusInv, StatusOrder, LeaseFollowsOperation

LEMMA StatusHandle ==
  ASSUME StatusInv, NEW c \in Calls, Handle(c)
  PROVE  StatusOrder' /\ LeaseFollowsOperation'
<1> USE DEF StatusInv, StatusOrder, LeaseFollowsOperation, TypeInv, TypeOK,
            At, Goto, opVars
<1>1. CASE op' = op /\ lease' = lease /\
           \/ pc' = [pc EXCEPT ![c] = "done"]
           \/ /\ pc[c] # "done"
              /\ \E there \in Points \ {"idle", "resolved", "begun"} :
                   pc' = [pc EXCEPT ![c] = there]
           \/ /\ pc[c] = "idle"
              /\ pc' = [pc EXCEPT ![c] = "resolved"]
  BY <1>1
<1>2. CASE Issue(c)
  BY <1>1, <1>2 DEF Issue
<1>3. CASE BeginOperation(c)
  BY <1>3 DEF BeginOperation
<1>4. CASE CreateLease(c)
  BY <1>4 DEF CreateLease
<1>5. CASE CreateTemp(c) \/ ReceiveBody(c) \/ Scan(c) \/ Discard(c)
  BY <1>1, <1>5 DEF CreateTemp, ReceiveBody, Scan, Discard, Points
<1>6. CASE Probe(c) \/ Place(c) \/ UndoPlace(c)
  BY <1>1, <1>6 DEF Probe, Place, UndoPlace, Points
<1>7. CASE Register(c)
  BY <1>1, <1>7
  DEF Register, RegisterReplay, RegisterRevision, RegisterError, Points
<1>8. CASE FailOperation(c)
  BY <1>8 DEF FailOperation, FailedStatus, FailedLease
<1>9. CASE CompleteOperation(c)
  BY <1>9 DEF CompleteOperation
<1>10. CASE Abandon(c)
  BY <1>1, <1>10 DEF Abandon
<1> QED
  BY <1>2, <1>3, <1>4, <1>5, <1>6, <1>7, <1>8, <1>9, <1>10 DEF Handle

LEMMA StatusReap ==
  ASSUME StatusInv, Reap
  PROVE  StatusOrder' /\ LeaseFollowsOperation'
<1> USE DEF StatusInv, StatusOrder, LeaseFollowsOperation, TypeInv, TypeOK,
            callVars
<1>1. CASE Reconcile
  BY <1>1 DEF Reconcile, ReconciledLease, ReconciledStatus, IsDue
<1>2. ASSUME NEW c \in Calls, RemoveLeased(c) \/ RemoveStale(c)
      PROVE  StatusOrder' /\ LeaseFollowsOperation'
  BY <1>2 DEF RemoveLeased, RemoveStale, opVars
<1> QED
  BY <1>1, <1>2 DEF Reap

LEMMA StatusFail ==
  ASSUME StatusInv, Fail
  PROVE  StatusOrder' /\ LeaseFollowsOperation'
<1> USE DEF StatusInv, StatusOrder, LeaseFollowsOperation, TypeInv, TypeOK,
            Die, At
<1>1. CASE Crash
  BY <1>1 DEF Crash, opVars
<1>2. CASE CrashInReconcile
  BY <1>2 DEF CrashInReconcile, ReconciledLease, IsDue
<1>3. ASSUME NEW c \in Calls, CrashInFail(c)
      PROVE  StatusOrder' /\ LeaseFollowsOperation'
  BY <1>3 DEF CrashInFail, FailedStatus
<1>4. ASSUME NEW c \in Calls, CrashInComplete(c)
      PROVE  StatusOrder' /\ LeaseFollowsOperation'
  BY <1>4 DEF CrashInComplete
<1> QED
  BY <1>1, <1>2, <1>3, <1>4 DEF Fail

LEMMA StatusStep ==
  ASSUME StatusInv, [Next]_vars
  PROVE  StatusInv'
<1>1. TypeInv'
  BY TypeStep DEF StatusInv
<1>2. CASE UNCHANGED <<pc, op, lease>>
  BY <1>1, <1>2 DEF StatusInv, StatusOrder, LeaseFollowsOperation
<1>3. CASE TimePasses \/ Manage
  BY <1>2, <1>3 DEF TimePasses, LeaseComesDue, TempGoesStale, Manage,
       DeleteAsset, RestoreAsset, AssignOwner, Administer, callVars, opVars
<1>4. CASE \E c \in Calls : Handle(c)
  BY <1>1, <1>4, StatusHandle DEF StatusInv
<1>5. CASE Reap
  BY <1>1, <1>5, StatusReap DEF StatusInv
<1>6. CASE Fail
  BY <1>1, <1>6, StatusFail DEF StatusInv
<1>7. CASE UNCHANGED vars
  BY <1>2, <1>7 DEF vars
<1> QED
  BY <1>3, <1>4, <1>5, <1>6, <1>7 DEF Next

(* The lease row never runs ahead of the operation row, wherever a kill      *)
(* falls between the two statements of an operation on them.                  *)
THEOREM LeaseAfterOperation == Spec => []LeaseFollowsOperation
<1>1. Spec => []StatusInv
  BY StatusInit, StatusStep, PTL DEF Spec
<1> QED
  BY <1>1, PTL DEF StatusInv
----------------------------------------------------------------------------
(* A call between its registration and its completion holds the answer that  *)
(* is stored for its key; a committed one did.                                *)
ReceiptHeld ==
  \A c \in Calls : (pc[c] = "registered" \/ op[c] = "COMMITTED") =>
    /\ job[c] \in Job
    /\ receipt[c] # NoReply
    /\ receipt[c] = Stored(c)
    /\ receipt[c].content = job[c].content

LedgerInv == StatusInv /\ OneRevisionPerKey /\ ReceiptHeld

LEMMA LedgerInit == Init => LedgerInv
<1> SUFFICES ASSUME Init
             PROVE  LedgerInv
  OBVIOUS
<1>1. OneRevisionPerKey
  BY DEF Init, OneRevisionPerKey
<1>2. ReceiptHeld
  BY DEF Init, ReceiptHeld
<1> QED
  BY <1>1, <1>2, StatusInit DEF LedgerInv

(* Appending a revision or an event keeps the ones that are there. *)
LEMMA AppendKeeps ==
  ASSUME NEW S, NEW s \in Seq(S), NEW x \in S
  PROVE  /\ DOMAIN Append(s, x) = DOMAIN s \cup {Len(s) + 1}
         /\ Len(s) + 1 \notin DOMAIN s
         /\ \A n \in DOMAIN s : s[n] \in S /\ n \in Nat /\ n < Len(s) + 1
         /\ \A n \in DOMAIN s : Append(s, x)[n] = s[n]
         /\ Append(s, x)[Len(s) + 1] = x
OBVIOUS

LEMMA PublishKeepsKeys ==
  ASSUME LedgerInv, NEW c \in Calls, RegisterRevision(c)
  PROVE  OneRevisionPerKey' /\ ReceiptHeld'
<1> DEFINE a == job[c].asset
           x == job[c].content
           r == NewReply(c)
           k0 == KeyOf(c)
<1>1. /\ r \in Reply /\ k0 \in Accounts \X Keys
      /\ a \in AssetIds /\ x \in Contents
      /\ job[c] \in Job
  BY NewReplyType DEF RegisterRevision, At, LedgerInv, StatusInv, TypeInv,
                      JobKnown
<1>2. /\ revisions \in [AssetIds -> Seq(Contents)]
      /\ idempotency \in [Accounts \X Keys -> Reply \cup {NoReply}]
  BY DEF LedgerInv, StatusInv, TypeInv, TypeOK
<1>3. /\ idempotency[k0] = NoReply
      /\ idempotency' = [idempotency EXCEPT ![k0] = r]
      /\ revisions' = [revisions EXCEPT ![a] = Append(@, x)]
      /\ r.asset = a /\ r.content = x /\ r.revision = Len(revisions[a]) + 1
  BY DEF RegisterRevision, Stored, NewReply
<1>4. /\ DOMAIN revisions'[a] = DOMAIN revisions[a] \cup {r.revision}
      /\ r.revision \notin DOMAIN revisions[a]
      /\ \A n \in DOMAIN revisions[a] : revisions'[a][n] = revisions[a][n]
      /\ revisions'[a][r.revision] = x
  BY <1>1, <1>2, <1>3, AppendKeeps
<1>5. \A id \in AssetIds \ {a} : revisions'[id] = revisions[id]
  BY <1>1, <1>2, <1>3
<1>6. /\ idempotency'[k0] = r
      /\ \A k \in Accounts \X Keys : k # k0 => idempotency'[k] = idempotency[k]
  BY <1>1, <1>2, <1>3
<1>7. r # NoReply /\ NoReply \notin Reply
  BY <1>1, NoReplyAssumption
<1> HIDE DEF a, x, r, k0
<1>8. \A k \in Accounts \X Keys :
        idempotency[k] # NoReply =>
          /\ idempotency[k].asset \in AssetIds
          /\ idempotency[k].revision \in
               DOMAIN revisions[idempotency[k].asset]
          /\ revisions[idempotency[k].asset][idempotency[k].revision]
               = idempotency[k].content
  BY <1>2 DEF LedgerInv, OneRevisionPerKey, Names, Reply
<1>9. \A k \in Accounts \X Keys :
        (idempotency[k] # NoReply => Names(idempotency[k]))'
  <2> SUFFICES ASSUME NEW k \in Accounts \X Keys, idempotency'[k] # NoReply
               PROVE  Names(idempotency[k])'
    OBVIOUS
  <2>1. CASE k = k0
    BY <1>1, <1>3, <1>4, <1>6, <2>1 DEF Names
  <2>2. CASE k # k0
    BY <1>4, <1>5, <1>6, <1>8, <2>2 DEF Names
  <2> QED
    BY <2>1, <2>2
<1>10. \A id \in AssetIds : \A n \in DOMAIN revisions'[id] :
         \E k \in Accounts \X Keys :
           /\ idempotency'[k] # NoReply
           /\ idempotency'[k].asset = id /\ idempotency'[k].revision = n
  <2> SUFFICES ASSUME NEW id \in AssetIds, NEW n \in DOMAIN revisions'[id]
               PROVE  \E k \in Accounts \X Keys :
                        /\ idempotency'[k] # NoReply
                        /\ idempotency'[k].asset = id
                        /\ idempotency'[k].revision = n
    OBVIOUS
  <2>1. CASE id = a /\ n = r.revision
    BY <1>1, <1>3, <1>6, <1>7, <2>1
  <2>2. CASE ~(id = a /\ n = r.revision)
    <3>1. n \in DOMAIN revisions[id]
      BY <1>4, <1>5, <2>2
    <3>2. PICK k \in Accounts \X Keys :
            /\ idempotency[k] # NoReply
            /\ idempotency[k].asset = id /\ idempotency[k].revision = n
      BY <3>1 DEF LedgerInv, OneRevisionPerKey
    <3> QED
      BY <1>3, <1>6, <3>2
  <2> QED
    BY <2>1, <2>2
<1>11. \A k, l \in Accounts \X Keys :
         (idempotency'[k] # NoReply /\ idempotency'[k] = idempotency'[l])
           => k = l
  <2>1. \A k \in Accounts \X Keys : k # k0 => idempotency'[k] # r
    BY <1>3, <1>4, <1>6, <1>7, <1>8
  <2>2. \A k, l \in Accounts \X Keys :
          (idempotency[k] # NoReply /\ idempotency[k] = idempotency[l])
            => k = l
    BY DEF LedgerInv, OneRevisionPerKey
  <2> QED
    BY <1>1, <1>6, <2>1, <2>2
<1>12. OneRevisionPerKey'
  BY <1>9, <1>10, <1>11 DEF OneRevisionPerKey
<1>13. ReceiptHeld'
  <2> SUFFICES ASSUME NEW d \in Calls,
                      pc'[d] = "registered" \/ op'[d] = "COMMITTED"
               PROVE  /\ job'[d] \in Job
                      /\ receipt'[d] # NoReply
                      /\ receipt'[d] = Stored(d)'
                      /\ receipt'[d].content = job'[d].content
    BY DEF ReceiptHeld
  <2>1. job' = job /\ op' = op /\ receipt' = [receipt EXCEPT ![c] = r]
        /\ pc' = [pc EXCEPT ![c] = "registered"] /\ pc[c] = "placed"
    BY DEF RegisterRevision, opVars, Goto, At, r
  <2>2. pc \in [Calls -> Points] /\ receipt \in [Calls -> Reply \cup {NoReply}]
    BY DEF LedgerInv, StatusInv, TypeInv, TypeOK
  <2>3. CASE d = c
    BY <1>1, <1>3, <1>6, <1>7, <2>1, <2>2, <2>3 DEF Stored, KeyOf, x, k0
  <2>4. CASE d # c
    <3>1. pc[d] = "registered" \/ op[d] = "COMMITTED"
      BY <2>1, <2>2, <2>4
    <3>2. /\ job[d] \in Job /\ receipt[d] # NoReply
          /\ receipt[d] = idempotency[KeyOf(d)]
          /\ receipt[d].content = job[d].content
      BY <3>1 DEF LedgerInv, ReceiptHeld, Stored
    <3>3. KeyOf(d) # k0 /\ KeyOf(d) \in Accounts \X Keys
      BY <1>3, <3>2 DEF KeyOf, Job
    <3> QED
      BY <1>6, <2>1, <2>2, <2>4, <3>2, <3>3 DEF Stored, KeyOf
  <2> QED
    BY <2>3, <2>4
<1> QED
  BY <1>12, <1>13

LEMMA QuietKeepsKeys ==
  ASSUME LedgerInv, UNCHANGED <<revisions, idempotency>>
  PROVE  OneRevisionPerKey'
BY DEF LedgerInv, OneRevisionPerKey, Names

(* A step that neither registers nor commits a call leaves the answers alone.*)
LEMMA QuietKeepsReceipts ==
  ASSUME LedgerInv, UNCHANGED <<idempotency, receipt>>,
         \A c \in Calls :
           (pc'[c] = "registered" \/ op'[c] = "COMMITTED") =>
             /\ pc[c] = "registered" \/ op[c] = "COMMITTED"
             /\ job'[c] = job[c]
  PROVE  ReceiptHeld'
BY DEF LedgerInv, ReceiptHeld, Stored, KeyOf

LEMMA LedgerHandle ==
  ASSUME LedgerInv, NEW c \in Calls, Handle(c)
  PROVE  OneRevisionPerKey' /\ ReceiptHeld'
<1> USE DEF At, Goto, dbVars, opVars
<1>1. /\ pc \in [Calls -> Points]
      /\ op \in [Calls -> {"NONE", "RECEIVING", "COMMITTED", "FAILED",
                           "EXPIRED"}]
      /\ receipt \in [Calls -> Reply \cup {NoReply}]
      /\ job \in [Calls -> Job \cup {NoJob}]
      /\ \A d \in Calls : op[d] = "COMMITTED" => pc[d] = "done"
      /\ pc[c] = "placed" => job[c] \in Job
  BY DEF LedgerInv, StatusInv, StatusOrder, TypeInv, TypeOK, JobKnown
<1>2. CASE RegisterRevision(c)
  BY <1>2, PublishKeepsKeys
<1>3. CASE RegisterReplay(c)
  <2>1. OneRevisionPerKey'
    BY <1>3, QuietKeepsKeys DEF RegisterReplay
  <2>2. ReceiptHeld'
    BY <1>1, <1>3
    DEF RegisterReplay, SameRequest, LedgerInv, ReceiptHeld, Stored, KeyOf
  <2> QED
    BY <2>1, <2>2
<1>4. CASE Issue(c)
  <2>1. \A d \in Calls : d # c => job'[d] = job[d]
    BY <1>1, <1>4 DEF Issue
  <2>2. pc'[c] \in {"resolved", "done"} /\ op'[c] # "COMMITTED"
    BY <1>1, <1>4 DEF Issue
  <2>3. \A d \in Calls : d # c => pc'[d] = pc[d] /\ op'[d] = op[d]
    BY <1>1, <1>4 DEF Issue
  <2> QED
    BY <1>4, <2>1, <2>2, <2>3, QuietKeepsKeys, QuietKeepsReceipts DEF Issue
<1>5. CASE BeginOperation(c)
  BY <1>1, <1>5, QuietKeepsKeys, QuietKeepsReceipts DEF BeginOperation
<1>6. CASE CreateLease(c) \/ CreateTemp(c) \/ ReceiveBody(c) \/ Scan(c)
  BY <1>1, <1>6, QuietKeepsKeys, QuietKeepsReceipts
  DEF CreateLease, CreateTemp, ReceiveBody, Scan
<1>7. CASE Discard(c) \/ Probe(c) \/ Place(c) \/ UndoPlace(c)
  BY <1>1, <1>7, QuietKeepsKeys, QuietKeepsReceipts
  DEF Discard, Probe, Place, UndoPlace
<1>8. CASE RegisterError(c) \/ Abandon(c)
  BY <1>1, <1>8, QuietKeepsKeys, QuietKeepsReceipts
  DEF RegisterError, Abandon
<1>9. CASE FailOperation(c)
  BY <1>1, <1>9, QuietKeepsKeys, QuietKeepsReceipts
  DEF FailOperation, FailedStatus
<1>10. CASE CompleteOperation(c)
  BY <1>1, <1>10, QuietKeepsKeys, QuietKeepsReceipts DEF CompleteOperation
<1> QED
  BY <1>2, <1>3, <1>4, <1>5, <1>6, <1>7, <1>8, <1>9, <1>10
  DEF Handle, Register

LEMMA LedgerBackground ==
  ASSUME LedgerInv, Reap \/ TimePasses \/ Fail \/ Manage \/ UNCHANGED vars
  PROVE  OneRevisionPerKey' /\ ReceiptHeld'
<1> USE DEF dbVars, opVars, callVars
<1>1. op \in [Calls -> {"NONE", "RECEIVING", "COMMITTED", "FAILED",
                       "EXPIRED"}]
  BY DEF LedgerInv, StatusInv, TypeInv, TypeOK
<1>2. CASE Reap
  BY <1>2, QuietKeepsKeys, QuietKeepsReceipts
  DEF Reap, Reconcile, ReconciledStatus, RemoveLeased, RemoveStale
<1>3. CASE TimePasses
  BY <1>3, QuietKeepsKeys, QuietKeepsReceipts
  DEF TimePasses, LeaseComesDue, TempGoesStale
<1>4. CASE Manage
  BY <1>4, QuietKeepsKeys, QuietKeepsReceipts
  DEF Manage, DeleteAsset, RestoreAsset, AssignOwner, Administer
<1>5. CASE UNCHANGED vars
  BY <1>5, QuietKeepsKeys, QuietKeepsReceipts DEF vars
<1>6. CASE Fail
  <2>1. CASE Crash \/ CrashInReconcile
    BY <2>1, QuietKeepsKeys, QuietKeepsReceipts
    DEF Crash, CrashInReconcile, Die, At
  <2>2. ASSUME NEW c \in Calls, CrashInFail(c) \/ CrashInComplete(c)
        PROVE  OneRevisionPerKey' /\ ReceiptHeld'
    BY <1>1, <2>2, QuietKeepsKeys, QuietKeepsReceipts
    DEF CrashInFail, CrashInComplete, Die, FailedStatus, At
  <2> QED
    BY <1>6, <2>1, <2>2 DEF Fail
<1> QED
  BY <1>2, <1>3, <1>4, <1>5, <1>6

LEMMA LedgerStep ==
  ASSUME LedgerInv, [Next]_vars
  PROVE  LedgerInv'
<1>1. StatusInv'
  BY StatusStep DEF LedgerInv
<1> QED
  BY <1>1, LedgerHandle, LedgerBackground DEF LedgerInv, Next

LEMMA LedgerInvariant == Spec => []LedgerInv
BY LedgerInit, LedgerStep, PTL DEF Spec

(* However calls with the same idempotency key race, fail, crash and are     *)
(* retried, every revision is the stored answer of exactly one key.           *)
THEOREM KeysPublishOnce == Spec => []OneRevisionPerKey
BY LedgerInvariant, PTL DEF LedgerInv

(* A COMMITTED operation names a revision with the content it uploaded. *)
THEOREM CommittedOperations == Spec => []CommittedMeansRegistered
<1>1. LedgerInv => CommittedMeansRegistered
  <2> SUFFICES ASSUME LedgerInv, NEW c \in Calls, op[c] = "COMMITTED"
               PROVE  /\ receipt[c] # NoReply
                      /\ receipt[c] = Stored(c)
                      /\ receipt[c].content = job[c].content
                      /\ Names(receipt[c])
    BY DEF CommittedMeansRegistered
  <2>1. /\ job[c] \in Job
        /\ receipt[c] # NoReply
        /\ receipt[c] = Stored(c)
        /\ receipt[c].content = job[c].content
    BY DEF LedgerInv, ReceiptHeld
  <2>2. KeyOf(c) \in Accounts \X Keys
    BY <2>1 DEF KeyOf, Job
  <2> QED
    BY <2>1, <2>2 DEF LedgerInv, OneRevisionPerKey, Stored
<1> QED
  BY <1>1, LedgerInvariant, PTL
----------------------------------------------------------------------------
(* A call that found the object of its content, or made it, may register it: *)
(* since then the object is there, or a registration that failed removed it. *)
(* This is what ObjectsLostOnlyByUndo needs of a call about to register.     *)
PlacedOrUndone ==
  \A c \in Calls :
    (pc[c] = "placed" \/ (pc[c] = "probed" /\ existed[c])) =>
      job[c].content \in objects \cup undone

ObjectsInv == TypeInv /\ PlacedOrUndone /\ ObjectsLostOnlyByUndo

LEMMA ObjectsInit == Init => ObjectsInv
BY TypeInit DEF Init, ObjectsInv, PlacedOrUndone, ObjectsLostOnlyByUndo

(* An object that was made stays, or is on record as removed. *)
LEMMA ObjectsKept ==
  ASSUME [Next]_vars
  PROVE  objects \cup undone \subseteq objects' \cup undone'
<1> USE DEF fileVars
<1>1. CASE UNCHANGED vars
  BY <1>1 DEF vars
<1>2. ASSUME NEW c \in Calls, Handle(c)
      PROVE  objects \cup undone \subseteq objects' \cup undone'
  BY <1>2
  DEF Handle, Issue, BeginOperation, CreateLease, CreateTemp, ReceiveBody,
      Scan, Discard, Probe, Place, Register, RegisterReplay, RegisterRevision,
      RegisterError, UndoPlace, FailOperation, CompleteOperation, Abandon
<1>3. CASE Reap \/ TimePasses
  BY <1>3 DEF Reap, Reconcile, RemoveLeased, RemoveStale, TimePasses,
              LeaseComesDue, TempGoesStale
<1>4. CASE Fail
  BY <1>4 DEF Fail, Crash, CrashInReconcile, CrashInFail, CrashInComplete, Die
<1>5. CASE Manage
  BY <1>5 DEF Manage, DeleteAsset, RestoreAsset, AssignOwner, Administer
<1> QED
  BY <1>1, <1>2, <1>3, <1>4, <1>5 DEF Next

LEMMA PlacedHandle ==
  ASSUME ObjectsInv, NEW c \in Calls, Handle(c)
  PROVE  PlacedOrUndone'
<1>1. objects \cup undone \subseteq objects' \cup undone'
  BY ObjectsKept DEF Next
<1>2. /\ pc \in [Calls -> Points] /\ existed \in [Calls -> BOOLEAN]
      /\ job \in [Calls -> Job \cup {NoJob}]
  BY DEF ObjectsInv, TypeInv, TypeOK
<1>3. \A d \in Calls : d # c =>
        /\ pc'[d] = pc[d] /\ existed'[d] = existed[d] /\ job'[d] = job[d]
  BY <1>2
  DEF Handle, Issue, BeginOperation, CreateLease, CreateTemp, ReceiveBody,
      Scan, Discard, Probe, Place, Register, RegisterReplay, RegisterRevision,
      RegisterError, UndoPlace, FailOperation, CompleteOperation, Abandon, Goto
<1>4. (pc'[c] = "placed" \/ (pc'[c] = "probed" /\ existed'[c])) =>
        job'[c].content \in objects' \cup undone'
  <2>1. CASE Probe(c)
    BY <1>2, <2>1 DEF Probe, Goto, fileVars
  <2>2. CASE Place(c)
    BY <1>2, <2>2 DEF Place, Goto, At, ObjectsInv, PlacedOrUndone
  <2>3. CASE ~Probe(c) /\ ~Place(c)
    BY <1>2, <2>3
    DEF Handle, Issue, BeginOperation, CreateLease, CreateTemp, ReceiveBody,
        Scan, Discard, Register, RegisterReplay, RegisterRevision,
        RegisterError, UndoPlace, FailOperation, CompleteOperation, Abandon,
        Goto
  <2> QED
    BY <2>1, <2>2, <2>3
<1> QED
  BY <1>1, <1>3, <1>4 DEF ObjectsInv, PlacedOrUndone

(* The only step that adds a revision is a registration, of what was placed. *)
LEMMA RevisionsHandle ==
  ASSUME ObjectsInv, NEW c \in Calls, Handle(c)
  PROVE  ObjectsLostOnlyByUndo'
<1>1. objects \cup undone \subseteq objects' \cup undone'
  BY ObjectsKept DEF Next
<1>2. CASE RegisterRevision(c)
  <2>1. /\ job[c].asset \in AssetIds /\ job[c].content \in Contents
        /\ job[c].content \in objects \cup undone
        /\ revisions \in [AssetIds -> Seq(Contents)]
    BY <1>2, NewReplyType
    DEF RegisterRevision, At, ObjectsInv, PlacedOrUndone, TypeInv, TypeOK
  <2>2. SUFFICES ASSUME NEW id \in AssetIds, NEW n \in DOMAIN revisions'[id]
                 PROVE  revisions'[id][n] \in objects \cup undone
    BY <1>1 DEF ObjectsLostOnlyByUndo
  <2>3. revisions' = [revisions EXCEPT
                        ![job[c].asset] = Append(@, job[c].content)]
    BY <1>2 DEF RegisterRevision
  <2>4. CASE id = job[c].asset
    BY <2>1, <2>3, <2>4, AppendKeeps DEF ObjectsInv, ObjectsLostOnlyByUndo
  <2>5. CASE id # job[c].asset
    BY <2>1, <2>3, <2>5 DEF ObjectsInv, ObjectsLostOnlyByUndo
  <2> QED
    BY <2>4, <2>5
<1>3. CASE ~RegisterRevision(c)
  <2>1. revisions' = revisions
    BY <1>3
    DEF Handle, Issue, BeginOperation, CreateLease, CreateTemp, ReceiveBody,
        Scan, Discard, Probe, Place, Register, RegisterReplay, RegisterError,
        UndoPlace, FailOperation, CompleteOperation, Abandon, dbVars
  <2> QED
    BY <1>1, <2>1 DEF ObjectsInv, ObjectsLostOnlyByUndo
<1> QED
  BY <1>2, <1>3

LEMMA ObjectsStep ==
  ASSUME ObjectsInv, [Next]_vars
  PROVE  ObjectsInv'
<1>1. TypeInv'
  BY TypeStep DEF ObjectsInv
<1>2. objects \cup undone \subseteq objects' \cup undone'
  BY ObjectsKept
<1>3. CASE UNCHANGED <<pc, existed, job, revisions>>
  BY <1>1, <1>2, <1>3 DEF ObjectsInv, PlacedOrUndone, ObjectsLostOnlyByUndo
<1>4. CASE UNCHANGED vars \/ Reap \/ TimePasses \/ Manage
  BY <1>3, <1>4
  DEF vars, Reap, Reconcile, RemoveLeased, RemoveStale, TimePasses,
      LeaseComesDue, TempGoesStale, Manage, DeleteAsset, RestoreAsset,
      AssignOwner, Administer, callVars, dbVars
<1>5. CASE Fail
  <2>1. Die
    BY <1>5 DEF Fail, Crash, CrashInReconcile, CrashInFail, CrashInComplete
  <2> QED
    BY <1>1, <1>2, <2>1
    DEF Die, dbVars, ObjectsInv, PlacedOrUndone, ObjectsLostOnlyByUndo
<1>6. ASSUME NEW c \in Calls, Handle(c)
      PROVE  ObjectsInv'
  BY <1>1, <1>6, PlacedHandle, RevisionsHandle DEF ObjectsInv
<1> QED
  BY <1>4, <1>5, <1>6 DEF Next

(* No interleaving of calls, reaper and crashes loses the object of a        *)
(* registered revision, unless a registration that failed took it back.      *)
THEOREM ObjectsStayOrAreUndone == Spec => []ObjectsLostOnlyByUndo
<1>1. Spec => []ObjectsInv
  BY ObjectsInit, ObjectsStep, PTL DEF Spec
<1> QED
  BY <1>1, PTL DEF ObjectsInv
----------------------------------------------------------------------------
CatalogInv == TypeInv /\ CatalogListsRevisions

LEMMA CatalogInit == Init => CatalogInv
BY TypeInit DEF Init, CatalogInv, CatalogListsRevisions

LEMMA CatalogGrows ==
  ASSUME CatalogInv, NEW c \in Calls, RegisterRevision(c)
  PROVE  CatalogListsRevisions'
<1> DEFINE a == job[c].asset
           r == Len(revisions[a]) + 1
           e == [tenant |-> job[c].account, asset |-> a, revision |-> r]
           last == Len(catalog) + 1
           Event == [tenant : Accounts, asset : AssetIds,
                     revision : Nat \ {0}]
<1>1. /\ a \in AssetIds /\ job[c].content \in Contents /\ r \in Nat \ {0}
      /\ job[c].account \in Accounts
  BY NewReplyType DEF RegisterRevision, At, CatalogInv
<1>2. revisions \in [AssetIds -> Seq(Contents)] /\ catalog \in Seq(Event)
  BY DEF CatalogInv, TypeInv, TypeOK
<1>3. /\ revisions' = [revisions EXCEPT ![a] = Append(@, job[c].content)]
      /\ catalog' = Append(catalog, e)
  BY DEF RegisterRevision, NewReply
<1>4. /\ DOMAIN revisions'[a] = DOMAIN revisions[a] \cup {r}
      /\ \A n \in DOMAIN revisions[a] : n < r
      /\ \A id \in AssetIds \ {a} : revisions'[id] = revisions[id]
  BY <1>1, <1>2, <1>3, AppendKeeps
<1>5. /\ DOMAIN catalog' = DOMAIN catalog \cup {last}
      /\ \A m \in DOMAIN catalog : m < last /\ catalog'[m] = catalog[m]
      /\ catalog'[last] = e
      /\ \A m \in DOMAIN catalog : catalog[m] \in Event /\ m \in Nat
      /\ last \in Nat
  <2>1. e \in Event
    BY <1>1
  <2> HIDE DEF e, Event
  <2>2. /\ DOMAIN Append(catalog, e) = DOMAIN catalog \cup {last}
        /\ \A m \in DOMAIN catalog :
             catalog[m] \in Event /\ m \in Nat /\ m < last
        /\ \A m \in DOMAIN catalog : Append(catalog, e)[m] = catalog[m]
        /\ Append(catalog, e)[last] = e
    BY <1>2, <2>1, AppendKeeps
  <2>3. last \in Nat
    BY <1>2
  <2> QED
    BY <1>3, <2>2, <2>3
<1>6. /\ \A m \in DOMAIN catalog :
             catalog[m].revision \in DOMAIN revisions[catalog[m].asset]
      /\ \A m, n \in DOMAIN catalog :
             (m < n /\ catalog[m].asset = catalog[n].asset)
               => catalog[m].revision < catalog[n].revision
      /\ \A id \in AssetIds : \A k \in DOMAIN revisions[id] :
             \E m \in DOMAIN catalog :
               catalog[m].asset = id /\ catalog[m].revision = k
  BY DEF CatalogInv, CatalogListsRevisions
<1>7. e.asset = a /\ e.revision = r
  OBVIOUS
<1> HIDE DEF a, r, e, last
<1>8. \A m \in DOMAIN catalog' :
         catalog'[m].revision \in DOMAIN revisions'[catalog'[m].asset]
  BY <1>4, <1>5, <1>6, <1>7
<1>9. \A m, n \in DOMAIN catalog' :
         (m < n /\ catalog'[m].asset = catalog'[n].asset)
           => catalog'[m].revision < catalog'[n].revision
  <2> SUFFICES ASSUME NEW m \in DOMAIN catalog', NEW n \in DOMAIN catalog',
                      m < n, catalog'[m].asset = catalog'[n].asset
               PROVE  catalog'[m].revision < catalog'[n].revision
    OBVIOUS
  <2>1. m \in DOMAIN catalog
    BY <1>5
  <2>2. CASE n \in DOMAIN catalog
    BY <1>5, <1>6, <2>1, <2>2
  <2>3. CASE n = last
    BY <1>4, <1>5, <1>6, <1>7, <2>1, <2>3
  <2> QED
    BY <1>5, <2>2, <2>3
<1>10. \A id \in AssetIds : \A k \in DOMAIN revisions'[id] :
         \E m \in DOMAIN catalog' :
           catalog'[m].asset = id /\ catalog'[m].revision = k
  BY <1>4, <1>5, <1>6, <1>7
<1> QED
  BY <1>8, <1>9, <1>10 DEF CatalogListsRevisions

LEMMA CatalogStep ==
  ASSUME CatalogInv, [Next]_vars
  PROVE  CatalogInv'
<1>1. TypeInv'
  BY TypeStep DEF CatalogInv
<1>2. CASE UNCHANGED <<catalog, revisions>>
  BY <1>1, <1>2 DEF CatalogInv, CatalogListsRevisions
<1>3. CASE UNCHANGED vars \/ Reap \/ TimePasses \/ Manage
  BY <1>2, <1>3
  DEF vars, Reap, Reconcile, RemoveLeased, RemoveStale, TimePasses,
      LeaseComesDue, TempGoesStale, Manage, DeleteAsset, RestoreAsset,
      AssignOwner, Administer, dbVars
<1>4. CASE Fail
  BY <1>2, <1>4 DEF Fail, Crash, CrashInReconcile, CrashInFail,
                    CrashInComplete, Die, dbVars
<1>5. ASSUME NEW c \in Calls, Handle(c)
      PROVE  CatalogInv'
  <2>1. CASE RegisterRevision(c)
    BY <1>1, <2>1, CatalogGrows DEF CatalogInv
  <2>2. CASE ~RegisterRevision(c)
    BY <1>2, <1>5, <2>2
    DEF Handle, Issue, BeginOperation, CreateLease, CreateTemp, ReceiveBody,
        Scan, Discard, Probe, Place, Register, RegisterReplay, RegisterError,
        UndoPlace, FailOperation, CompleteOperation, Abandon, dbVars
  <2> QED
    BY <2>1, <2>2
<1> QED
  BY <1>3, <1>4, <1>5 DEF Next

(* A client that replays the catalogue meets the revisions of an asset in    *)
(* order, each exactly once, whoever published them and whatever failed.     *)
THEOREM CatalogInOrder == Spec => []CatalogListsRevisions
<1>1. Spec => []CatalogInv
  BY CatalogInit, CatalogStep, PTL DEF Spec
<1> QED
  BY <1>1, PTL DEF CatalogInv
----------------------------------------------------------------------------
(* The pipeline implements the ledger: RegisterRevision is Publish, the      *)
(* completion of an operation is Acknowledge, and the administrators' steps  *)
(* are their own; every other step leaves the ledger as it is.                *)
Told == [c \in Calls |-> IF op[c] = "COMMITTED" THEN receipt[c] ELSE NoReply]

LEMMA RefinedInit == Init => Ledger!Init
BY DEF Init, Ledger!Init

LEMMA ToldUnchanged ==
  ASSUME UNCHANGED <<owner, revisions, tombstones, idempotency>>, Told' = Told
  PROVE  UNCHANGED Ledger!ledgerVars
BY DEF Ledger!ledgerVars, Told

LEMMA CommitIsAcknowledge ==
  ASSUME LedgerInv, NEW c \in Calls, At(c, "registered"),
         op' = [op EXCEPT ![c] = "COMMITTED"],
         UNCHANGED <<dbVars, receipt>>
  PROVE  Ledger!Next
<1>1. /\ job[c] \in Job
      /\ receipt[c] # NoReply
      /\ receipt[c] = idempotency[<<job[c].account, job[c].key>>]
      /\ op[c] # "COMMITTED"
      /\ op \in [Calls -> {"NONE", "RECEIVING", "COMMITTED", "FAILED",
                           "EXPIRED"}]
  BY DEF LedgerInv, ReceiptHeld, StatusInv, StatusOrder, TypeInv, TypeOK, At,
         Stored, KeyOf
<1>2. Told' = [Told EXCEPT ![c] = receipt[c]]
  BY <1>1 DEF Told
<1>3. Told[c] = NoReply
  BY <1>1 DEF Told
<1>4. Ledger!Acknowledge(c, job[c].account, job[c].key)
  BY <1>1, <1>2, <1>3 DEF Ledger!Acknowledge, Told, dbVars
<1>5. job[c].account \in Accounts /\ job[c].key \in Keys
  BY <1>1 DEF Job
<1> QED
  BY <1>4, <1>5 DEF Ledger!Next, Ledger!Serve, Ledger!Acknowledge

LEMMA RegisterIsPublish ==
  ASSUME LedgerInv, NEW c \in Calls, RegisterRevision(c)
  PROVE  Ledger!Next
<1>1. /\ job[c] \in Job
      /\ op[c] # "COMMITTED"
      /\ receipt \in [Calls -> Reply \cup {NoReply}]
  BY DEF LedgerInv, StatusInv, StatusOrder, TypeInv, TypeOK, JobKnown,
         RegisterRevision, At
<1>2. Told' = Told
  BY <1>1 DEF Told, RegisterRevision, opVars
<1>3. Ledger!Publish(job[c].account, job[c].key, job[c].asset, job[c].content)
  BY <1>1, <1>2
  DEF Ledger!Publish, RegisterRevision, Told, Stored, KeyOf, NewReply,
      InService, OwnedOrNew
<1> QED
  BY <1>1, <1>3 DEF Ledger!Next, Ledger!Serve, Job

LEMMA RefinedHandle ==
  ASSUME LedgerInv, NEW c \in Calls, Handle(c)
  PROVE  Ledger!Next \/ UNCHANGED Ledger!ledgerVars
<1> USE DEF At, Goto, dbVars, opVars
<1>1. /\ op \in [Calls -> {"NONE", "RECEIVING", "COMMITTED", "FAILED",
                           "EXPIRED"}]
      /\ receipt \in [Calls -> Reply \cup {NoReply}]
      /\ op[c] = "COMMITTED" => pc[c] = "done"
  BY DEF LedgerInv, StatusInv, StatusOrder, TypeInv, TypeOK
<1>2. CASE RegisterRevision(c)
  BY <1>2, RegisterIsPublish
<1>3. CASE CompleteOperation(c)
  BY <1>3, CommitIsAcknowledge DEF CompleteOperation
<1>4. CASE RegisterReplay(c)
  BY <1>1, <1>4, ToldUnchanged DEF RegisterReplay, Told
<1>5. CASE BeginOperation(c)
  BY <1>1, <1>5, ToldUnchanged DEF BeginOperation, Told
<1>6. CASE FailOperation(c)
  BY <1>1, <1>6, ToldUnchanged DEF FailOperation, FailedStatus, Told
<1>7. CASE Issue(c) \/ CreateLease(c) \/ CreateTemp(c) \/ ReceiveBody(c)
  BY <1>7, ToldUnchanged DEF Issue, CreateLease, CreateTemp, ReceiveBody, Told
<1>8. CASE Scan(c) \/ Discard(c) \/ Probe(c) \/ Place(c)
  BY <1>8, ToldUnchanged DEF Scan, Discard, Probe, Place, Told
<1>9. CASE RegisterError(c) \/ UndoPlace(c) \/ Abandon(c)
  BY <1>9, ToldUnchanged DEF RegisterError, UndoPlace, Abandon, Told
<1> QED
  BY <1>2, <1>3, <1>4, <1>5, <1>6, <1>7, <1>8, <1>9 DEF Handle, Register

LEMMA RefinedBackground ==
  ASSUME LedgerInv, Reap \/ TimePasses \/ Fail \/ UNCHANGED vars
  PROVE  Ledger!Next \/ UNCHANGED Ledger!ledgerVars
<1> USE DEF dbVars, opVars, callVars
<1>1. op \in [Calls -> {"NONE", "RECEIVING", "COMMITTED", "FAILED",
                       "EXPIRED"}]
  BY DEF LedgerInv, StatusInv, TypeInv, TypeOK
<1>2. CASE Reap
  BY <1>2, ToldUnchanged
  DEF Reap, Reconcile, ReconciledStatus, RemoveLeased, RemoveStale, Told
<1>3. CASE TimePasses
  BY <1>3, ToldUnchanged DEF TimePasses, LeaseComesDue, TempGoesStale, Told
<1>4. CASE UNCHANGED vars
  BY <1>4, ToldUnchanged DEF vars, Told
<1>5. CASE Crash \/ CrashInReconcile
  BY <1>5, ToldUnchanged DEF Crash, CrashInReconcile, Die, Told
<1>6. ASSUME NEW c \in Calls, CrashInComplete(c)
      PROVE  Ledger!Next
  BY <1>6, CommitIsAcknowledge DEF CrashInComplete, Die
<1>7. ASSUME NEW c \in Calls, CrashInFail(c)
      PROVE  UNCHANGED Ledger!ledgerVars
  BY <1>1, <1>7, ToldUnchanged DEF CrashInFail, Die, FailedStatus, Told
<1> QED
  BY <1>2, <1>3, <1>4, <1>5, <1>6, <1>7 DEF Fail

LEMMA RefinedManage ==
  ASSUME Manage
  PROVE  Ledger!Next
<1> USE DEF Administer, opVars, callVars
<1>1. PICK id \in AssetIds :
        \/ DeleteAsset(id) \/ RestoreAsset(id)
        \/ \E a \in Accounts : AssignOwner(id, a)
  BY DEF Manage
<1>2. DeleteAsset(id) => Ledger!Retire(id)
  BY DEF DeleteAsset, Ledger!Retire
<1>3. RestoreAsset(id) => Ledger!Restore(id)
  BY DEF RestoreAsset, Ledger!Restore
<1>4. \A a \in Accounts : AssignOwner(id, a) => Ledger!Reassign(id, a)
  BY DEF AssignOwner, Ledger!Reassign
<1> QED
  BY <1>1, <1>2, <1>3, <1>4 DEF Ledger!Next, Ledger!Administer

(* Every behaviour of the upload handlers, the reaper, crashes and           *)
(* administrators is a behaviour of the ledger.                               *)
THEOREM PipelineImplementsLedger == Spec => ImplementsLedger
<1>1. ASSUME LedgerInv, [Next]_vars
      PROVE  [Ledger!Next]_(Ledger!ledgerVars)
  BY <1>1, RefinedHandle, RefinedBackground, RefinedManage DEF Next
<1> QED
  BY <1>1, RefinedInit, LedgerInvariant, PTL
  DEF Spec, ImplementsLedger, Ledger!Spec
=============================================================================
