---------------------------- MODULE AssetLedger ----------------------------
(* What the upload service promises its clients, with the temporary files,  *)
(* leases, moderation scans and process crashes hidden.  An asset is an      *)
(* append-only sequence of revisions.  An idempotency key publishes at most  *)
(* one revision, and a call is acknowledged only with the revision its key   *)
(* published.  Administrators retire, restore and reassign assets.           *)
EXTENDS Naturals, Sequences

CONSTANTS Calls, Accounts, Keys, AssetIds, Contents, NoOne, NoReply

VARIABLES
  owner,      \* owner[id]: the account that owns asset id, or NoOne
  revisions,  \* revisions[id]: contents of the revisions of id, oldest first
  retired,    \* the assets an administrator has taken down
  claims,     \* claims[<<account, key>>]: what the key published, or NoReply
  receipts    \* receipts[c]: what call c was acknowledged with, or NoReply

ledgerVars == <<owner, revisions, retired, claims, receipts>>

Init ==
  /\ owner = [id \in AssetIds |-> NoOne]
  /\ revisions = [id \in AssetIds |-> << >>]
  /\ retired = {}
  /\ claims = [k \in Accounts \X Keys |-> NoReply]
  /\ receipts = [c \in Calls |-> NoReply]

(* A free key publishes the next revision of an asset that is in service and *)
(* that nobody else owns.                                                    *)
Publish(a, k, id, x) ==
  /\ claims[<<a, k>>] = NoReply
  /\ id \notin retired
  /\ owner[id] \in {NoOne, a}
  /\ owner' = [owner EXCEPT ![id] = a]
  /\ revisions' = [revisions EXCEPT ![id] = Append(@, x)]
  /\ claims' = [claims EXCEPT ![<<a, k>>] =
                  [asset |-> id, content |-> x,
                   revision |-> Len(revisions[id]) + 1]]
  /\ UNCHANGED <<retired, receipts>>

(* A call is acknowledged once, with what its key published. *)
Acknowledge(c, a, k) ==
  /\ receipts[c] = NoReply
  /\ claims[<<a, k>>] # NoReply
  /\ receipts' = [receipts EXCEPT ![c] = claims[<<a, k>>]]
  /\ UNCHANGED <<owner, revisions, retired, claims>>

Retire(id) ==
  /\ owner[id] # NoOne
  /\ retired' = retired \cup {id}
  /\ UNCHANGED <<owner, revisions, claims, receipts>>

Restore(id) ==
  /\ retired' = retired \ {id}
  /\ UNCHANGED <<owner, revisions, claims, receipts>>

Reassign(id, a) ==
  /\ owner[id] # NoOne
  /\ owner' = [owner EXCEPT ![id] = a]
  /\ UNCHANGED <<revisions, retired, claims, receipts>>

Administer ==
  \E id \in AssetIds :
    \/ Restore(id)
    \/ Retire(id)
    \/ \E a \in Accounts : Reassign(id, a)

Serve ==
  \E a \in Accounts, k \in Keys :
    \/ \E c \in Calls : Acknowledge(c, a, k)
    \/ \E id \in AssetIds, x \in Contents : Publish(a, k, id, x)

Next == Administer \/ Serve

Spec == Init /\ [][Next]_ledgerVars
=============================================================================
