------------------------------ MODULE MCUpload ------------------------------
(* A small instance: two accounts share one asset name and two keys.  The    *)
(* requests are a first upload, its retry under another key, the same key    *)
(* reused for other content, and another account's upload of that content.   *)
EXTENDS UploadPipeline

CONSTANTS alice, bob, skin, x, y, k1, k2, c1

MCAccounts == {alice, bob}
MCAssets == {skin}
MCContents == {x, y}
MCKeys == {k1, k2}
Request(a, k, v) == [account |-> a, key |-> k, asset |-> skin, content |-> v]
MCRequests == {Request(alice, k1, x), Request(alice, k1, y),
               Request(alice, k2, x), Request(bob, k1, x)}
(* Two accounts race to publish the same content under the same name. *)
MCRivals == {Request(alice, k1, x), Request(bob, k1, x)}

(* One call is the first upload, before, after or during the other one.  An *)
(* administrator and a crash meet only where both calls are of one account. *)
Issued(c) == job[c] # NoJob
FirstUpload == Issued(c1) =>
  job[c1].account = alice /\ job[c1].key = k1 /\ job[c1].content = x
InInstance ==
  /\ FirstUpload
  /\ crashes + admins > 1 => \A c \in Calls : Issued(c) => job[c].account = alice

MCSpec == Init /\ [][Next /\ InInstance']_vars /\ Fairness
=============================================================================
