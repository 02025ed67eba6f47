---------------------------- MODULE MCAppearance ----------------------------
(* Two editors and one player who watches two scopes and may read the target *)
(* of the first.  The requests race for a target's appearance and animation, *)
(* go through both endpoints, and reuse a request id for another kind.       *)
EXTENDS AppearanceSync, TLC

CONSTANTS ann, ben, fan, t1, t2, s1, s2, v1, v2, k1, k2

MCCalls == 1..3

MCScopeOf == t1 :> s1 @@ t2 :> s2
MCMembers == [s \in Scopes |-> Accounts]
MCInitialRole ==
  t1 :> (ann :> "manage" @@ ben :> "edit" @@ fan :> "viewer") @@
  t2 :> (ann :> "manage" @@ ben :> "none" @@ fan :> "none")

Put(via, a, id, kind, t, n, v) ==
  [via |-> via, account |-> a, id |-> id, kind |-> kind, target |-> t,
   expected |-> n, value |-> v]

MCRequests ==
  {Put("update", ann, k1, "appearance", t1, 0, v1),
   Put("update", ben, k1, "appearance", t1, 1, v2),
   Put("update", ann, k1, "animation", t1, 0, v1),
   Put("update", ben, k2, "animation", t1, 1, v2),
   Put("entity", ann, k2, "appearance", t1, 0, v2),
   Put("update", ann, k2, "appearance", t2, 0, v1)}

MCGrants ==
  {[target |-> t1, account |-> ben, role |-> "viewer"],
   [target |-> t2, account |-> fan, role |-> "viewer"]}

(* Calls are alike, so they start in the order of their numbers; the third   *)
(* one only while no administrator has acted and the server stays up.        *)
Started(c) == pc'[c] # "idle"
InInstance ==
  /\ \A c \in Calls : Started(c) => \A d \in 1..(c - 1) : Started(d)
  /\ Started(3) => admins' = 0 /\ crashes' = 0
MCSpec == Init /\ [][Next /\ InInstance]_vars /\ Fairness
=============================================================================
