----------------------------- MODULE MCOffline ------------------------------
(* One identity with two keys in turn, or two identities, of one account or  *)
(* of two, that claim one entity.                                            *)
EXTENDS OfflineIdentities, TLC

CONSTANT RivalRevision   \* bound on the revisions of two identities

Rivals == \A i \in Identities : identity[i] # NoIdentity
(* An account without an identity, where another one has one. *)
Bystander(a) ==
  IdentitiesOf(a) = {} /\ \E i \in Identities : identity[i] # NoIdentity
(* A model that is not public, where one identity publishes. *)
Withheld == \E m \in Models : standing[m] # "public"
AtMostOne(S) == \A x, y \in S : x = y
InInstance ==
  /\ Withheld => /\ ~Rivals /\ disabled = {}
                 /\ \A r \in Requests : req[r] = Idle
  /\ AtMostOne(disabled)
  /\ AtMostOne({a \in Accounts : decided[a] # "NONE"})
  /\ \A a \in Accounts : Bystander(a) =>
       a \notin disabled /\ decided[a] = "NONE" /\ grant[a] # "PENDING"
  /\ Rivals =>
       /\ disabled = {}
       /\ \A i \in Identities : identity[i].generation <= 1
                                  /\ identity[i].revision <= RivalRevision

Names == Permutations(Accounts) \cup Permutations(Identities)
           \cup Permutations(Keys) \cup Permutations(Sessions)
=============================================================================
