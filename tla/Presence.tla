------------------------------ MODULE Presence ------------------------------
(* What offline identities promise, with keys, generations, revisions, tokens *)
(* and requests hidden.  An account that is trusted may own identities and    *)
(* let one session at a time bear each of them; a session bears one identity, *)
(* once.  Where trust ends, the bearers end with it.  An observer is told who *)
(* stands for an entity and what that one shows at the moment it asks, unless *)
(* that is hidden.                                                            *)
CONSTANTS Accounts, Identities, Sessions, Entities, Models, Nil

VARIABLES
  trusted,    \* accounts that may have bearers
  suspended,  \* accounts that may do nothing, but keep what they have
  owner,      \* of each identity
  bearer,     \* the session that may act for each identity
  spent,      \* the sessions that have been bearers
  place,      \* the entity that each bearer claims
  shown,      \* what each bearer shows
  hidden,     \* models that nobody is told of
  told        \* what observers were told last

presenceVars ==
  <<trusted, suspended, owner, bearer, spent, place, shown, hidden, told>>

Nobody == [status |-> "NONE", identity |-> Nil, model |-> Nil]
Nowhere == [i \in Identities |-> Nil]

Init ==
  /\ trusted = {} /\ suspended = {}
  /\ owner = Nowhere /\ bearer = Nowhere /\ place = Nowhere /\ shown = Nowhere
  /\ spent = {} /\ hidden \subseteq Models
  /\ told = [e \in Entities |-> Nobody]

May(a) == a \in trusted \ suspended

Own(i, a) ==
  /\ owner[i] = Nil /\ May(a)
  /\ owner' = [owner EXCEPT ![i] = a]
  /\ UNCHANGED <<trusted, suspended, bearer, spent, place, shown, hidden,
                 told>>

Bear(i, s, e) ==
  /\ May(owner[i]) /\ s \notin spent
  /\ bearer' = [bearer EXCEPT ![i] = s]
  /\ spent' = spent \cup {s}
  /\ place' = [place EXCEPT ![i] = e]
  /\ shown' = [shown EXCEPT ![i] = Nil]
  /\ UNCHANGED <<trusted, suspended, owner, hidden, told>>

Show(i, m) ==
  /\ bearer[i] # Nil /\ May(owner[i])
  /\ shown' = [shown EXCEPT ![i] = m]
  /\ UNCHANGED <<trusted, suspended, owner, bearer, spent, place, hidden, told>>

(* Bearers end, those of the accounts that are trusted no longer at least.   *)
Without(f, I) == [i \in Identities |-> IF i \in I THEN Nil ELSE f[i]]
Trust(T, I) ==
  /\ \A i \in Identities : bearer[i] # Nil /\ owner[i] \notin T => i \in I
  /\ trusted' = T
  /\ bearer' = Without(bearer, I)
  /\ place' = Without(place, I)
  /\ shown' = Without(shown, I)
  /\ UNCHANGED <<suspended, owner, spent, hidden, told>>

Suspend(A) ==
  /\ suspended' = A
  /\ UNCHANGED <<trusted, owner, bearer, spent, place, shown, hidden, told>>

Hide(H) ==
  /\ hidden' = H
  /\ UNCHANGED <<trusted, suspended, owner, bearer, spent, place, shown, told>>

Claimants(e) ==
  {i \in Identities :
     bearer[i] # Nil /\ place[i] = e /\ owner[i] \notin suspended}
Truth(e) ==
  IF Claimants(e) = {} THEN Nobody
  ELSE IF \E i \in Identities : Claimants(e) = {i}
         THEN LET i == CHOOSE i \in Identities : Claimants(e) = {i}
              IN  [status |-> "ACTIVE", identity |-> i,
                   model |-> IF shown[i] \in hidden THEN Nil ELSE shown[i]]
         ELSE [Nobody EXCEPT !.status = "AMBIGUOUS"]
Ask(e) ==
  /\ told' = [told EXCEPT ![e] = Truth(e)]
  /\ UNCHANGED <<trusted, suspended, owner, bearer, spent, place, shown,
                 hidden>>

Next ==
  \/ \E i \in Identities, a \in Accounts : Own(i, a)
  \/ \E i \in Identities, s \in Sessions, e \in Entities : Bear(i, s, e)
  \/ \E i \in Identities, m \in Models \cup {Nil} : Show(i, m)
  \/ \E T \in SUBSET Accounts, I \in SUBSET Identities : Trust(T, I)
  \/ \E A \in SUBSET Accounts : Suspend(A)
  \/ \E H \in SUBSET Models : Hide(H)
  \/ \E e \in Entities : Ask(e)

Spec == Init /\ [][Next]_presenceVars
=============================================================================
