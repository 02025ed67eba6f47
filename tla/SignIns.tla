------------------------------ MODULE SignIns ------------------------------
(* What accounts and sessions promise, with passwords, roles, tokens,        *)
(* challenges and requests hidden.  A sign-in is held by one session at a    *)
(* time, that takes the place of the one before it; it ends for good, at the *)
(* latest when its account is updated.  A game profile belongs to one        *)
(* account, which keeps it until the account is paired with another.  A      *)
(* proof of identity is spent once, on a session or on a profile.            *)
EXTENDS Naturals

CONSTANTS Accounts, Profiles, Sessions, Proofs, Nil

VARIABLES
  account,  \* of each session that was ever issued
  holds,    \* the sign-in each session holds: the name of its first session
  epoch,    \* how often each account was updated
  owners,   \* of each profile
  pair,     \* the Cloud account that a web account stands for
  spent     \* how often each proof was spent

sessionVars == <<account, holds, epoch>>
profileVars == <<owners, pair>>
signInVars == <<sessionVars, profileVars, spent>>

Init ==
  /\ account = [s \in Sessions |-> Nil]
  /\ holds = [s \in Sessions |-> Nil]
  /\ epoch = [a \in Accounts |-> 0]
  /\ owners = [p \in Profiles |-> {}]
  /\ pair = [a \in Accounts |-> Nil]
  /\ spent = [x \in Proofs |-> 0]

(* Paid for with a password, or with a proof that is shown the first time.   *)
Paid ==
  \/ UNCHANGED spent
  \/ \E x \in Proofs : spent[x] = 0 /\ spent' = [spent EXCEPT ![x] = 1]

SignIn(s, a) ==
  /\ account[s] = Nil
  /\ account' = [account EXCEPT ![s] = a]
  /\ holds' = [holds EXCEPT ![s] = s]
  /\ Paid
  /\ UNCHANGED <<epoch, profileVars>>

Renew(s, t) ==
  /\ account[t] = Nil /\ holds[s] # Nil
  /\ account' = [account EXCEPT ![t] = account[s]]
  /\ holds' = [holds EXCEPT ![s] = Nil, ![t] = holds[s]]
  /\ UNCHANGED <<epoch, profileVars, spent>>

End(s) ==
  /\ holds[s] # Nil
  /\ holds' = [holds EXCEPT ![s] = Nil]
  /\ UNCHANGED <<account, epoch, profileVars, spent>>

Update(a) ==
  /\ epoch' = [epoch EXCEPT ![a] = @ + 1]
  /\ holds' = [s \in Sessions |-> IF account[s] = a THEN Nil ELSE holds[s]]
  /\ UNCHANGED <<account, profileVars, spent>>

Own(p, a) ==
  /\ owners[p] \subseteq {a} /\ owners' = [owners EXCEPT ![p] = {a}]
  /\ Paid
  /\ UNCHANGED <<sessionVars, pair>>

Paired(a) == pair[a] # Nil \/ \E b \in Accounts : pair[b] = a

(* A web account that pairs with a Cloud account leaves its profiles to it.  *)
(* The pair may be made again, to move what the account owns by then.        *)
Pair(web, cloud) ==
  /\ web # cloud
  /\ pair' = [pair EXCEPT ![web] = cloud]
  /\ pair[web] = cloud \/ ~(Paired(web) \/ Paired(cloud))
  /\ owners' = [p \in Profiles |->
                  IF owners[p] = {web} THEN {cloud} ELSE owners[p]]
  /\ UNCHANGED <<sessionVars, spent>>

Next ==
  \/ \E s \in Sessions, a \in Accounts : SignIn(s, a)
  \/ \E s, t \in Sessions : Renew(s, t)
  \/ \E s \in Sessions : End(s)
  \/ \E a \in Accounts : Update(a)
  \/ \E p \in Profiles, a \in Accounts : Own(p, a)
  \/ \E web, cloud \in Accounts : Pair(web, cloud)

Spec == Init /\ [][Next]_signInVars
=============================================================================
