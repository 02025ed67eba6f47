-------------------------- MODULE OfflineIdentities --------------------------
(* Cloud-owned offline identities: the account's authorization                *)
(* (offline_authorization.rs), device keys and sessions                      *)
(* (offline_identity.rs), publication and discovery (offline_player.rs).     *)
(* An action is one transaction under the connection's lock.  Enrolling a    *)
(* device and issuing a key take two; requests interleave between them.      *)
(* A limit on request rates only refuses, which a request may always be.     *)
EXTENDS Integers, FiniteSets

CONSTANTS
  Accounts, Entities, Models,
  Identities, Keys, Sessions,   \* the rows that may be inserted
  Requests,                     \* enrolments and issues in flight at once
  Nil,
  Quota,                        \* max_identities_per_account
  MaxRevision                   \* bound on revisions and generations

ASSUME NilAssumption ==
  /\ Nil \notin Accounts \cup Models \cup Identities \cup Keys \cup Sessions
  /\ Nil \notin Entities
ASSUME BoundsAssumption == Quota \in Nat /\ MaxRevision \in Nat \ {0}

VARIABLES
  mode,        \* the policy; the feature is off where it is "disabled"
  disabled,    \* accounts
  grant,       \* cloud_offline_authorizations
  decided,     \* what an administrator last decided about each account
  standing,    \* of each model: who may be shown it, if anybody
  identity, key, session, appearance,    \* the tables
  req,         \* requests between their two transactions
  answer       \* what an observer was last told of each entity

vars == <<mode, disabled, grant, decided, standing, identity, key, session,
          appearance, req, answer>>
policyVars == <<mode, disabled, grant, decided, standing>>
tables == <<identity, key, session, appearance>>

----------------------------------------------------------------------------
Modes == {"disabled", "manual", "automatic"}
Grants == {"NONE", "PENDING", "APPROVED", "REVOKED"}
Revisions == 0..MaxRevision
(* PUBLIC or PRIVATE, in available_asset_revisions; or not in it: unknown,   *)
(* deleted, or blocked by the content policy.                                *)
Standings == {"public", "private", "unavailable"}

NoIdentity == [account |-> Nil, generation |-> 0, binding |-> 0,
               revision |-> 0, active |-> Nil]
NoKey == [identity |-> Nil, generation |-> 0, revoked |-> FALSE]
NoSession == [identity |-> Nil, key |-> Nil, binding |-> 0, entity |-> Nil,
              revoked |-> FALSE, expired |-> FALSE]
NoAppearance == [session |-> Nil, binding |-> 0, revision |-> 0, model |-> Nil]
Idle == [kind |-> "none", account |-> Nil, key |-> Nil]
(* What an observer is told where no identity, or more than one, claims it.  *)
Unclaimed == [status |-> "NONE", identity |-> Nil, binding |-> 0,
              revision |-> 0, model |-> Nil, published |-> Nil]
Ambiguous == [Unclaimed EXCEPT !.status = "AMBIGUOUS"]

Init ==
  /\ mode \in Modes
  /\ disabled = {}
  /\ grant = [a \in Accounts |-> "NONE"]
  /\ decided = [a \in Accounts |-> "NONE"]
  /\ standing \in [Models -> Standings]
  /\ identity = [i \in Identities |-> NoIdentity]
  /\ key = [k \in Keys |-> NoKey]
  /\ session = [s \in Sessions |-> NoSession]
  /\ appearance = [i \in Identities |-> NoAppearance]
  /\ req = [r \in Requests |-> Idle]
  /\ answer = [e \in Entities |-> Unclaimed]

Enabled == mode # "disabled"
Active(a) == a \notin disabled
Permitted(a) == Enabled /\ Active(a) /\ grant[a] = "APPROVED"
IdentitiesOf(a) == {i \in Identities : identity[i].account = a}
SessionOwner(s) == identity[session[s].identity].account

----------------------------------------------------------------------------
(* What ends the sessions of a set of identities.                            *)
Unbound(I) ==
  [i \in Identities |->
     IF i \in I /\ identity[i].active # Nil
       THEN [identity[i] EXCEPT !.active = Nil, !.binding = @ + 1,
                                !.revision = @ + 1]
       ELSE identity[i]]
RevokeSessions(I) ==
  session' = [s \in Sessions |->
     IF session[s].identity \in I THEN [session[s] EXCEPT !.revoked = TRUE]
                                  ELSE session[s]]
DropAppearances(I) ==
  appearance' = [i \in Identities |->
     IF i \in I THEN NoAppearance ELSE appearance[i]]
Room(i) ==
  identity[i].binding < MaxRevision /\ identity[i].revision < MaxRevision
EndSessions(I) ==
  /\ \A i \in I : identity[i].active # Nil => Room(i)
  /\ RevokeSessions(I)
  /\ DropAppearances(I)
RevokeKeys(i) ==
  [k \in Keys |-> IF key[k].identity = i THEN [key[k] EXCEPT !.revoked = TRUE]
                                         ELSE key[k]]

----------------------------------------------------------------------------
(* Authorization of accounts, and the keys of devices.                       *)
(* Mutant: under an automatic policy whoever asks is approved.              *)
RequestedByAnyone(g) ==
  IF mode = "automatic" THEN "APPROVED" ELSE IF g = "NONE" THEN "PENDING" ELSE g
Requested(g) ==
  CASE g \in {"NONE", "PENDING"} /\ mode = "automatic" -> "APPROVED"
    [] g = "NONE" /\ mode # "automatic" -> "PENDING"
    [] OTHER -> g

(* The first transaction of a request; only an approved account goes on.     *)
Request(r, kind, a, k) ==
  /\ req[r] = Idle /\ Enabled /\ Active(a)
  /\ grant' = [grant EXCEPT ![a] = Requested(@)]
  /\ IF Requested(grant[a]) = "APPROVED"
       THEN req' = [req EXCEPT ![r] =
                      [kind |-> kind, account |-> a, key |-> k]]
       ELSE UNCHANGED req
  /\ UNCHANGED <<mode, disabled, decided, standing, tables, answer>>

(* A device enrols with a key of its own making; a website is given one.     *)
RequestEnrolment(r, a, k) == Request(r, "enroll", a, k)
RequestIssue(r, a) == Request(r, "issue", a, Nil)

AddIdentity(i, a, k) ==
  /\ identity[i] = NoIdentity /\ key[k] = NoKey
  /\ Cardinality(IdentitiesOf(a)) < Quota
  /\ identity' = [identity EXCEPT ![i] =
                    [NoIdentity EXCEPT !.account = a, !.generation = 1]]
  /\ key' = [key EXCEPT ![k] =
               [identity |-> i, generation |-> 1, revoked |-> FALSE]]

(* The second transaction.                                                   *)
(* Mutant: what the first transaction found is trusted.                     *)
EnrollAsGranted(r, i) ==
  /\ req[r].kind = "enroll"
  /\ AddIdentity(i, req[r].account, req[r].key)
  /\ req' = [req EXCEPT ![r] = Idle]
  /\ UNCHANGED <<policyVars, session, appearance, answer>>
Enroll(r, i) ==
  /\ req[r].kind = "enroll"
  /\ Permitted(req[r].account)
  /\ AddIdentity(i, req[r].account, req[r].key)
  /\ req' = [req EXCEPT ![r] = Idle]
  /\ UNCHANGED <<policyVars, session, appearance, answer>>

Issue(r, i, k) ==
  /\ req[r].kind = "issue"
  /\ Permitted(req[r].account)
  /\ AddIdentity(i, req[r].account, k)
  /\ req' = [req EXCEPT ![r] = Idle]
  /\ UNCHANGED <<policyVars, session, appearance, answer>>

(* The second transaction refuses, or finds the key enrolled already.        *)
Finish(r) ==
  /\ req[r] # Idle
  /\ req' = [req EXCEPT ![r] = Idle]
  /\ UNCHANGED <<policyVars, tables, answer>>

Rotate(a, i, k, expected) ==
  /\ Permitted(a) /\ identity[i].account = a
  /\ identity[i].generation = expected /\ expected < MaxRevision
  /\ key[k] = NoKey
  /\ EndSessions({i})
  /\ identity' = [Unbound({i}) EXCEPT ![i].generation = @ + 1]
  /\ key' = [RevokeKeys(i) EXCEPT ![k] =
               [identity |-> i, generation |-> expected + 1, revoked |-> FALSE]]
  /\ UNCHANGED <<policyVars, req, answer>>

RevokeKey(a, i) ==
  /\ Active(a) /\ identity[i].account = a
  /\ EndSessions({i})
  /\ identity' = Unbound({i})
  /\ key' = RevokeKeys(i)
  /\ UNCHANGED <<policyVars, req, answer>>

(* An administrator approves or revokes an account.                          *)
Decide(a, status) ==
  /\ Active(a)
  /\ grant' = [grant EXCEPT ![a] = status]
  /\ decided' = [decided EXCEPT ![a] = status]
  /\ IF status = "REVOKED"
       THEN /\ EndSessions(IdentitiesOf(a))
            /\ identity' = Unbound(IdentitiesOf(a))
       ELSE UNCHANGED <<identity, session, appearance>>
  /\ UNCHANGED <<mode, disabled, standing, key, req, answer>>

----------------------------------------------------------------------------
(* Sessions.                                                                 *)
(* Mutant: the sessions before it are left alone.                           *)
ActivateBeside(a, k, e, s, expected) ==
  LET i == key[k].identity IN
  /\ Permitted(a)
  /\ i # Nil /\ identity[i].account = a
  /\ key[k].generation = identity[i].generation /\ ~key[k].revoked
  /\ identity[i].binding = expected /\ session[s] = NoSession /\ Room(i)
  /\ identity' = [identity EXCEPT ![i].binding = @ + 1, ![i].revision = @ + 1,
                                  ![i].active = s]
  /\ session' = [session EXCEPT ![s] =
       [NoSession EXCEPT !.identity = i, !.key = k, !.entity = e,
                         !.binding = expected + 1]]
  /\ DropAppearances({i})
  /\ UNCHANGED <<policyVars, key, req, answer>>
Activate(a, k, e, s, expected) ==
  LET i == key[k].identity IN
  /\ Permitted(a)
  /\ i # Nil /\ identity[i].account = a
  /\ key[k].generation = identity[i].generation /\ ~key[k].revoked
  /\ identity[i].binding = expected
  /\ session[s] = NoSession
  /\ Room(i)
  /\ identity' = [identity EXCEPT ![i].binding = @ + 1, ![i].revision = @ + 1,
                                  ![i].active = s]
  /\ session' = [t \in Sessions |->
       IF t = s
         THEN [NoSession EXCEPT !.identity = i, !.key = k, !.entity = e,
                                !.binding = expected + 1]
         ELSE IF session[t].identity = i
                THEN [session[t] EXCEPT !.revoked = TRUE]
                ELSE session[t]]
  /\ DropAppearances({i})
  /\ UNCHANGED <<policyVars, key, req, answer>>

(* What a request with the session's token is checked for.                   *)
KeyCurrent(s) ==
  LET k == session[s].key IN
  ~key[k].revoked
    /\ key[k].generation = identity[session[s].identity].generation
Bound(s) == identity[session[s].identity].active = s
Alive(s) == Bound(s) /\ ~session[s].expired /\ ~session[s].revoked
              /\ KeyCurrent(s)
Authorized(a, s) ==
  /\ Permitted(a)
  /\ session[s] # NoSession /\ SessionOwner(s) = a
  /\ Alive(s)

(* Nothing, or a model that is there.  Whether the account may use a model   *)
(* that is private depends on the model's owner; either is possible.         *)
Publishable(m) == m # Nil => standing[m] # "unavailable"

(* Mutant: the revision stays as it was.                                    *)
PublishInPlace(a, s, binding, expected, m) ==
  LET i == session[s].identity IN
  /\ Authorized(a, s) /\ Publishable(m)
  /\ session[s].binding = binding
  /\ identity[i].binding = binding /\ identity[i].revision = expected
  /\ appearance' = [appearance EXCEPT ![i] =
       [session |-> s, binding |-> binding, revision |-> expected, model |-> m]]
  /\ UNCHANGED <<policyVars, identity, key, session, req, answer>>
Publish(a, s, binding, expected, m) ==
  LET i == session[s].identity IN
  /\ Authorized(a, s) /\ Publishable(m)
  /\ session[s].binding = binding
  /\ identity[i].binding = binding /\ identity[i].revision = expected
  /\ expected < MaxRevision
  /\ identity' = [identity EXCEPT ![i].revision = @ + 1]
  /\ appearance' = [appearance EXCEPT ![i] =
       [session |-> s, binding |-> binding, revision |-> expected + 1,
        model |-> m]]
  /\ UNCHANGED <<policyVars, key, session, req, answer>>

Withdraw(a, s) ==
  LET i == session[s].identity IN
  /\ Authorized(a, s)
  /\ identity[i].binding = session[s].binding
  /\ Room(i)
  /\ identity' = Unbound({i})
  /\ session' = [session EXCEPT ![s].revoked = TRUE]
  /\ DropAppearances({i})
  /\ UNCHANGED <<policyVars, key, req, answer>>

(* Nothing was published for as long as a session lives.                     *)
Expire(s) ==
  /\ session[s] # NoSession /\ ~session[s].expired
  /\ session' = [session EXCEPT ![s].expired = TRUE]
  /\ UNCHANGED <<policyVars, identity, key, appearance, req, answer>>

----------------------------------------------------------------------------
(* Discovery.                                                                *)
Claims(e) ==
  {s \in Sessions :
     /\ session[s] # NoSession /\ session[s].entity = e
     /\ Alive(s)
     /\ identity[session[s].identity].binding = session[s].binding
     /\ grant[SessionOwner(s)] = "APPROVED" /\ Active(SessionOwner(s))}

(* A model is told while it is public and available; what is published may   *)
(* be another thing, which no observer is told (history).                    *)
Hidden == {m \in Models : standing[m] # "public"}
Visible(m) == IF m \in Hidden THEN Nil ELSE m
Published(s) ==
  LET row == appearance[session[s].identity] IN
  IF row.session = s /\ row.binding = session[s].binding THEN row.model ELSE Nil
Entry(s) ==
  LET i == session[s].identity IN
  [status |-> "ACTIVE", identity |-> i, binding |-> identity[i].binding,
   revision |-> identity[i].revision, model |-> Visible(Published(s)),
   published |-> Published(s)]

Answer(e) ==
  IF ~Enabled \/ Claims(e) = {}
    THEN Unclaimed
    ELSE IF \E s \in Sessions : Claims(e) = {s}
           THEN Entry(CHOOSE s \in Sessions : Claims(e) = {s})
           ELSE Ambiguous

(* No verified player publishes for the entity, and an observer asks.        *)
Query(e) ==
  /\ answer' = [answer EXCEPT ![e] = Answer(e)]
  /\ UNCHANGED <<policyVars, tables, req>>

----------------------------------------------------------------------------
(* The environment: configuration, the owner's updates, restarts.            *)
(* Mutant: switching the feature off leaves the sessions.                   *)
ConfigureGently(m) ==
  /\ mode' = m
  /\ UNCHANGED <<disabled, grant, decided, standing, tables, req, answer>>
Configure(m) ==
  /\ mode' = m
  /\ IF m = "disabled"
       THEN EndSessions(Identities) /\ identity' = Unbound(Identities)
       ELSE UNCHANGED <<identity, session, appearance>>
  /\ UNCHANGED <<disabled, grant, decided, standing, key, req, answer>>

Restart(m) ==
  /\ EndSessions(Identities)
  /\ identity' = Unbound(Identities)
  /\ mode' = m
  /\ req' = [r \in Requests |-> Idle]
  /\ UNCHANGED <<disabled, grant, decided, standing, key, answer>>

SetDisabled(a, value) ==
  /\ disabled' = IF value THEN disabled \cup {a} ELSE disabled \ {a}
  /\ UNCHANGED <<mode, grant, decided, standing, tables, req, answer>>

(* The owner changes a model's visibility, or it is deleted, restored,       *)
(* blocked or released.                                                      *)
SetStanding(m, v) ==
  /\ standing' = [standing EXCEPT ![m] = v]
  /\ UNCHANGED <<mode, disabled, grant, decided, tables, req, answer>>

----------------------------------------------------------------------------
Devices ==
  \E r \in Requests, a \in Accounts, i \in Identities, k \in Keys :
    \/ RequestEnrolment(r, a, k)
    \/ RequestIssue(r, a)
    \/ Enroll(r, i)
    \/ Issue(r, i, k)
    \/ Finish(r)

KeyChanges ==
  \E a \in Accounts, i \in Identities :
    \/ \E k \in Keys, n \in Revisions : Rotate(a, i, k, n)
    \/ RevokeKey(a, i)

Players ==
  \E a \in Accounts, s \in Sessions, n \in Revisions :
    \/ \E k \in Keys, e \in Entities : Activate(a, k, e, s, n)
    \/ \E b \in Revisions, m \in Models \cup {Nil} : Publish(a, s, b, n, m)
    \/ Withdraw(a, s)

Administration ==
  \/ \E a \in Accounts, status \in {"APPROVED", "REVOKED"} : Decide(a, status)
  \/ \E a \in Accounts, value \in BOOLEAN : SetDisabled(a, value)
  \/ \E m \in Modes : Configure(m) \/ Restart(m)
  \/ \E m \in Models, v \in Standings : SetStanding(m, v)

Next ==
  \/ Devices \/ KeyChanges \/ Players \/ Administration
  \/ \E s \in Sessions : Expire(s)
  \/ \E e \in Entities : Query(e)

Spec == Init /\ [][Next]_vars

----------------------------------------------------------------------------
(* Properties.                                                               *)
IdentityRows ==
  [account : Accounts \cup {Nil}, generation : Revisions, binding : Revisions,
   revision : Revisions, active : Sessions \cup {Nil}]
KeyRows ==
  [identity : Identities \cup {Nil}, generation : Revisions, revoked : BOOLEAN]
SessionRows ==
  [identity : Identities \cup {Nil}, key : Keys \cup {Nil}, binding : Revisions,
   entity : Entities \cup {Nil}, revoked : BOOLEAN, expired : BOOLEAN]
AppearanceRows ==
  [session : Sessions \cup {Nil}, binding : Revisions, revision : Revisions,
   model : Models \cup {Nil}]
Calls == {Idle} \cup [kind : {"enroll"}, account : Accounts, key : Keys]
                \cup [kind : {"issue"}, account : Accounts, key : {Nil}]
Answers ==
  [status : {"NONE", "ACTIVE", "AMBIGUOUS"}, identity : Identities \cup {Nil},
   binding : Revisions, revision : Revisions, model : Models \cup {Nil},
   published : Models \cup {Nil}]

TypeOK ==
  /\ mode \in Modes /\ disabled \subseteq Accounts
  /\ grant \in [Accounts -> Grants]
  /\ decided \in [Accounts -> {"NONE", "APPROVED", "REVOKED"}]
  /\ standing \in [Models -> Standings]
  /\ identity \in [Identities -> IdentityRows]
  /\ key \in [Keys -> KeyRows]
  /\ session \in [Sessions -> SessionRows]
  /\ appearance \in [Identities -> AppearanceRows]
  /\ req \in [Requests -> Calls]
  /\ answer \in [Entities -> Answers]

Used(k) == key[k] # NoKey
Begun(s) == session[s] # NoSession

KeysHold ==
  \A k \in Keys : Used(k) =>
    /\ key[k].identity # Nil
    /\ identity[key[k].identity].account # Nil
    /\ key[k].generation <= identity[key[k].identity].generation

(* A session that was not revoked is the one its identity is bound to, under *)
(* the same revision, by a key that still holds, for an approved account.    *)
SessionsHold ==
  \A s \in Sessions : Begun(s) =>
    /\ session[s].identity # Nil /\ session[s].key # Nil
    /\ key[session[s].key].identity = session[s].identity
    /\ Used(session[s].key)
    /\ ~session[s].revoked =>
         /\ Bound(s) /\ KeyCurrent(s)
         /\ identity[session[s].identity].binding = session[s].binding
         /\ Enabled /\ grant[SessionOwner(s)] = "APPROVED"

BindingsHold ==
  \A i \in Identities : identity[i].active # Nil =>
    LET s == identity[i].active IN
    Begun(s) /\ session[s].identity = i /\ ~session[s].revoked

(* What is published was published by the session the identity is bound to,  *)
(* and carries the identity's revision.                                      *)
AppearancesHold ==
  \A i \in Identities : appearance[i] # NoAppearance =>
    /\ identity[i].active # Nil /\ appearance[i].session = identity[i].active
    /\ appearance[i].binding = identity[i].binding
    /\ appearance[i].revision = identity[i].revision

(* The tables agree about which sessions are good: each of the six           *)
(* transactions that end sessions (offline_identity.rs:269, 638 and their    *)
(* callers, offline_authorization.rs:258, offline_player.rs:238) changes     *)
(* sessions, identities and appearances by separate statements.              *)
Consistent ==
  TypeOK /\ KeysHold /\ SessionsHold /\ BindingsHold /\ AppearancesHold

(* "disabled/restarted/restored sessions cannot revive"                      *)
(* (offline_identity.rs:637): a session that is refused, for whatever reason *)
(* but a disabled account, is refused for ever: switching the feature off    *)
(* and on, revoking and approving the account, a restart, a rotation.        *)
Refused(s) ==
  Begun(s) /\ ~(Alive(s) /\ Enabled /\ grant[SessionOwner(s)] = "APPROVED")
SessionsNeverRevive == [][\A s \in Sessions : Refused(s) => Refused(s)']_vars

(* "manual approval cannot be bypassed" (tests/offline_players.rs): only an  *)
(* administrator changes what an administrator decided, and unless the       *)
(* policy is automatic only an administrator approves                        *)
(* (offline_authorization.rs:67).                                            *)
DecisionsStand ==
  [][\A a \in Accounts : grant'[a] # grant[a] =>
       \/ decided'[a] = grant'[a]
       \/ decided[a] = "NONE"
            /\ (grant'[a] = "APPROVED" => mode = "automatic")]_vars

(* Keys come into being, and sessions begin, only while the feature is on    *)
(* and the account is active and approved, also when that changed since the  *)
(* request was granted its authorization (offline_authorization.rs:128,      *)
(* offline_identity.rs:345).                                                 *)
IssuedOnlyToApproved ==
  [][/\ \A k \in Keys : key[k] = NoKey /\ key'[k] # NoKey =>
          Permitted(identity'[key'[k].identity].account)
     /\ \A s \in Sessions : session[s] = NoSession /\ session'[s] # NoSession =>
          Permitted(identity'[session'[s].identity].account)]_vars

(* A publisher id (identity and binding revision) and a revision stand for   *)
(* one publication (offline_player.rs:330): an observer that was given them  *)
(* and is given them again has missed none, and was told, both times, that   *)
(* model or none.  Which of the two also depends on the model's visibility   *)
(* and availability when it asked (269, 281), and no revision tells of that. *)
NoMissedChange ==
  \A e \in Entities :
    LET now == Answer(e) IN
    /\ now.status = "ACTIVE" /\ answer[e].status = "ACTIVE"
    /\ now.identity = answer[e].identity
    /\ now.binding = answer[e].binding /\ now.revision = answer[e].revision
    => /\ now.published = answer[e].published
       /\ {now.model, answer[e].model} \subseteq {Nil, now.published}

(* What the tables say, in the terms of Presence.                            *)
Trusted == {a \in Accounts : Enabled /\ grant[a] = "APPROVED"}
Bearer(i) ==
  IF identity[i].active = Nil \/ session[identity[i].active].expired THEN Nil
  ELSE identity[i].active
Owners == [i \in Identities |-> identity[i].account]
Bearers == [i \in Identities |-> Bearer(i)]
Places == [i \in Identities |->
             IF Bearer(i) = Nil THEN Nil ELSE session[Bearer(i)].entity]
Shows == [i \in Identities |->
            IF Bearer(i) = Nil THEN Nil ELSE appearance[i].model]
Heard == [e \in Entities |->
            [status |-> answer[e].status, identity |-> answer[e].identity,
             model |-> answer[e].model]]
Present == INSTANCE Presence WITH
  trusted <- Trusted, suspended <- disabled, owner <- Owners,
  bearer <- Bearers, spent <- {s \in Sessions : Begun(s)},
  place <- Places, shown <- Shows, told <- Heard,
  hidden <- Hidden

(* However requests interleave, whichever process ends between two of their  *)
(* transactions and whoever decides what meanwhile, the tables amount to     *)
(* Presence: an identity has one bearer, and only while its account is       *)
(* trusted, no session comes back, and observers are told what bearers show  *)
(* (offline_identity.rs:269, 638, offline_player.rs:238, 330).               *)
ImplementsPresence == Present!Spec
=============================================================================
