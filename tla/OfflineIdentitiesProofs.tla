----------------------- MODULE OfflineIdentitiesProofs -----------------------
(* Proofs about OfflineIdentities.  The tables agree (Consistent) in every   *)
(* state; that is inductive, and the other properties follow from it.        *)
EXTENDS OfflineIdentities, TLAPS

(* The rows that stand for no row have the type of their tables.             *)
LEMMA EmptyRows ==
  /\ NoIdentity \in IdentityRows /\ NoKey \in KeyRows
  /\ NoSession \in SessionRows /\ NoAppearance \in AppearanceRows
  /\ Idle \in Calls /\ Unclaimed \in Answers /\ Ambiguous \in Answers
<1>1. 0 \in Revisions BY BoundsAssumption DEF Revisions
<1>2. NoIdentity \in IdentityRows BY <1>1 DEF NoIdentity, IdentityRows
<1>3. NoKey \in KeyRows BY <1>1 DEF NoKey, KeyRows
<1>4. NoSession \in SessionRows BY <1>1 DEF NoSession, SessionRows
<1>5. NoAppearance \in AppearanceRows BY <1>1 DEF NoAppearance, AppearanceRows
<1>6. Idle \in Calls BY DEF Idle, Calls
<1>7. Unclaimed \in Answers BY <1>1 DEF Unclaimed, Answers
<1>8. Ambiguous \in Answers BY <1>7 DEF Ambiguous, Answers, Unclaimed
<1> QED BY <1>2, <1>3, <1>4, <1>5, <1>6, <1>7, <1>8

(* Unbinding identities leaves their owners and keys as they are.            *)
LEMMA UnboundRows ==
  ASSUME TypeOK, NEW I \in SUBSET Identities,
         \A i \in I : identity[i].active # Nil => Room(i)
  PROVE  /\ Unbound(I) \in [Identities -> IdentityRows]
         /\ \A i \in Identities :
              /\ Unbound(I)[i].account = identity[i].account
              /\ Unbound(I)[i].generation = identity[i].generation
              /\ i \in I => Unbound(I)[i].active = Nil
              /\ i \notin I => Unbound(I)[i] = identity[i]
<1>1. SUFFICES ASSUME NEW i \in Identities
               PROVE  /\ Unbound(I)[i] \in IdentityRows
                      /\ Unbound(I)[i].account = identity[i].account
                      /\ Unbound(I)[i].generation = identity[i].generation
                      /\ i \in I => Unbound(I)[i].active = Nil
                      /\ i \notin I => Unbound(I)[i] = identity[i]
  BY DEF Unbound
<1>2. identity[i] \in IdentityRows BY DEF TypeOK
<1>3. CASE i \in I /\ identity[i].active # Nil
  <2>1. identity[i].binding + 1 \in Revisions /\ identity[i].revision + 1 \in Revisions
    BY <1>2, <1>3, BoundsAssumption DEF Room, IdentityRows, Revisions
  <2>2. Unbound(I)[i] = [identity[i] EXCEPT !.active = Nil, !.binding = @ + 1,
                                            !.revision = @ + 1]
    BY <1>3 DEF Unbound
  <2> QED BY <1>2, <1>3, <2>1, <2>2 DEF IdentityRows
<1>4. CASE ~(i \in I /\ identity[i].active # Nil)
  BY <1>2, <1>4 DEF Unbound
<1> QED BY <1>3, <1>4

LEMMA EndingTypes ==
  ASSUME TypeOK, NEW I \in SUBSET Identities, EndSessions(I)
  PROVE  /\ session' \in [Sessions -> SessionRows]
         /\ appearance' \in [Identities -> AppearanceRows]
         /\ \A i \in I : identity[i].active # Nil => Room(i)
<1>1. \A s \in Sessions : session[s] \in SessionRows BY DEF TypeOK
<1>2. \A s \in Sessions : [session[s] EXCEPT !.revoked = TRUE] \in SessionRows
  BY <1>1 DEF SessionRows
<1>3. session' \in [Sessions -> SessionRows]
  BY <1>1, <1>2 DEF EndSessions, RevokeSessions
<1>4. appearance' \in [Identities -> AppearanceRows]
  BY EmptyRows DEF EndSessions, DropAppearances, TypeOK
<1> QED BY <1>3, <1>4 DEF EndSessions

LEMMA RevokedKeyRows ==
  ASSUME TypeOK, NEW i \in Identities
  PROVE  /\ RevokeKeys(i) \in [Keys -> KeyRows]
         /\ \A k \in Keys : /\ RevokeKeys(i)[k].identity = key[k].identity
                            /\ RevokeKeys(i)[k].generation = key[k].generation
                            /\ key[k].identity # i => RevokeKeys(i)[k] = key[k]
<1>1. \A k \in Keys : key[k] \in KeyRows BY DEF TypeOK
<1>2. \A k \in Keys : [key[k] EXCEPT !.revoked = TRUE] \in KeyRows
  BY <1>1 DEF KeyRows
<1>3. \A k \in Keys : /\ RevokeKeys(i)[k].identity = key[k].identity
                      /\ RevokeKeys(i)[k].generation = key[k].generation
                      /\ key[k].identity # i => RevokeKeys(i)[k] = key[k]
  BY <1>1 DEF RevokeKeys, KeyRows
<1>4. RevokeKeys(i) \in [Keys -> KeyRows] BY <1>1, <1>2 DEF RevokeKeys
<1> QED BY <1>3, <1>4

LEMMA AddTypes ==
  ASSUME TypeOK, NEW i \in Identities, NEW a \in Accounts, NEW k \in Keys,
         AddIdentity(i, a, k)
  PROVE  identity' \in [Identities -> IdentityRows] /\ key' \in [Keys -> KeyRows]
<1>1. 0 \in Revisions /\ 1 \in Revisions BY BoundsAssumption DEF Revisions
<1>2. [NoIdentity EXCEPT !.account = a, !.generation = 1] \in IdentityRows
  BY <1>1 DEF NoIdentity, IdentityRows
<1>3. [identity |-> i, generation |-> 1, revoked |-> FALSE] \in KeyRows
  BY <1>1 DEF KeyRows
<1> QED BY <1>2, <1>3 DEF AddIdentity, TypeOK

LEMMA DeviceTypes == TypeOK /\ Devices => TypeOK'
<1> SUFFICES ASSUME TypeOK, NEW r \in Requests, NEW a \in Accounts,
                    NEW i \in Identities, NEW k \in Keys,
                    \/ RequestEnrolment(r, a, k)
                    \/ RequestIssue(r, a)
                    \/ Enroll(r, i)
                    \/ Issue(r, i, k)
                    \/ Finish(r)
             PROVE  TypeOK'
  BY DEF Devices
<1>1. ASSUME NEW kind, NEW x, Request(r, kind, a, x),
             [kind |-> kind, account |-> a, key |-> x] \in Calls
      PROVE  TypeOK'
  <2>1. Requested(grant[a]) \in Grants BY DEF Requested, Grants, TypeOK
  <2> QED BY <1>1, <2>1 DEF Request, TypeOK, tables
<1>2. CASE RequestEnrolment(r, a, k)
  <2>1. [kind |-> "enroll", account |-> a, key |-> k] \in Calls BY DEF Calls
  <2> QED BY <1>1, <1>2, <2>1 DEF RequestEnrolment
<1>3. CASE RequestIssue(r, a)
  <2>1. [kind |-> "issue", account |-> a, key |-> Nil] \in Calls BY DEF Calls
  <2> QED BY <1>1, <1>3, <2>1 DEF RequestIssue
<1>4. req[r] \in Calls BY DEF TypeOK
<1>5. ASSUME req' = [req EXCEPT ![r] = Idle] PROVE req' \in [Requests -> Calls]
  BY <1>5, EmptyRows DEF TypeOK
<1>6. CASE Enroll(r, i)
  <2>1. req[r].account \in Accounts /\ req[r].key \in Keys
    BY <1>4, <1>6 DEF Enroll, Calls, Idle
  <2>2. identity' \in [Identities -> IdentityRows] /\ key' \in [Keys -> KeyRows]
    BY <1>6, <2>1, AddTypes DEF Enroll
  <2> QED BY <1>5, <1>6, <2>2 DEF Enroll, TypeOK, policyVars
<1>7. CASE Issue(r, i, k)
  <2>1. req[r].account \in Accounts BY <1>4, <1>7 DEF Issue, Calls, Idle
  <2>2. identity' \in [Identities -> IdentityRows] /\ key' \in [Keys -> KeyRows]
    BY <1>7, <2>1, AddTypes DEF Issue
  <2> QED BY <1>5, <1>7, <2>2 DEF Issue, TypeOK, policyVars
<1>8. CASE Finish(r)
  BY <1>5, <1>8 DEF Finish, TypeOK, policyVars, tables
<1> QED BY <1>2, <1>3, <1>6, <1>7, <1>8

LEMMA KeyChangeTypes == TypeOK /\ KeyChanges => TypeOK'
<1> SUFFICES ASSUME TypeOK, NEW a \in Accounts, NEW i \in Identities,
                    \/ \E k \in Keys, n \in Revisions : Rotate(a, i, k, n)
                    \/ RevokeKey(a, i)
             PROVE  TypeOK'
  BY DEF KeyChanges
<1>1. RevokeKeys(i) \in [Keys -> KeyRows] BY RevokedKeyRows
<1>2. ASSUME EndSessions({i})
      PROVE  /\ session' \in [Sessions -> SessionRows]
             /\ appearance' \in [Identities -> AppearanceRows]
             /\ Unbound({i}) \in [Identities -> IdentityRows]
             /\ Unbound({i})[i].generation = identity[i].generation
  <2>1. {i} \in SUBSET Identities OBVIOUS
  <2>2. \A j \in {i} : identity[j].active # Nil => Room(j)
    BY <1>2 DEF EndSessions
  <2>3. /\ session' \in [Sessions -> SessionRows]
        /\ appearance' \in [Identities -> AppearanceRows]
    BY <1>2, <2>1, EndingTypes
  <2> QED BY <2>1, <2>2, <2>3, UnboundRows
<1>3. ASSUME NEW k \in Keys, NEW n \in Revisions, Rotate(a, i, k, n)
      PROVE  TypeOK'
  <2>1. n + 1 \in Revisions BY <1>3, BoundsAssumption DEF Rotate, Revisions
  <2>2. [identity |-> i, generation |-> n + 1, revoked |-> FALSE] \in KeyRows
    BY <2>1 DEF KeyRows
  <2>3. key' \in [Keys -> KeyRows] BY <1>1, <1>3, <2>2 DEF Rotate
  <2>4. Unbound({i})[i].generation + 1 \in Revisions
    BY <1>2, <1>3, <2>1 DEF Rotate
  <2>5. [Unbound({i})[i] EXCEPT !.generation = @ + 1] \in IdentityRows
    BY <1>2, <1>3, <2>4 DEF Rotate, IdentityRows
  <2>6. identity' \in [Identities -> IdentityRows]
    BY <1>2, <1>3, <2>5 DEF Rotate
  <2> QED BY <1>2, <1>3, <2>3, <2>6 DEF Rotate, TypeOK, policyVars
<1>4. CASE RevokeKey(a, i)
  BY <1>1, <1>2, <1>4 DEF RevokeKey, TypeOK, policyVars
<1> QED BY <1>3, <1>4

(* The three changes of the identity a session is bound to.                  *)
LEMMA PlayerTypes == TypeOK /\ Players => TypeOK'
<1> SUFFICES ASSUME TypeOK, NEW a \in Accounts, NEW s \in Sessions,
                    NEW n \in Revisions,
                    \/ \E k \in Keys, e \in Entities : Activate(a, k, e, s, n)
                    \/ \E b \in Revisions, m \in Models \cup {Nil} :
                         Publish(a, s, b, n, m)
                    \/ Withdraw(a, s)
             PROVE  TypeOK'
  BY DEF Players
<1>1. \A i \in Identities : identity[i] \in IdentityRows BY DEF TypeOK
<1>2. \A t \in Sessions : session[t] \in SessionRows BY DEF TypeOK
<1>3. \A t \in Sessions : [session[t] EXCEPT !.revoked = TRUE] \in SessionRows
  BY <1>2, ZenonT(60) DEF SessionRows
<1>4. ASSUME NEW i, DropAppearances({i})
      PROVE  appearance' \in [Identities -> AppearanceRows]
  BY <1>4, EmptyRows DEF DropAppearances, TypeOK
<1>5. ASSUME NEW k \in Keys, NEW e \in Entities, Activate(a, k, e, s, n)
      PROVE  TypeOK'
  <2> DEFINE i == key[k].identity
  <2>1. i \in Identities BY <1>5 DEF Activate, TypeOK, KeyRows
  <2>2. identity[i].binding + 1 \in Revisions /\ identity[i].revision + 1 \in Revisions
        /\ identity[i].binding = n
    <3>1. Room(i) /\ identity[i].binding = n BY <1>5 DEF Activate
    <3> QED BY <1>1, <2>1, <3>1, BoundsAssumption, SMTT(40)
             DEF Room, IdentityRows, Revisions
  <2>3. identity' \in [Identities -> IdentityRows]
    <3> DEFINE row == [identity[i] EXCEPT !.binding = @ + 1, !.revision = @ + 1,
                                          !.active = s]
    <3>1. row \in IdentityRows BY <1>1, <2>1, <2>2 DEF IdentityRows
    <3>2. identity' = [identity EXCEPT ![i] = row]
      BY <1>1, <1>5, <2>1 DEF Activate, TypeOK, IdentityRows
    <3> QED BY <3>1, <3>2 DEF TypeOK
  <2>4. session' \in [Sessions -> SessionRows]
    <3> DEFINE row == [NoSession EXCEPT !.identity = i, !.key = k, !.entity = e,
                                        !.binding = n + 1]
    <3>1. row \in SessionRows
      BY <2>1, <2>2, ZenonT(60) DEF NoSession, SessionRows
    <3>2. session' = [t \in Sessions |->
            IF t = s THEN row
              ELSE IF session[t].identity = i
                     THEN [session[t] EXCEPT !.revoked = TRUE]
                     ELSE session[t]]
      BY <1>5 DEF Activate
    <3> QED BY <1>2, <1>3, <3>1, <3>2
  <2>5. appearance' \in [Identities -> AppearanceRows] BY <1>4, <1>5 DEF Activate
  <2> QED BY <1>5, <2>3, <2>4, <2>5 DEF Activate, TypeOK, policyVars
<1>6. ASSUME NEW b \in Revisions, NEW m \in Models \cup {Nil},
             Publish(a, s, b, n, m)
      PROVE  TypeOK'
  <2> DEFINE i == session[s].identity
  <2>1. n + 1 \in Revisions BY <1>6, BoundsAssumption DEF Publish, Revisions
  <2>2. [session |-> s, binding |-> b, revision |-> n + 1, model |-> m]
          \in AppearanceRows
    BY <2>1 DEF AppearanceRows
  <2>3. appearance' \in [Identities -> AppearanceRows]
    BY <1>6, <2>2 DEF Publish, TypeOK
  <2>4. identity[i].revision = n BY <1>6 DEF Publish
  <2>5. i \in Identities => [identity[i] EXCEPT !.revision = @ + 1] \in IdentityRows
    BY <1>1, <2>1, <2>4 DEF IdentityRows
  <2>6. identity' \in [Identities -> IdentityRows]
    BY <1>6, <2>5 DEF Publish, TypeOK
  <2> QED BY <1>6, <2>3, <2>6 DEF Publish, TypeOK, policyVars
<1>7. CASE Withdraw(a, s)
  <2> DEFINE i == session[s].identity
  <2>1. session' \in [Sessions -> SessionRows] BY <1>3, <1>7 DEF Withdraw, TypeOK
  <2>2. appearance' \in [Identities -> AppearanceRows] BY <1>4, <1>7 DEF Withdraw
  <2>3. identity' \in [Identities -> IdentityRows]
    <3> DEFINE I == {i} \cap Identities
    <3>1. identity' = Unbound(I) BY <1>7 DEF Withdraw, Unbound
    <3>2. \A j \in I : identity[j].active # Nil => Room(j)
      BY <1>7 DEF Withdraw
    <3> QED BY <3>1, <3>2, UnboundRows
  <2> QED BY <1>7, <2>1, <2>2, <2>3 DEF Withdraw, TypeOK, policyVars
<1> QED BY <1>5, <1>6, <1>7

LEMMA AdministrationTypes == TypeOK /\ Administration => TypeOK'
<1> SUFFICES ASSUME TypeOK, Administration PROVE TypeOK' OBVIOUS
<1>1. ASSUME NEW I \in SUBSET Identities, EndSessions(I)
      PROVE  /\ session' \in [Sessions -> SessionRows]
             /\ appearance' \in [Identities -> AppearanceRows]
             /\ Unbound(I) \in [Identities -> IdentityRows]
  BY <1>1, EndingTypes, UnboundRows
<1>2. ASSUME NEW a \in Accounts, NEW status \in {"APPROVED", "REVOKED"},
             Decide(a, status)
      PROVE  TypeOK'
  <2>1. IdentitiesOf(a) \in SUBSET Identities BY DEF IdentitiesOf
  <2>2. /\ grant' \in [Accounts -> Grants]
        /\ decided' \in [Accounts -> {"NONE", "APPROVED", "REVOKED"}]
    BY <1>2 DEF Decide, TypeOK, Grants
  <2>3. /\ session' \in [Sessions -> SessionRows]
        /\ appearance' \in [Identities -> AppearanceRows]
        /\ identity' \in [Identities -> IdentityRows]
    BY <1>1, <1>2, <2>1 DEF Decide, TypeOK
  <2> QED BY <1>2, <2>2, <2>3 DEF Decide, TypeOK
<1>3. ASSUME NEW a \in Accounts, NEW value \in BOOLEAN, SetDisabled(a, value)
      PROVE  TypeOK'
  BY <1>3 DEF SetDisabled, TypeOK, tables
<1>4. ASSUME NEW m \in Modes, Configure(m) PROVE TypeOK'
  <2>1. /\ session' \in [Sessions -> SessionRows]
        /\ appearance' \in [Identities -> AppearanceRows]
        /\ identity' \in [Identities -> IdentityRows]
    BY <1>1, <1>4 DEF Configure, TypeOK
  <2> QED BY <1>4, <2>1 DEF Configure, TypeOK
<1>5. ASSUME NEW m \in Modes, Restart(m) PROVE TypeOK'
  <2>1. /\ session' \in [Sessions -> SessionRows]
        /\ appearance' \in [Identities -> AppearanceRows]
        /\ identity' \in [Identities -> IdentityRows]
    BY <1>1, <1>5 DEF Restart
  <2> QED BY <1>5, <2>1, EmptyRows DEF Restart, TypeOK
<1>6. ASSUME NEW m \in Models, NEW v \in Standings, SetStanding(m, v)
      PROVE  TypeOK'
  BY <1>6 DEF SetStanding, TypeOK, tables
<1> QED BY <1>2, <1>3, <1>4, <1>5, <1>6 DEF Administration

LEMMA ExpiryTypes ==
  ASSUME TypeOK, NEW s \in Sessions, Expire(s) PROVE TypeOK'
<1>1. [session[s] EXCEPT !.expired = TRUE] \in SessionRows
  BY DEF TypeOK, SessionRows
<1> QED BY <1>1 DEF Expire, TypeOK, policyVars

LEMMA QueryTypes ==
  ASSUME TypeOK, SessionsHold, NEW e \in Entities, Query(e) PROVE TypeOK'
<1>1. ASSUME NEW s \in Sessions, Begun(s) PROVE Entry(s) \in Answers
  <2>1. session[s].identity \in Identities
    BY <1>1 DEF SessionsHold, TypeOK, SessionRows
  <2>2. identity[session[s].identity] \in IdentityRows BY <2>1 DEF TypeOK
  <2>3. appearance[session[s].identity] \in AppearanceRows BY <2>1 DEF TypeOK
  <2>4. Published(s) \in Models \cup {Nil}
    BY <2>3 DEF Published, AppearanceRows
  <2>5. Visible(Published(s)) \in Models \cup {Nil} BY <2>4 DEF Visible
  <2> QED BY <2>1, <2>2, <2>4, <2>5 DEF Entry, Answers, IdentityRows
<1>2. Answer(e) \in Answers
  <2>1. CASE ~Enabled \/ Claims(e) = {} BY <2>1, EmptyRows DEF Answer
  <2>2. CASE Enabled /\ Claims(e) # {} /\ \E s \in Sessions : Claims(e) = {s}
    <3> DEFINE c == CHOOSE s \in Sessions : Claims(e) = {s}
    <3>1. c \in Sessions /\ Claims(e) = {c} BY <2>2
    <3>2. Begun(c) BY <3>1 DEF Claims, Begun
    <3>3. Entry(c) \in Answers BY <1>1, <3>1, <3>2
    <3>4. Answer(e) = Entry(c) BY <2>2 DEF Answer
    <3> QED BY <3>3, <3>4
  <2>3. CASE Enabled /\ Claims(e) # {} /\ ~\E s \in Sessions : Claims(e) = {s}
    BY <2>3, EmptyRows DEF Answer
  <2> QED BY <2>1, <2>2, <2>3
<1> QED BY <1>2 DEF Query, TypeOK, policyVars, tables

----------------------------------------------------------------------------
(* Consistency.  Most transactions end the sessions of a set of identities,  *)
(* which may be empty, and leave the others alone.                           *)
LEMMA EndingKeeps ==
  ASSUME TypeOK, KeysHold, SessionsHold, BindingsHold, AppearancesHold,
         NEW I \in SUBSET Identities, EndSessions(I),
         \A i \in I : /\ identity'[i].account = identity[i].account
                      /\ identity'[i].active = Nil,
         \A i \in Identities \ I :
           \/ identity'[i] = identity[i]
           \/ identity[i].account = Nil /\ identity'[i].active = Nil,
         \A k \in Keys : Used(k) =>
           /\ key'[k].identity = key[k].identity
           /\ key[k].identity \notin I => key'[k] = key[k],
         \A i \in Identities \ I :
           /\ Enabled => Enabled'
           /\ grant[identity[i].account] = "APPROVED" =>
                grant'[identity[i].account] = "APPROVED"
  PROVE  SessionsHold' /\ BindingsHold' /\ AppearancesHold'
<1>1. ASSUME NEW s \in Sessions, Begun(s)
      PROVE  /\ session[s].identity \in Identities /\ session[s].key \in Keys
             /\ Used(session[s].key)
             /\ key[session[s].key].identity = session[s].identity
             /\ identity[session[s].identity].account # Nil
  BY <1>1 DEF SessionsHold, KeysHold, TypeOK, SessionRows
<1>2. ASSUME NEW s \in Sessions
      PROVE  /\ session'[s].identity = session[s].identity
             /\ session'[s].key = session[s].key
             /\ session'[s].binding = session[s].binding
             /\ session'[s] # NoSession => Begun(s)
             /\ ~session'[s].revoked =>
                  session[s].identity \notin I /\ session'[s] = session[s]
             /\ session[s].identity \notin I => session'[s] = session[s]
  <2>1. session[s] \in SessionRows BY DEF TypeOK
  <2>2. session'[s] = IF session[s].identity \in I
                        THEN [session[s] EXCEPT !.revoked = TRUE] ELSE session[s]
    BY DEF EndSessions, RevokeSessions
  <2>3. session[s] = NoSession => session[s].identity \notin I
    BY NilAssumption DEF NoSession
  <2> QED BY <2>1, <2>2, <2>3 DEF SessionRows, Begun
<1>3. SessionsHold'
  <2> SUFFICES ASSUME NEW s \in Sessions, session'[s] # NoSession
      PROVE  /\ session'[s].identity # Nil /\ session'[s].key # Nil
             /\ key'[session'[s].key].identity = session'[s].identity
             /\ key'[session'[s].key] # NoKey
             /\ ~session'[s].revoked =>
                  /\ Bound(s)' /\ KeyCurrent(s)'
                  /\ identity'[session'[s].identity].binding = session'[s].binding
                  /\ Enabled' /\ grant'[SessionOwner(s)'] = "APPROVED"
    BY DEF SessionsHold, Begun, Used
  <2>1. Begun(s) BY <1>2
  <2>2. /\ session'[s].identity # Nil /\ session'[s].key # Nil
        /\ key'[session'[s].key].identity = session'[s].identity
        /\ key'[session'[s].key] # NoKey
    BY <1>1, <1>2, <2>1, NilAssumption DEF NoKey
  <2>3. ASSUME ~session'[s].revoked
        PROVE  /\ Bound(s)' /\ KeyCurrent(s)'
               /\ identity'[session'[s].identity].binding = session'[s].binding
               /\ Enabled' /\ grant'[SessionOwner(s)'] = "APPROVED"
    <3> DEFINE j == session[s].identity
    <3>1. j \notin I /\ session'[s] = session[s] BY <1>2, <2>3
    <3>2. identity'[j] = identity[j] BY <1>1, <2>1, <3>1
    <3>3. key'[session[s].key] = key[session[s].key] BY <1>1, <2>1, <3>1
    <3>4. /\ Bound(s) /\ KeyCurrent(s) /\ identity[j].binding = session[s].binding
          /\ Enabled /\ grant[SessionOwner(s)] = "APPROVED"
      BY <2>1, <2>3, <3>1 DEF SessionsHold
    <3>5. Bound(s)' /\ KeyCurrent(s)'
      BY <3>1, <3>2, <3>3, <3>4 DEF Bound, KeyCurrent
    <3>6. Enabled' /\ grant'[SessionOwner(s)'] = "APPROVED"
      BY <1>1, <2>1, <3>1, <3>2, <3>4 DEF SessionOwner
    <3> QED BY <3>1, <3>2, <3>4, <3>5, <3>6
  <2> QED BY <2>2, <2>3
<1>4. ASSUME NEW j \in Identities, identity[j].active # Nil
      PROVE  /\ identity[j].active \in Sessions /\ Begun(identity[j].active)
             /\ session[identity[j].active].identity = j
             /\ ~session[identity[j].active].revoked
             /\ identity[j].account # Nil
  <2>1. identity[j].active \in Sessions BY <1>4 DEF TypeOK, IdentityRows
  <2>2. /\ Begun(identity[j].active)
        /\ session[identity[j].active].identity = j
        /\ ~session[identity[j].active].revoked
    BY <1>4 DEF BindingsHold
  <2> QED BY <1>1, <2>1, <2>2
<1>5. BindingsHold'
  <2> SUFFICES ASSUME NEW j \in Identities, identity'[j].active # Nil
      PROVE  /\ session'[identity'[j].active] # NoSession
             /\ session'[identity'[j].active].identity = j
             /\ ~session'[identity'[j].active].revoked
    BY DEF BindingsHold, Begun
  <2>1. j \notin I /\ identity'[j] = identity[j] OBVIOUS
  <2>2. session'[identity[j].active] = session[identity[j].active]
    BY <1>2, <1>4, <2>1
  <2> QED BY <1>4, <2>1, <2>2 DEF Begun
<1>6. AppearancesHold'
  <2> SUFFICES ASSUME NEW j \in Identities, appearance'[j] # NoAppearance
      PROVE  /\ identity'[j].active # Nil
             /\ appearance'[j].session = identity'[j].active
             /\ appearance'[j].binding = identity'[j].binding
             /\ appearance'[j].revision = identity'[j].revision
    BY DEF AppearancesHold
  <2>1. j \notin I /\ appearance'[j] = appearance[j]
    BY DEF EndSessions, DropAppearances
  <2>2. /\ identity[j].active # Nil /\ appearance[j].session = identity[j].active
        /\ appearance[j].binding = identity[j].binding
        /\ appearance[j].revision = identity[j].revision
    BY <2>1 DEF AppearancesHold
  <2>3. identity'[j] = identity[j] BY <1>4, <2>1, <2>2
  <2> QED BY <2>1, <2>2, <2>3
<1> QED BY <1>3, <1>5, <1>6

LEMMA EndingNone ==
  ASSUME TypeOK, UNCHANGED <<session, appearance>>
  PROVE  EndSessions({})
BY DEF EndSessions, RevokeSessions, DropAppearances, TypeOK

(* Keys stay what they are, and identities keep their owner and generation.  *)
LEMMA KeysKept ==
  ASSUME TypeOK, KeysHold,
         \A i \in Identities : identity'[i].account = identity[i].account
                               /\ identity'[i].generation = identity[i].generation,
         \A k \in Keys : /\ key[k] = NoKey => key'[k] = NoKey
                         /\ key'[k].identity = key[k].identity
                         /\ key'[k].generation = key[k].generation
  PROVE  KeysHold'
<1> SUFFICES ASSUME NEW k \in Keys, key'[k] # NoKey
    PROVE  /\ key'[k].identity # Nil
           /\ identity'[key'[k].identity].account # Nil
           /\ key'[k].generation <= identity'[key'[k].identity].generation
  BY DEF KeysHold, Used
<1>1. /\ key[k].identity # Nil /\ identity[key[k].identity].account # Nil
      /\ key[k].generation <= identity[key[k].identity].generation
  BY DEF KeysHold, Used
<1>2. key[k].identity \in Identities BY <1>1 DEF TypeOK, KeyRows
<1> QED BY <1>1, <1>2

TablesHold == KeysHold /\ SessionsHold /\ BindingsHold /\ AppearancesHold

(* The rows of an identity and its key that are added disturb no other row.  *)
LEMMA AddingKeeps ==
  ASSUME Consistent, NEW i \in Identities, NEW a \in Accounts, NEW k \in Keys,
         AddIdentity(i, a, k),
         UNCHANGED <<mode, grant, session, appearance>>
  PROVE  TablesHold'
<1>1. identity[i] = NoIdentity /\ key[k] = NoKey BY DEF AddIdentity
<1>2. /\ identity'[i].account = a /\ identity'[i].active = Nil
      /\ identity'[i].generation = 1
      /\ \A j \in Identities \ {i} : identity'[j] = identity[j]
  BY DEF AddIdentity, NoIdentity, Consistent, TypeOK
<1>3. /\ key'[k].identity = i /\ key'[k].generation = 1
      /\ \A x \in Keys \ {k} : key'[x] = key[x]
  BY DEF AddIdentity, Consistent, TypeOK
<1>4. KeysHold'
  <2> SUFFICES ASSUME NEW x \in Keys, key'[x] # NoKey
      PROVE  /\ key'[x].identity # Nil
             /\ identity'[key'[x].identity].account # Nil
             /\ key'[x].generation <= identity'[key'[x].identity].generation
    BY DEF KeysHold, Used
  <2>1. CASE x = k BY <1>2, <1>3, <2>1, NilAssumption
  <2>2. CASE x # k
    <3>1. /\ key[x].identity # Nil /\ identity[key[x].identity].account # Nil
          /\ key[x].generation <= identity[key[x].identity].generation
      BY <1>3, <2>2 DEF Consistent, KeysHold, Used
    <3>2. key[x].identity \in Identities BY <3>1 DEF Consistent, TypeOK, KeyRows
    <3>3. key[x].identity # i BY <1>1, <3>1 DEF NoIdentity
    <3> QED BY <1>2, <1>3, <2>2, <3>1, <3>2, <3>3
  <2> QED BY <2>1, <2>2
<1>5. SessionsHold' /\ BindingsHold' /\ AppearancesHold'
  <2>1. EndSessions({}) BY EndingNone DEF Consistent
  <2>2. \A j \in Identities : \/ identity'[j] = identity[j]
                              \/ identity[j].account = Nil /\ identity'[j].active = Nil
    BY <1>1, <1>2 DEF NoIdentity
  <2>3. \A x \in Keys : Used(x) => key'[x] = key[x] BY <1>1, <1>3 DEF Used
  <2> QED BY <2>1, <2>2, <2>3, EndingKeeps DEF Consistent, Enabled
<1> QED BY <1>4, <1>5 DEF TablesHold

(* A step that changes no table, and withdraws neither feature nor approval. *)
LEMMA TablesKept ==
  ASSUME Consistent, UNCHANGED tables, Enabled => Enabled',
         \A a \in Accounts \cup {Nil} :
           grant[a] = "APPROVED" => grant'[a] = "APPROVED"
  PROVE  TablesHold'
<1>1. EndSessions({}) BY EndingNone DEF Consistent, tables
<1>2. KeysHold' BY DEF Consistent, KeysHold, Used, tables
<1>3. \A i \in Identities : identity[i].account \in Accounts \cup {Nil}
  BY DEF Consistent, TypeOK, IdentityRows
<1>4. SessionsHold' /\ BindingsHold' /\ AppearancesHold'
  BY <1>1, <1>3, EndingKeeps DEF Consistent, tables
<1> QED BY <1>2, <1>4 DEF TablesHold

LEMMA DevicesKeep == Consistent /\ Devices => TablesHold'
<1> SUFFICES ASSUME Consistent, NEW r \in Requests, NEW a \in Accounts,
                    NEW i \in Identities, NEW k \in Keys,
                    \/ RequestEnrolment(r, a, k)
                    \/ RequestIssue(r, a)
                    \/ Enroll(r, i)
                    \/ Issue(r, i, k)
                    \/ Finish(r)
             PROVE  TablesHold'
  BY DEF Devices
<1>1. ASSUME NEW kind, NEW x, Request(r, kind, a, x) PROVE TablesHold'
  <2>1. \A b \in Accounts \cup {Nil} :
          grant[b] = "APPROVED" => grant'[b] = "APPROVED"
    <3>1. grant[a] = "APPROVED" => Requested(grant[a]) = "APPROVED"
      BY DEF Requested
    <3> QED BY <1>1, <3>1, NilAssumption DEF Request, Consistent, TypeOK
  <2> QED BY <1>1, <2>1, TablesKept DEF Request, tables, Enabled
<1>2. req[r] \in Calls BY DEF Consistent, TypeOK
<1>3. CASE Enroll(r, i)
  <2>1. req[r].account \in Accounts /\ req[r].key \in Keys
    BY <1>2, <1>3 DEF Enroll, Calls, Idle
  <2> QED BY <1>3, <2>1, AddingKeeps DEF Enroll, policyVars
<1>4. CASE Issue(r, i, k)
  <2>1. req[r].account \in Accounts BY <1>2, <1>4 DEF Issue, Calls, Idle
  <2> QED BY <1>4, <2>1, AddingKeeps DEF Issue, policyVars
<1>5. CASE Finish(r)
  BY <1>5, TablesKept DEF Finish, policyVars, tables, Enabled
<1>6. CASE RequestEnrolment(r, a, k) BY <1>1, <1>6 DEF RequestEnrolment
<1>7. CASE RequestIssue(r, a) BY <1>1, <1>7 DEF RequestIssue
<1> QED BY <1>3, <1>4, <1>5, <1>6, <1>7

LEMMA KeyChangesKeep == Consistent /\ KeyChanges => TablesHold'
<1> SUFFICES ASSUME Consistent, NEW a \in Accounts, NEW i \in Identities,
                    \/ \E k \in Keys, n \in Revisions : Rotate(a, i, k, n)
                    \/ RevokeKey(a, i)
             PROVE  TablesHold'
  BY DEF KeyChanges
<1> USE DEF Consistent
<1>1. \A k \in Keys : /\ RevokeKeys(i)[k].identity = key[k].identity
                      /\ RevokeKeys(i)[k].generation = key[k].generation
                      /\ key[k].identity # i => RevokeKeys(i)[k] = key[k]
                      /\ key[k] = NoKey => RevokeKeys(i)[k] = NoKey
  BY RevokedKeyRows, NilAssumption DEF NoKey
<1>2. ASSUME EndSessions({i})
      PROVE  \A j \in Identities :
               /\ Unbound({i})[j].account = identity[j].account
               /\ Unbound({i})[j].generation = identity[j].generation
               /\ j = i => Unbound({i})[j].active = Nil
               /\ j # i => Unbound({i})[j] = identity[j]
  BY <1>2, UnboundRows DEF EndSessions
<1>3. ASSUME NEW k \in Keys, NEW n \in Revisions, Rotate(a, i, k, n)
      PROVE  TablesHold'
  <2>1. EndSessions({i}) /\ key[k] = NoKey /\ identity[i].generation = n
    BY <1>3 DEF Rotate
  <2>2. Unbound({i}) \in [Identities -> IdentityRows]
    BY <2>1, UnboundRows DEF EndSessions
  <2>3. identity' = [Unbound({i}) EXCEPT ![i].generation = @ + 1]
    BY <1>3 DEF Rotate
  <2>4. /\ identity'[i].account = identity[i].account
        /\ identity'[i].active = Nil /\ identity'[i].generation = n + 1
        /\ \A j \in Identities \ {i} : identity'[j] = identity[j]
    BY <1>2, <2>1, <2>2, <2>3 DEF IdentityRows
  <2>5. /\ key'[k].identity = i /\ key'[k].generation = n + 1
        /\ \A x \in Keys \ {k} : key'[x] = RevokeKeys(i)[x]
    BY <1>3, RevokedKeyRows DEF Rotate
  <2>6. KeysHold'
    <3> SUFFICES ASSUME NEW x \in Keys, key'[x] # NoKey
        PROVE  /\ key'[x].identity # Nil
               /\ identity'[key'[x].identity].account # Nil
               /\ key'[x].generation <= identity'[key'[x].identity].generation
      BY DEF KeysHold, Used
    <3>1. CASE x = k
      <4>1. identity[i].account # Nil BY <1>3, NilAssumption DEF Rotate
      <4> QED BY <2>4, <2>5, <3>1, <4>1, NilAssumption DEF Revisions
    <3>2. CASE x # k
      <4>1. key[x] # NoKey /\ key'[x].identity = key[x].identity
            /\ key'[x].generation = key[x].generation
        BY <1>1, <2>5, <3>2
      <4>2. /\ key[x].identity # Nil /\ identity[key[x].identity].account # Nil
            /\ key[x].generation <= identity[key[x].identity].generation
        BY <4>1 DEF KeysHold, Used
      <4>3. key[x].identity \in Identities /\ key[x].generation \in Int
        BY <4>2 DEF TypeOK, KeyRows, Revisions
      <4>4. CASE key[x].identity = i
        BY <2>1, <2>4, <4>1, <4>2, <4>3, <4>4 DEF Revisions
      <4>5. CASE key[x].identity # i BY <2>4, <4>1, <4>2, <4>3, <4>5
      <4> QED BY <4>4, <4>5
    <3> QED BY <3>1, <3>2
  <2>7. \A x \in Keys : Used(x) =>
          key'[x].identity = key[x].identity
          /\ (key[x].identity # i => key'[x] = key[x])
    BY <1>1, <2>1, <2>5 DEF Used
  <2>8. SessionsHold' /\ BindingsHold' /\ AppearancesHold'
    BY <1>3, <2>1, <2>4, <2>7, EndingKeeps DEF Rotate, policyVars, Enabled
  <2> QED BY <2>6, <2>8 DEF TablesHold
<1>4. CASE RevokeKey(a, i)
  <2>1. EndSessions({i}) /\ identity' = Unbound({i}) /\ key' = RevokeKeys(i)
    BY <1>4 DEF RevokeKey
  <2>2. KeysHold' BY <1>1, <1>2, <2>1, KeysKept
  <2>3. SessionsHold' /\ BindingsHold' /\ AppearancesHold'
    BY <1>1, <1>2, <1>4, <2>1, EndingKeeps DEF RevokeKey, policyVars, Enabled
  <2> QED BY <2>2, <2>3 DEF TablesHold
<1> QED BY <1>3, <1>4

LEMMA AdministrationKeeps == Consistent /\ Administration => TablesHold'
<1> SUFFICES ASSUME Consistent, Administration PROVE TablesHold' OBVIOUS
<1> USE DEF Consistent
(* The sessions of I end; what else changes takes approval from none but I.  *)
<1>1. ASSUME NEW I \in SUBSET Identities, EndSessions(I),
             identity' = Unbound(I), key' = key,
             \A i \in Identities \ I :
               /\ Enabled => Enabled'
               /\ grant[identity[i].account] = "APPROVED" =>
                    grant'[identity[i].account] = "APPROVED"
      PROVE  TablesHold'
  <2>1. \A i \in Identities :
          /\ Unbound(I)[i].account = identity[i].account
          /\ Unbound(I)[i].generation = identity[i].generation
          /\ i \in I => Unbound(I)[i].active = Nil
          /\ i \notin I => Unbound(I)[i] = identity[i]
    BY <1>1, UnboundRows DEF EndSessions
  <2>2. KeysHold' BY <1>1, <2>1, KeysKept
  <2>3. SessionsHold' /\ BindingsHold' /\ AppearancesHold'
    BY <1>1, <2>1, EndingKeeps
  <2> QED BY <2>2, <2>3 DEF TablesHold
<1>2. ASSUME NEW a \in Accounts, NEW status \in {"APPROVED", "REVOKED"},
             Decide(a, status)
      PROVE  TablesHold'
  <2>1. CASE status = "REVOKED"
    <3>1. IdentitiesOf(a) \in SUBSET Identities BY DEF IdentitiesOf
    <3>2. \A i \in Identities \ IdentitiesOf(a) :
            grant'[identity[i].account] = grant[identity[i].account]
      BY <1>2 DEF Decide, IdentitiesOf, TypeOK, IdentityRows
    <3> QED BY <1>1, <1>2, <2>1, <3>1, <3>2 DEF Decide, Enabled
  <2>2. CASE status = "APPROVED"
    <3>1. \A b \in Accounts \cup {Nil} :
            grant[b] = "APPROVED" => grant'[b] = "APPROVED"
      BY <1>2, <2>2, NilAssumption DEF Decide, TypeOK
    <3> QED BY <1>2, <2>2, <3>1, TablesKept DEF Decide, tables, Enabled
  <2> QED BY <2>1, <2>2
<1>3. ASSUME NEW a \in Accounts, NEW value \in BOOLEAN, SetDisabled(a, value)
      PROVE  TablesHold'
  BY <1>3, TablesKept DEF SetDisabled, Enabled
<1>4. ASSUME NEW m \in Modes, Configure(m) PROVE TablesHold'
  <2>1. CASE m = "disabled" BY <1>1, <1>4, <2>1 DEF Configure
  <2>2. CASE m # "disabled"
    BY <1>4, <2>2, TablesKept DEF Configure, tables, Enabled
  <2> QED BY <2>1, <2>2
<1>5. ASSUME NEW m \in Modes, Restart(m) PROVE TablesHold'
  BY <1>1, <1>5 DEF Restart
<1>6. ASSUME NEW m \in Models, NEW v \in Standings, SetStanding(m, v)
      PROVE  TablesHold'
  BY <1>6, TablesKept DEF SetStanding, Enabled
<1> QED BY <1>2, <1>3, <1>4, <1>5, <1>6 DEF Administration

(* A new session takes the place of all that its identity had.               *)
LEMMA ActivateKeeps ==
  ASSUME Consistent, NEW a \in Accounts, NEW k \in Keys, NEW e \in Entities,
         NEW s \in Sessions, NEW n \in Revisions, Activate(a, k, e, s, n)
  PROVE  TablesHold'
<1> DEFINE i == key[k].identity
<1> USE DEF Consistent
<1>1. /\ i \in Identities /\ identity[i].account = a
      /\ key[k].generation = identity[i].generation /\ ~key[k].revoked
      /\ identity[i].binding = n /\ session[s] = NoSession
      /\ Permitted(a) /\ key' = key /\ UNCHANGED <<mode, grant>>
  BY DEF Activate, TypeOK, KeyRows, policyVars
<1>2. /\ identity'[i].account = a /\ identity'[i].binding = n + 1
      /\ identity'[i].generation = identity[i].generation
      /\ identity'[i].active = s
      /\ \A j \in Identities \ {i} : identity'[j] = identity[j]
  BY <1>1 DEF Activate, TypeOK, IdentityRows
<1>3. /\ session'[s].identity = i /\ session'[s].key = k
      /\ session'[s].binding = n + 1 /\ ~session'[s].revoked
      /\ \A t \in Sessions \ {s} :
           /\ session[t].identity = i =>
                session'[t] = [session[t] EXCEPT !.revoked = TRUE]
           /\ session[t].identity # i => session'[t] = session[t]
  BY DEF Activate, NoSession
<1>4. /\ appearance'[i] = NoAppearance
      /\ \A j \in Identities \ {i} : appearance'[j] = appearance[j]
  BY <1>1 DEF Activate, DropAppearances
<1>5. Used(k) BY <1>1, NilAssumption DEF Used, NoKey
<1>6. KeysHold'
  BY <1>1, <1>2 DEF KeysHold, Used, TypeOK, KeyRows
<1>7. \A t \in Sessions : session[t] \in SessionRows BY DEF TypeOK
<1>8. SessionsHold'
  <2> SUFFICES ASSUME NEW t \in Sessions, session'[t] # NoSession
      PROVE  /\ session'[t].identity # Nil /\ session'[t].key # Nil
             /\ key'[session'[t].key].identity = session'[t].identity
             /\ key'[session'[t].key] # NoKey
             /\ ~session'[t].revoked =>
                  /\ Bound(t)' /\ KeyCurrent(t)'
                  /\ identity'[session'[t].identity].binding = session'[t].binding
                  /\ Enabled' /\ grant'[SessionOwner(t)'] = "APPROVED"
    BY DEF SessionsHold, Begun, Used
  <2>1. CASE t = s
    <3>1. Bound(t)' /\ KeyCurrent(t)'
      BY <1>1, <1>2, <1>3, <2>1 DEF Bound, KeyCurrent
    <3>2. Enabled' /\ grant'[SessionOwner(t)'] = "APPROVED"
      BY <1>1, <1>2, <1>3, <2>1 DEF Permitted, Enabled, SessionOwner
    <3> QED BY <1>1, <1>2, <1>3, <1>5, <2>1, <3>1, <3>2, NilAssumption DEF Used
  <2>2. CASE t # s /\ session[t].identity = i
    <3>1. /\ session'[t].identity = i /\ session'[t].key = session[t].key
          /\ session'[t].revoked
      BY <1>3, <1>7, <2>2, ZenonT(60) DEF SessionRows
    <3>2. Begun(t) BY <1>1, <2>2, NilAssumption DEF Begun, NoSession
    <3> QED BY <1>1, <2>2, <3>1, <3>2 DEF SessionsHold, Used
  <2>3. CASE t # s /\ session[t].identity # i
    <3>1. session'[t] = session[t] /\ Begun(t) BY <1>3, <2>3 DEF Begun
    <3>2. session[t].identity \in Identities
      BY <1>7, <3>1 DEF SessionsHold, SessionRows
    <3>3. identity'[session[t].identity] = identity[session[t].identity]
      BY <1>2, <2>3, <3>2
    <3> QED BY <1>1, <3>1, <3>3
            DEF SessionsHold, Bound, KeyCurrent, SessionOwner, Enabled, Used
  <2> QED BY <2>1, <2>2, <2>3
<1>9. BindingsHold'
  <2> SUFFICES ASSUME NEW j \in Identities, identity'[j].active # Nil
      PROVE  /\ session'[identity'[j].active] # NoSession
             /\ session'[identity'[j].active].identity = j
             /\ ~session'[identity'[j].active].revoked
    BY DEF BindingsHold, Begun
  <2>1. CASE j = i BY <1>1, <1>2, <1>3, <2>1, NilAssumption DEF NoSession
  <2>2. CASE j # i
    <3>1. identity'[j] = identity[j] /\ identity[j].active \in Sessions
      BY <1>2, <2>2 DEF TypeOK, IdentityRows
    <3>2. /\ Begun(identity[j].active) /\ session[identity[j].active].identity = j
          /\ ~session[identity[j].active].revoked
      BY <3>1 DEF BindingsHold
    <3>3. identity[j].active # s BY <1>1, <3>2 DEF Begun
    <3> QED BY <1>3, <2>2, <3>1, <3>2, <3>3, ZenonT(60) DEF Begun
  <2> QED BY <2>1, <2>2
<1>10. AppearancesHold'
  BY <1>1, <1>2, <1>4 DEF AppearancesHold
<1> QED BY <1>6, <1>8, <1>9, <1>10 DEF TablesHold

LEMMA PublishKeeps ==
  ASSUME Consistent, NEW a \in Accounts, NEW s \in Sessions,
         NEW b \in Revisions, NEW n \in Revisions, NEW m \in Models \cup {Nil},
         Publish(a, s, b, n, m)
  PROVE  TablesHold'
<1> DEFINE i == session[s].identity
<1> USE DEF Consistent
<1>1. /\ Begun(s) /\ identity[i].active = s /\ identity[i].binding = b
      /\ identity[i].revision = n
      /\ UNCHANGED <<mode, grant, key, session>>
  BY DEF Publish, Authorized, Alive, Bound, Begun, policyVars
<1>2. i \in Identities BY <1>1 DEF SessionsHold, TypeOK, SessionRows
<1>3. /\ \A j \in Identities :
           /\ identity'[j].account = identity[j].account
           /\ identity'[j].generation = identity[j].generation
           /\ identity'[j].binding = identity[j].binding
           /\ identity'[j].active = identity[j].active
           /\ j # i => identity'[j] = identity[j]
      /\ identity'[i].revision = n + 1
  BY <1>1, <1>2 DEF Publish, TypeOK, IdentityRows
<1>4. /\ appearance'[i] = [session |-> s, binding |-> b, revision |-> n + 1,
                            model |-> m]
      /\ \A j \in Identities \ {i} : appearance'[j] = appearance[j]
  BY <1>2 DEF Publish, TypeOK
<1>5. KeysHold' BY <1>1, <1>3 DEF KeysHold, Used, TypeOK, KeyRows
<1>6. SessionsHold'
  <2> SUFFICES ASSUME NEW t \in Sessions, Begun(t)
      PROVE  /\ session[t].identity # Nil /\ session[t].key # Nil
             /\ key[session[t].key].identity = session[t].identity
             /\ Used(session[t].key)
             /\ ~session[t].revoked =>
                  /\ Bound(t)' /\ KeyCurrent(t)'
                  /\ identity'[session[t].identity].binding = session[t].binding
                  /\ Enabled' /\ grant[SessionOwner(t)'] = "APPROVED"
    BY <1>1 DEF SessionsHold, Begun, Used
  <2>1. session[t].identity \in Identities
    BY DEF SessionsHold, TypeOK, SessionRows
  <2> QED BY <1>1, <1>3, <2>1
          DEF SessionsHold, Bound, KeyCurrent, SessionOwner, Enabled
<1>7. BindingsHold' BY <1>1, <1>3 DEF BindingsHold, Begun
<1>8. AppearancesHold'
  <2> SUFFICES ASSUME NEW j \in Identities, appearance'[j] # NoAppearance
      PROVE  /\ identity'[j].active # Nil
             /\ appearance'[j].session = identity'[j].active
             /\ appearance'[j].binding = identity'[j].binding
             /\ appearance'[j].revision = identity'[j].revision
    BY DEF AppearancesHold
  <2>1. CASE j = i BY <1>1, <1>2, <1>3, <1>4, <2>1, NilAssumption
  <2>2. CASE j # i BY <1>3, <1>4, <2>2 DEF AppearancesHold
  <2> QED BY <2>1, <2>2
<1> QED BY <1>5, <1>6, <1>7, <1>8 DEF TablesHold

(* The one session withdrawn is the only one its identity has.               *)
LEMMA WithdrawKeeps ==
  ASSUME Consistent, NEW a \in Accounts, NEW s \in Sessions, Withdraw(a, s)
  PROVE  TablesHold'
<1> DEFINE i == session[s].identity
<1> USE DEF Consistent
<1>1. /\ Begun(s) /\ identity[i].active = s /\ Room(i)
      /\ identity' = Unbound({i})
      /\ session' = [session EXCEPT ![s].revoked = TRUE]
      /\ DropAppearances({i}) /\ UNCHANGED <<mode, grant, key>>
  BY DEF Withdraw, Authorized, Alive, Bound, Begun, policyVars
<1>2. i \in Identities BY <1>1 DEF SessionsHold, TypeOK, SessionRows
<1>3. EndSessions({i})
  <2>1. ASSUME NEW t \in Sessions
        PROVE  session'[t] = IF session[t].identity = i
                               THEN [session[t] EXCEPT !.revoked = TRUE]
                               ELSE session[t]
    <3>1. session[t] \in SessionRows BY DEF TypeOK
    <3>2. CASE t = s BY <1>1, <3>2 DEF TypeOK
    <3>3. CASE t # s /\ session[t].identity = i
      <4>1. Begun(t) BY <1>2, <3>3, NilAssumption DEF Begun, NoSession
      <4>2. session[t].revoked BY <1>1, <3>3, <4>1 DEF SessionsHold, Bound
      <4>3. session[t] = [session[t] EXCEPT !.revoked = TRUE]
        BY <3>1, <4>2 DEF SessionRows
      <4> QED BY <1>1, <3>3, <4>3 DEF TypeOK
    <3>4. CASE session[t].identity # i BY <1>1, <3>4 DEF TypeOK
    <3> QED BY <3>2, <3>3, <3>4
  <2>2. session' = [t \in Sessions |-> session'[t]] BY <1>1 DEF TypeOK
  <2>3. RevokeSessions({i}) BY <2>1, <2>2 DEF RevokeSessions
  <2> QED BY <1>1, <2>3 DEF EndSessions
<1>4. \A j \in Identities :
        /\ Unbound({i})[j].account = identity[j].account
        /\ Unbound({i})[j].generation = identity[j].generation
        /\ j = i => Unbound({i})[j].active = Nil
        /\ j # i => Unbound({i})[j] = identity[j]
  BY <1>1, <1>2, UnboundRows
<1>5. KeysHold' BY <1>1, <1>4, KeysKept
<1>6. SessionsHold' /\ BindingsHold' /\ AppearancesHold'
  BY <1>1, <1>2, <1>3, <1>4, EndingKeeps DEF Enabled
<1> QED BY <1>5, <1>6 DEF TablesHold

LEMMA PlayersKeep == Consistent /\ Players => TablesHold'
BY ActivateKeeps, PublishKeeps, WithdrawKeeps DEF Players

LEMMA ExpiryKeeps ==
  ASSUME Consistent, NEW s \in Sessions, Expire(s) PROVE TablesHold'
<1> USE DEF Consistent
<1>1. \A t \in Sessions :
        /\ session'[t].identity = session[t].identity
        /\ session'[t].key = session[t].key
        /\ session'[t].binding = session[t].binding
        /\ session'[t].revoked = session[t].revoked
        /\ session'[t] # NoSession <=> Begun(t)
  BY DEF Expire, TypeOK, SessionRows, Begun, NoSession
<1>2. UNCHANGED <<mode, grant, identity, key, appearance>>
  BY DEF Expire, policyVars
<1>3. KeysHold' BY <1>2 DEF KeysHold, Used
<1>4. SessionsHold'
  BY <1>1, <1>2
     DEF SessionsHold, Begun, Used, Bound, KeyCurrent, SessionOwner, Enabled
<1>5. BindingsHold' BY <1>1, <1>2 DEF BindingsHold, Begun, TypeOK, IdentityRows
<1>6. AppearancesHold' BY <1>2 DEF AppearancesHold
<1> QED BY <1>3, <1>4, <1>5, <1>6 DEF TablesHold

LEMMA ConsistentStep == Consistent /\ [Next]_vars => Consistent'
<1> SUFFICES ASSUME Consistent, [Next]_vars PROVE TypeOK' /\ TablesHold'
  BY DEF Consistent, TablesHold
<1>1. CASE Devices BY <1>1, DeviceTypes, DevicesKeep DEF Consistent
<1>2. CASE KeyChanges BY <1>2, KeyChangeTypes, KeyChangesKeep DEF Consistent
<1>3. CASE Players BY <1>3, PlayerTypes, PlayersKeep DEF Consistent
<1>4. CASE Administration
  BY <1>4, AdministrationTypes, AdministrationKeeps DEF Consistent
<1>5. ASSUME NEW s \in Sessions, Expire(s) PROVE TypeOK' /\ TablesHold'
  BY <1>5, ExpiryTypes, ExpiryKeeps DEF Consistent
<1>6. ASSUME NEW e \in Entities, Query(e) PROVE TypeOK' /\ TablesHold'
  <2>1. TypeOK' BY <1>6, QueryTypes DEF Consistent
  <2>2. TablesHold' BY <1>6, TablesKept DEF Query, policyVars, Enabled
  <2> QED BY <2>1, <2>2
<1>7. CASE UNCHANGED vars
  <2>1. TypeOK' BY <1>7 DEF vars, TypeOK, Consistent
  <2>2. TablesHold' BY <1>7, TablesKept DEF vars, tables, Enabled
  <2> QED BY <2>1, <2>2
<1> QED BY <1>1, <1>2, <1>3, <1>4, <1>5, <1>6, <1>7 DEF Next

LEMMA ConsistentInit == Init => Consistent
<1> SUFFICES ASSUME Init PROVE Consistent OBVIOUS
<1>1. TypeOK BY EmptyRows DEF Init, TypeOK, Grants
<1>2. /\ \A k \in Keys : ~Used(k)
      /\ \A s \in Sessions : ~Begun(s)
      /\ \A i \in Identities : identity[i].active = Nil
                                /\ appearance[i] = NoAppearance
  BY DEF Init, Used, Begun, NoIdentity
<1> QED BY <1>1, <1>2
        DEF Consistent, KeysHold, SessionsHold, BindingsHold, AppearancesHold

(* The tables agree in every state, whatever requests, decisions and         *)
(* restarts come in which order (offline_identity.rs:269, 638).              *)
THEOREM ConsistentAlways == Spec => []Consistent
BY ConsistentInit, ConsistentStep, PTL DEF Spec

----------------------------------------------------------------------------
(* Nothing un-revokes a session or gives it time back once it is over.       *)
LEMMA SessionsLast ==
  ASSUME Consistent, [Next]_vars, NEW s \in Sessions, Begun(s)
  PROVE  /\ Begun(s)'
         /\ session[s].revoked => session'[s].revoked
         /\ session[s].expired => session'[s].expired
<1> USE DEF Consistent
<1>1. session[s] \in SessionRows /\ session[s].identity # Nil
  BY DEF TypeOK, SessionsHold
<1>2. ASSUME \/ session'[s] = session[s]
             \/ session'[s] = [session[s] EXCEPT !.revoked = TRUE]
             \/ session'[s] = [session[s] EXCEPT !.expired = TRUE]
      PROVE  /\ Begun(s)'
             /\ session[s].revoked => session'[s].revoked
             /\ session[s].expired => session'[s].expired
  BY <1>1, <1>2 DEF Begun, SessionRows, NoSession
<1>3. ASSUME NEW I, EndSessions(I)
      PROVE  \/ session'[s] = session[s]
             \/ session'[s] = [session[s] EXCEPT !.revoked = TRUE]
  BY <1>3 DEF EndSessions, RevokeSessions
<1>4. CASE Devices
  BY <1>2, <1>4
     DEF Devices, RequestEnrolment, RequestIssue, Request, Enroll, Issue, Finish,
         tables
<1>5. CASE KeyChanges
  BY <1>2, <1>3, <1>5 DEF KeyChanges, Rotate, RevokeKey
<1>6. CASE Players
  <2>1. ASSUME NEW a \in Accounts, NEW k \in Keys, NEW e \in Entities,
               NEW t \in Sessions, NEW n \in Revisions, Activate(a, k, e, t, n)
        PROVE  \/ session'[s] = session[s]
               \/ session'[s] = [session[s] EXCEPT !.revoked = TRUE]
    <3>1. t # s BY <2>1 DEF Activate, Begun
    <3> QED BY <2>1, <3>1 DEF Activate
  <2>2. ASSUME NEW a \in Accounts, NEW t \in Sessions, Withdraw(a, t)
        PROVE  \/ session'[s] = session[s]
               \/ session'[s] = [session[s] EXCEPT !.revoked = TRUE]
    BY <2>2 DEF Withdraw, TypeOK
  <2> QED BY <1>2, <1>6, <2>1, <2>2, ZenonT(60)
       DEF Players, Publish
<1>7. CASE Administration
  BY <1>2, <1>3, <1>7
     DEF Administration, Decide, SetDisabled, SetStanding, Configure, Restart,
         tables
<1>8. ASSUME NEW t \in Sessions, Expire(t)
      PROVE  \/ session'[s] = session[s]
             \/ session'[s] = [session[s] EXCEPT !.expired = TRUE]
  BY <1>8 DEF Expire, TypeOK
<1>9. ASSUME NEW e \in Entities, Query(e) PROVE session'[s] = session[s]
  BY <1>9 DEF Query, tables
<1>10. CASE UNCHANGED vars BY <1>2, <1>10 DEF vars
<1> QED BY <1>2, <1>4, <1>5, <1>6, <1>7, <1>8, <1>9, <1>10 DEF Next

(* "disabled/restarted/restored sessions cannot revive"                      *)
(* (offline_identity.rs:637): what is refused is revoked or over.            *)
THEOREM SessionsNeverReviveAlways == Spec => SessionsNeverRevive
<1>1. Consistent /\ [Next]_vars
        => [\A s \in Sessions : Refused(s) => Refused(s)']_vars
  <2> SUFFICES ASSUME Consistent, [Next]_vars, NEW s \in Sessions, Refused(s)
               PROVE  Refused(s)'
    OBVIOUS
  <2>1. session[s].revoked \/ session[s].expired
    BY DEF Consistent, Refused, SessionsHold, Alive
  <2>2. Begun(s)' /\ (session'[s].revoked \/ session'[s].expired)
    BY <2>1, SessionsLast DEF Refused
  <2> QED BY <2>2 DEF Refused, Alive
<1> QED BY <1>1, ConsistentAlways, PTL DEF Spec, SessionsNeverRevive

(* An account is what an administrator last decided.                         *)
DecidedHolds ==
  \A a \in Accounts : decided[a] # "NONE" => grant[a] = decided[a]

LEMMA DecidedStep ==
  ASSUME TypeOK, DecidedHolds, [Next]_vars, NEW a \in Accounts
  PROVE  /\ decided'[a] # "NONE" => grant'[a] = decided'[a]
         /\ grant'[a] # grant[a] =>
              \/ decided'[a] = grant'[a]
              \/ decided[a] = "NONE"
                   /\ (grant'[a] = "APPROVED" => mode = "automatic")
<1>1. decided[a] # "NONE" => grant[a] = decided[a] BY DEF DecidedHolds
<1>2. ASSUME NEW r \in Requests, NEW kind, NEW b \in Accounts, NEW k,
             Request(r, kind, b, k)
      PROVE  /\ decided'[a] = decided[a]
             /\ \/ grant'[a] = grant[a]
                \/ /\ grant[a] \in {"NONE", "PENDING"}
                   /\ grant'[a] = "APPROVED" => mode = "automatic"
  <2>1. /\ decided'[a] = decided[a]
        /\ a # b => grant'[a] = grant[a]
        /\ grant'[b] = Requested(grant[b])
    BY <1>2 DEF Request, TypeOK
  <2>2. \/ Requested(grant[b]) = grant[b]
        \/ grant[b] \in {"NONE", "PENDING"}
             /\ (Requested(grant[b]) = "APPROVED" => mode = "automatic")
    BY DEF Requested
  <2> QED BY <2>1, <2>2
<1>3. decided[a] \in {"NONE", "APPROVED", "REVOKED"} BY DEF TypeOK
<1>4. CASE Devices
  <2>1. CASE UNCHANGED <<grant, decided>> BY <1>1, <2>1
  <2>2. ASSUME NEW r \in Requests, NEW kind, NEW b \in Accounts, NEW k,
               Request(r, kind, b, k)
        PROVE  /\ decided'[a] # "NONE" => grant'[a] = decided'[a]
               /\ grant'[a] # grant[a] =>
                    \/ decided'[a] = grant'[a]
                    \/ decided[a] = "NONE"
                         /\ (grant'[a] = "APPROVED" => mode = "automatic")
    BY <1>1, <1>2, <1>3, <2>2
  <2>3. ASSUME NEW r \in Requests, NEW i \in Identities, NEW k \in Keys,
               Enroll(r, i) \/ Issue(r, i, k) \/ Finish(r)
        PROVE  UNCHANGED <<grant, decided>>
    BY <2>3 DEF Enroll, Issue, Finish, policyVars
  <2> QED BY <1>4, <2>1, <2>2, <2>3 DEF Devices, RequestEnrolment, RequestIssue
<1>5. CASE KeyChanges BY <1>1, <1>5 DEF KeyChanges, Rotate, RevokeKey, policyVars
<1>6. CASE Players
  <2>1. ASSUME NEW b \in Accounts, NEW s \in Sessions, NEW n, NEW k, NEW e,
               Activate(b, k, e, s, n)
        PROVE  UNCHANGED <<grant, decided>>
    BY <2>1 DEF Activate, policyVars
  <2>2. ASSUME NEW b \in Accounts, NEW s \in Sessions, NEW n, NEW x, NEW m,
               Publish(b, s, x, n, m)
        PROVE  UNCHANGED <<grant, decided>>
    BY <2>2 DEF Publish, policyVars
  <2>3. ASSUME NEW b \in Accounts, NEW s \in Sessions, Withdraw(b, s)
        PROVE  UNCHANGED <<grant, decided>>
    BY <2>3 DEF Withdraw, policyVars
  <2>4. UNCHANGED <<grant, decided>> BY <1>6, <2>1, <2>2, <2>3 DEF Players
  <2> QED BY <1>1, <2>4
<1>7. CASE Administration
  <2>1. ASSUME NEW b \in Accounts, NEW status \in {"APPROVED", "REVOKED"},
               Decide(b, status)
        PROVE  /\ a = b => grant'[a] = status /\ decided'[a] = status
               /\ a # b => grant'[a] = grant[a] /\ decided'[a] = decided[a]
    BY <2>1 DEF Decide, TypeOK
  <2>2. ASSUME NEW b \in Accounts, NEW value \in BOOLEAN, SetDisabled(b, value)
        PROVE  UNCHANGED <<grant, decided>>
    BY <2>2 DEF SetDisabled
  <2>3. ASSUME NEW m \in Modes, Configure(m) \/ Restart(m)
        PROVE  UNCHANGED <<grant, decided>>
    BY <2>3 DEF Configure, Restart
  <2>4. ASSUME NEW m, NEW v, SetStanding(m, v) PROVE UNCHANGED <<grant, decided>>
    BY <2>4 DEF SetStanding
  <2> QED BY <1>1, <1>7, <2>1, <2>2, <2>3, <2>4 DEF Administration
<1>8. ASSUME NEW s \in Sessions, Expire(s) PROVE UNCHANGED <<grant, decided>>
  BY <1>8 DEF Expire, policyVars
<1>9. ASSUME NEW e \in Entities, Query(e) PROVE UNCHANGED <<grant, decided>>
  BY <1>9 DEF Query, policyVars
<1>10. CASE UNCHANGED vars BY <1>1, <1>10 DEF vars
<1> QED BY <1>1, <1>4, <1>5, <1>6, <1>7, <1>8, <1>9, <1>10 DEF Next

(* "manual approval cannot be bypassed": what an administrator decided only  *)
(* an administrator changes (offline_authorization.rs:67).                   *)
THEOREM DecisionsStandAlways == Spec => DecisionsStand
<1>1. Init => DecidedHolds BY DEF Init, DecidedHolds
<1>2. TypeOK /\ DecidedHolds /\ [Next]_vars => DecidedHolds'
  BY DecidedStep DEF DecidedHolds
<1>3. TypeOK /\ DecidedHolds /\ [Next]_vars =>
        [\A a \in Accounts : grant'[a] # grant[a] =>
           \/ decided'[a] = grant'[a]
           \/ decided[a] = "NONE"
                /\ (grant'[a] = "APPROVED" => mode = "automatic")]_vars
  BY DecidedStep
<1>4. Consistent => TypeOK BY DEF Consistent
<1> QED BY <1>1, <1>2, <1>3, <1>4, ConsistentAlways, PTL DEF Spec, DecisionsStand

(* Keys and sessions are only given to accounts that are approved and active *)
(* when they are inserted (offline_authorization.rs:128,                     *)
(* offline_identity.rs:345, 382, 478).                                       *)
LEMMA NewKeys ==
  ASSUME TypeOK, [Next]_vars, NEW k \in Keys, key[k] = NoKey, key'[k] # NoKey
  PROVE  Permitted(identity'[key'[k].identity].account)
<1>1. ASSUME NEW i \in Identities, NEW a \in Accounts, NEW x \in Keys,
             AddIdentity(i, a, x), Permitted(a)
      PROVE  Permitted(identity'[key'[k].identity].account)
  <2>1. x = k BY <1>1 DEF AddIdentity, TypeOK
  <2>2. key'[k].identity = i BY <1>1, <2>1 DEF AddIdentity, TypeOK
  <2>3. identity'[i].account = a BY <1>1 DEF AddIdentity, TypeOK, NoIdentity
  <2> QED BY <1>1, <2>2, <2>3
<1>2. CASE Devices
  <2>1. ASSUME NEW r \in Requests, NEW i \in Identities, Enroll(r, i)
        PROVE  Permitted(identity'[key'[k].identity].account)
    <3>1. req[r].account \in Accounts /\ req[r].key \in Keys
      BY <2>1 DEF Enroll, TypeOK, Calls, Idle
    <3> QED BY <1>1, <2>1, <3>1 DEF Enroll
  <2>2. ASSUME NEW r \in Requests, NEW i \in Identities, NEW x \in Keys,
               Issue(r, i, x)
        PROVE  Permitted(identity'[key'[k].identity].account)
    <3>1. req[r].account \in Accounts
      BY <2>2 DEF Issue, TypeOK, Calls, Idle
    <3> QED BY <1>1, <2>2, <3>1 DEF Issue
  <2>3. ASSUME NEW r \in Requests, NEW a \in Accounts, NEW x \in Keys,
               RequestEnrolment(r, a, x) \/ RequestIssue(r, a) \/ Finish(r)
        PROVE  FALSE
    BY <2>3 DEF RequestEnrolment, RequestIssue, Request, Finish, tables
  <2> QED BY <1>2, <2>1, <2>2, <2>3 DEF Devices
<1>3. CASE KeyChanges
  <2>1. ASSUME NEW i \in Identities, RevokeKeys(i)[k] # NoKey PROVE FALSE
    BY <2>1, NilAssumption DEF RevokeKeys, NoKey
  <2>2. ASSUME NEW a \in Accounts, NEW i \in Identities, NEW x \in Keys,
               NEW n \in Revisions, Rotate(a, i, x, n)
        PROVE  Permitted(identity'[key'[k].identity].account)
    <3>1. key' = [RevokeKeys(i) EXCEPT ![x] =
             [identity |-> i, generation |-> n + 1, revoked |-> FALSE]]
      BY <2>2 DEF Rotate
    <3>2. x = k BY <2>1, <3>1 DEF RevokeKeys
    <3>3. key'[k].identity = i BY <3>1, <3>2 DEF RevokeKeys
    <3>4. identity'[i].account = identity[i].account
      <4>1. EndSessions({i}) BY <2>2 DEF Rotate
      <4>2. /\ Unbound({i}) \in [Identities -> IdentityRows]
            /\ Unbound({i})[i].account = identity[i].account
        BY <4>1, UnboundRows DEF EndSessions
      <4>3. identity' = [Unbound({i}) EXCEPT ![i].generation = @ + 1]
        BY <2>2 DEF Rotate
      <4> QED BY <4>2, <4>3 DEF IdentityRows
    <3> QED BY <2>2, <3>3, <3>4 DEF Rotate
  <2>3. ASSUME NEW a \in Accounts, NEW i \in Identities, RevokeKey(a, i)
        PROVE  FALSE
    BY <2>1, <2>3 DEF RevokeKey
  <2> QED BY <1>3, <2>2, <2>3 DEF KeyChanges
<1>4. CASE Players
  <2>1. ASSUME NEW a \in Accounts, NEW s \in Sessions, NEW n, NEW x, NEW e,
               Activate(a, x, e, s, n)
        PROVE  FALSE
    BY <2>1 DEF Activate
  <2>2. ASSUME NEW a \in Accounts, NEW s \in Sessions, NEW n, NEW x, NEW m,
               Publish(a, s, x, n, m)
        PROVE  FALSE
    BY <2>2 DEF Publish
  <2>3. ASSUME NEW a \in Accounts, NEW s \in Sessions, Withdraw(a, s)
        PROVE  FALSE
    BY <2>3 DEF Withdraw
  <2> QED BY <1>4, <2>1, <2>2, <2>3 DEF Players
<1>5. CASE Administration
  BY <1>5 DEF Administration, Decide, SetDisabled, SetStanding, Configure, Restart,
         tables
<1>6. ASSUME NEW s \in Sessions, Expire(s) PROVE FALSE BY <1>6 DEF Expire
<1>7. ASSUME NEW e \in Entities, Query(e) PROVE FALSE BY <1>7 DEF Query, tables
<1>8. CASE UNCHANGED vars BY <1>8 DEF vars
<1> QED BY <1>2, <1>3, <1>4, <1>5, <1>6, <1>7, <1>8 DEF Next

LEMMA NewSessions ==
  ASSUME TypeOK, [Next]_vars,
         NEW s \in Sessions, session[s] = NoSession, session'[s] # NoSession
  PROVE  Permitted(identity'[session'[s].identity].account)
<1>1. ASSUME NEW I \in SUBSET Identities, RevokeSessions(I) PROVE FALSE
  BY <1>1, NilAssumption DEF RevokeSessions, NoSession
<1>2. CASE Devices
  BY <1>2 DEF Devices, RequestEnrolment, RequestIssue, Request, Enroll, Issue,
              Finish, tables
<1>3. CASE KeyChanges
  <2>1. \A i \in Identities : ~EndSessions({i}) BY <1>1 DEF EndSessions
  <2> QED BY <1>3, <2>1 DEF KeyChanges, Rotate, RevokeKey
<1>4. CASE Players
  <2>1. ASSUME NEW a \in Accounts, NEW t \in Sessions, NEW n \in Revisions,
               NEW k \in Keys, NEW e \in Entities, Activate(a, k, e, t, n)
        PROVE  Permitted(identity'[session'[s].identity].account)
    <3> DEFINE i == key[k].identity
    <3>1. i \in Identities /\ identity[i].account = a /\ Permitted(a)
      BY <2>1 DEF Activate, TypeOK, KeyRows
    <3>2. s = t BY <2>1, <3>1, NilAssumption DEF Activate, NoSession
    <3>3. session'[s].identity = i BY <2>1, <3>2 DEF Activate, NoSession
    <3>4. identity'[i].account = identity[i].account
      BY <2>1, <3>1 DEF Activate, TypeOK, IdentityRows
    <3> QED BY <3>1, <3>3, <3>4
  <2>2. ASSUME NEW a \in Accounts, NEW t \in Sessions, NEW n, NEW x, NEW m,
               Publish(a, t, x, n, m)
        PROVE  FALSE
    BY <2>2 DEF Publish
  <2>3. ASSUME NEW a \in Accounts, NEW t \in Sessions, Withdraw(a, t)
        PROVE  FALSE
    BY <2>3 DEF Withdraw, Authorized, TypeOK
  <2> QED BY <1>4, <2>1, <2>2, <2>3 DEF Players
<1>5. CASE Administration
  <2>1. \A a \in Accounts : IdentitiesOf(a) \in SUBSET Identities
    BY DEF IdentitiesOf
  <2> QED BY <1>1, <1>5, <2>1
          DEF Administration, Decide, SetDisabled, SetStanding, Configure, Restart,
              EndSessions, tables
<1>6. ASSUME NEW t \in Sessions, Expire(t) PROVE FALSE
  BY <1>6 DEF Expire, TypeOK
<1>7. ASSUME NEW e \in Entities, Query(e) PROVE FALSE BY <1>7 DEF Query, tables
<1>8. CASE UNCHANGED vars BY <1>8 DEF vars
<1> QED BY <1>2, <1>3, <1>4, <1>5, <1>6, <1>7, <1>8 DEF Next

(* Also an account whose approval was withdrawn between the two transactions *)
(* of a request gets no key.                                                 *)
THEOREM IssuedOnlyToApprovedAlways == Spec => IssuedOnlyToApproved
<1>1. TypeOK /\ [Next]_vars =>
        [/\ \A k \in Keys : key[k] = NoKey /\ key'[k] # NoKey =>
              Permitted(identity'[key'[k].identity].account)
         /\ \A s \in Sessions : session[s] = NoSession /\ session'[s] # NoSession =>
              Permitted(identity'[session'[s].identity].account)]_vars
  BY NewKeys, NewSessions
<1>2. Consistent => TypeOK BY DEF Consistent
<1> QED BY <1>1, <1>2, ConsistentAlways, PTL DEF Spec, IssuedOnlyToApproved

----------------------------------------------------------------------------
(* What is published of an identity.                                         *)
ModelOf(i) == IF appearance[i] = NoAppearance THEN Nil ELSE appearance[i].model

(* An answer is of a revision no later than the identity's, and as long as   *)
(* that revision stands what was published then is what is published now.    *)
AnswersHold ==
  \A e \in Entities : answer[e].status = "ACTIVE" =>
    LET i == answer[e].identity IN
    /\ i # Nil /\ identity[i].account # Nil
    /\ answer[e].revision <= identity[i].revision
    /\ answer[e].revision = identity[i].revision => answer[e].published = ModelOf(i)
    /\ answer[e].model \in {Nil, answer[e].published}

(* A step that changes what is told of an identity raises its revision.      *)
Told(i) ==
  /\ identity'[i].account = identity[i].account
  /\ \/ identity'[i].revision = identity[i].revision /\ appearance'[i] = appearance[i]
     \/ identity'[i].revision = identity[i].revision + 1

LEMMA EndingTells ==
  ASSUME Consistent, NEW I \in SUBSET Identities, EndSessions(I),
         NEW i \in Identities
  PROVE  /\ Unbound(I)[i].account = identity[i].account
         /\ \/ Unbound(I)[i].revision = identity[i].revision
                 /\ appearance'[i] = appearance[i]
            \/ Unbound(I)[i].revision = identity[i].revision + 1
<1>1. identity[i] \in IdentityRows BY DEF Consistent, TypeOK
<1>2. appearance'[i] = IF i \in I THEN NoAppearance ELSE appearance[i]
  BY DEF EndSessions, DropAppearances
<1>3. CASE i \in I /\ identity[i].active # Nil
  BY <1>1, <1>3 DEF Unbound, IdentityRows
<1>4. CASE ~(i \in I /\ identity[i].active # Nil)
  <2>1. Unbound(I)[i] = identity[i] BY <1>4 DEF Unbound
  <2>2. identity[i].active = Nil => appearance[i] = NoAppearance
    BY DEF Consistent, AppearancesHold
  <2> QED BY <1>2, <1>4, <2>1, <2>2
<1> QED BY <1>3, <1>4

LEMMA StepTells ==
  ASSUME Consistent, [Next]_vars, NEW i \in Identities, identity[i].account # Nil
  PROVE  Told(i)
<1> USE DEF Consistent
<1>1. ASSUME NEW j \in Identities, NEW a, NEW k, AddIdentity(j, a, k),
             appearance' = appearance
      PROVE  Told(i)
  <2>1. i # j BY <1>1 DEF AddIdentity, NoIdentity
  <2> QED BY <1>1, <2>1 DEF AddIdentity, TypeOK, Told
<1>2. ASSUME NEW I \in SUBSET Identities, EndSessions(I), identity' = Unbound(I)
      PROVE  Told(i)
  BY <1>2, EndingTells DEF Told
<1>3. ASSUME UNCHANGED <<identity, appearance>> PROVE Told(i) BY <1>3 DEF Told
<1>4. CASE Devices
  BY <1>1, <1>3, <1>4
     DEF Devices, RequestEnrolment, RequestIssue, Request, Enroll, Issue, Finish,
         tables
<1>5. CASE KeyChanges
  <2>1. ASSUME NEW a \in Accounts, NEW j \in Identities, NEW k \in Keys,
               NEW n \in Revisions, Rotate(a, j, k, n)
        PROVE  Told(i)
    <3>1. EndSessions({j}) /\ identity' = [Unbound({j}) EXCEPT ![j].generation = @ + 1]
      BY <2>1 DEF Rotate
    <3>2. Unbound({j}) \in [Identities -> IdentityRows]
      BY <3>1, UnboundRows DEF EndSessions
    <3>3. /\ identity'[i].account = Unbound({j})[i].account
          /\ identity'[i].revision = Unbound({j})[i].revision
      BY <3>1, <3>2 DEF IdentityRows
    <3> QED BY <3>1, <3>3, EndingTells DEF Told
  <2>2. ASSUME NEW a \in Accounts, NEW j \in Identities, RevokeKey(a, j)
        PROVE  Told(i)
    BY <1>2, <2>2 DEF RevokeKey
  <2> QED BY <1>5, <2>1, <2>2 DEF KeyChanges
<1>6. CASE Players
  <2>1. ASSUME NEW a \in Accounts, NEW s \in Sessions, NEW n \in Revisions,
               NEW k \in Keys, NEW e \in Entities, Activate(a, k, e, s, n)
        PROVE  Told(i)
    <3> DEFINE j == key[k].identity
    <3>1. j \in Identities BY <2>1 DEF Activate, TypeOK, KeyRows
    <3>2. /\ identity' = [identity EXCEPT ![j].binding = @ + 1, ![j].revision = @ + 1,
                                          ![j].active = s]
          /\ DropAppearances({j})
      BY <2>1 DEF Activate
    <3>3. /\ identity'[i].account = identity[i].account
          /\ identity'[i].revision = IF i = j THEN identity[i].revision + 1
                                             ELSE identity[i].revision
      BY <3>1, <3>2 DEF TypeOK, IdentityRows
    <3> QED BY <3>2, <3>3 DEF DropAppearances, Told
  <2>2. ASSUME NEW a \in Accounts, NEW s \in Sessions, NEW n \in Revisions,
               NEW b \in Revisions, NEW m \in Models \cup {Nil},
               Publish(a, s, b, n, m)
        PROVE  Told(i)
    <3> DEFINE j == session[s].identity
    <3>1. /\ identity' = [identity EXCEPT ![j].revision = @ + 1]
          /\ i # j => appearance'[i] = appearance[i]
      BY <2>2 DEF Publish, TypeOK
    <3>2. /\ identity'[i].account = identity[i].account
          /\ identity'[i].revision = IF i = j THEN identity[i].revision + 1
                                             ELSE identity[i].revision
      BY <3>1 DEF TypeOK, IdentityRows
    <3> QED BY <3>1, <3>2 DEF Told
  <2>3. ASSUME NEW a \in Accounts, NEW s \in Sessions, Withdraw(a, s)
        PROVE  Told(i)
    <3> DEFINE j == session[s].identity
    <3>1. /\ identity[j].active = s /\ identity' = Unbound({j})
          /\ DropAppearances({j})
      BY <2>3 DEF Withdraw, Authorized, Alive, Bound
    <3>2. identity[i] \in IdentityRows BY DEF TypeOK
    <3>3. CASE i = j BY <3>1, <3>2, <3>3, NilAssumption
                     DEF Unbound, IdentityRows, Told
    <3>4. CASE i # j BY <3>1, <3>4 DEF Unbound, DropAppearances, Told
    <3> QED BY <3>3, <3>4
  <2> QED BY <1>6, <2>1, <2>2, <2>3 DEF Players
<1>7. CASE Administration
  <2>1. \A a \in Accounts : IdentitiesOf(a) \in SUBSET Identities
    BY DEF IdentitiesOf
  <2> QED BY <1>2, <1>3, <1>7, <2>1
          DEF Administration, Decide, SetDisabled, SetStanding, Configure, Restart,
         tables
<1>8. ASSUME NEW s \in Sessions, Expire(s) PROVE Told(i)
  BY <1>3, <1>8 DEF Expire
<1>9. ASSUME NEW e \in Entities, Query(e) PROVE Told(i)
  BY <1>3, <1>9 DEF Query, tables
<1>10. CASE UNCHANGED vars BY <1>3, <1>10 DEF vars
<1> QED BY <1>4, <1>5, <1>6, <1>7, <1>8, <1>9, <1>10 DEF Next

(* What an observer is told now is told of an identity that is bound, with   *)
(* its revision and what it published.                                       *)
LEMMA AnswerRow ==
  ASSUME Consistent, NEW e \in Entities, Answer(e).status = "ACTIVE"
  PROVE  LET i == Answer(e).identity IN
         /\ i \in Identities /\ identity[i].account # Nil
         /\ Answer(e) = [status |-> "ACTIVE", identity |-> i,
                         binding |-> identity[i].binding,
                         revision |-> identity[i].revision,
                         model |-> Visible(ModelOf(i)), published |-> ModelOf(i)]
<1> USE DEF Consistent
<1>1. Enabled /\ \E s \in Sessions : Claims(e) = {s}
  BY DEF Answer, Unclaimed, Ambiguous
<1> DEFINE c == CHOOSE s \in Sessions : Claims(e) = {s}
           i == session[c].identity
<1>2. c \in Sessions /\ c \in Claims(e) /\ Answer(e) = Entry(c)
  BY <1>1 DEF Answer
<1> HIDE DEF c
<1>3. /\ Begun(c) /\ identity[i].active = c
      /\ identity[i].binding = session[c].binding
  BY <1>2 DEF Claims, Begun, Alive, Bound
<1>4. i \in Identities /\ identity[i].account # Nil
  BY <1>2, <1>3 DEF SessionsHold, KeysHold, TypeOK, SessionRows
<1>5. CASE appearance[i] = NoAppearance
  <2>1. appearance[i].session # c BY <1>2, <1>5, NilAssumption DEF NoAppearance
  <2> QED BY <1>2, <1>4, <1>5, <2>1 DEF Entry, Published, ModelOf
<1>6. CASE appearance[i] # NoAppearance
  <2>1. appearance[i].session = c /\ appearance[i].binding = session[c].binding
    BY <1>3, <1>4, <1>6 DEF AppearancesHold
  <2> QED BY <1>2, <1>4, <1>6, <2>1 DEF Entry, Published, ModelOf
<1> QED BY <1>5, <1>6

LEMMA AnswersStep == Consistent /\ AnswersHold /\ [Next]_vars => AnswersHold'
<1> SUFFICES ASSUME Consistent, AnswersHold, [Next]_vars,
                    NEW e \in Entities, answer'[e].status = "ACTIVE"
             PROVE  LET i == answer'[e].identity IN
                    /\ i # Nil /\ identity'[i].account # Nil
                    /\ answer'[e].revision <= identity'[i].revision
                    /\ answer'[e].revision = identity'[i].revision
                         => answer'[e].published =
                              IF appearance'[i] = NoAppearance
                                THEN Nil ELSE appearance'[i].model
                    /\ answer'[e].model \in {Nil, answer'[e].published}
  BY DEF AnswersHold, ModelOf
<1> USE DEF Consistent
<1>1. CASE answer'[e] = answer[e]
  <2> DEFINE i == answer[e].identity
  <2>1. /\ i # Nil /\ identity[i].account # Nil
        /\ answer[e].revision <= identity[i].revision
        /\ answer[e].revision = identity[i].revision =>
             answer[e].published = ModelOf(i)
        /\ answer[e].model \in {Nil, answer[e].published}
    BY <1>1 DEF AnswersHold
  <2>2. i \in Identities /\ answer[e].revision \in Int
    BY <2>1 DEF TypeOK, Answers, Revisions
  <2>3. identity[i].revision \in Int BY <2>2 DEF TypeOK, IdentityRows, Revisions
  <2>4. Told(i) BY <2>1, <2>2, StepTells
  <2> QED BY <1>1, <2>1, <2>2, <2>3, <2>4 DEF Told, ModelOf
<1>2. CASE \E x \in Entities : Query(x)
  <2>1. CASE answer'[e] = answer[e] BY <1>1, <2>1
  <2>2. CASE answer'[e] # answer[e]
    <3>1. answer'[e] = Answer(e) /\ UNCHANGED tables
      BY <1>2, <2>2 DEF Query, TypeOK
    <3> DEFINE i == Answer(e).identity
    <3>2. /\ i \in Identities /\ identity[i].account # Nil
          /\ Answer(e).revision = identity[i].revision
          /\ Answer(e).published = ModelOf(i)
          /\ Answer(e).model \in {Nil, ModelOf(i)}
      BY <3>1, AnswerRow DEF Visible
    <3>3. identity[i].revision \in Int
      BY <3>2 DEF TypeOK, IdentityRows, Revisions
    <3> QED BY <3>1, <3>2, <3>3, NilAssumption DEF tables, ModelOf
  <2> QED BY <2>1, <2>2
<1>3. CASE ~\E x \in Entities : Query(x)
  <2>1. CASE Devices
    BY <2>1 , <1>1
       DEF Devices, RequestEnrolment, RequestIssue, Request, Enroll, Issue, Finish
  <2>2. CASE KeyChanges BY <2>2, <1>1 DEF KeyChanges, Rotate, RevokeKey
  <2>3. CASE Players
    <3>1. ASSUME NEW a, NEW s, NEW n, NEW k, NEW x, Activate(a, k, x, s, n)
          PROVE  answer' = answer
      BY <3>1 DEF Activate
    <3>2. ASSUME NEW a, NEW s, NEW n, NEW x, NEW m, Publish(a, s, x, n, m)
          PROVE  answer' = answer
      BY <3>2 DEF Publish
    <3>3. ASSUME NEW a, NEW s, Withdraw(a, s) PROVE answer' = answer
      BY <3>3 DEF Withdraw
    <3>4. answer' = answer BY <2>3, <3>1, <3>2, <3>3 DEF Players
    <3> QED BY <1>1, <3>4
  <2>4. CASE Administration
    BY <2>4, <1>1 DEF Administration, Decide, SetDisabled, SetStanding, Configure,
                        Restart
  <2>5. CASE \E s \in Sessions : Expire(s) BY <2>5, <1>1 DEF Expire
  <2>6. CASE UNCHANGED vars BY <2>6, <1>1 DEF vars
  <2> QED BY <1>3, <2>1, <2>2, <2>3, <2>4, <2>5, <2>6 DEF Next
<1> QED BY <1>2, <1>3

(* A publisher id and a revision stand for one publication, whoever          *)
(* activates, rotates, revokes or withdraws in between, and an observer is   *)
(* told of that one or of none (offline_player.rs:330, 281).                 *)
THEOREM NoMissedChangeAlways == Spec => []NoMissedChange
<1>1. Init => AnswersHold BY DEF Init, AnswersHold, Unclaimed
<1>2. Consistent /\ AnswersHold => NoMissedChange
  <2> SUFFICES ASSUME Consistent, AnswersHold, NEW e \in Entities,
                      Answer(e).status = "ACTIVE", answer[e].status = "ACTIVE",
                      Answer(e).identity = answer[e].identity,
                      Answer(e).revision = answer[e].revision
               PROVE  /\ Answer(e).published = answer[e].published
                      /\ {Answer(e).model, answer[e].model}
                           \subseteq {Nil, Answer(e).published}
    BY DEF NoMissedChange
  <2>1. /\ Answer(e).published = ModelOf(answer[e].identity)
        /\ Answer(e).model \in {Nil, Answer(e).published}
        /\ Answer(e).revision = identity[answer[e].identity].revision
    BY AnswerRow DEF Visible
  <2>2. /\ answer[e].published = Answer(e).published
        /\ answer[e].model \in {Nil, answer[e].published}
    BY <2>1 DEF AnswersHold
  <2> QED BY <2>1, <2>2
<1> QED BY <1>1, <1>2, AnswersStep, ConsistentAlways, PTL DEF Spec

----------------------------------------------------------------------------
(* The tables amount to Presence.                                            *)
LEMMA BearersHold ==
  ASSUME Consistent, NEW i \in Identities, Bearers[i] # Nil
  PROVE  /\ Bearers[i] = identity[i].active /\ Bearers[i] \in Sessions
         /\ Begun(Bearers[i]) /\ session[Bearers[i]].identity = i
         /\ ~session[Bearers[i]].revoked /\ ~session[Bearers[i]].expired
         /\ Owners[i] \in Trusted /\ Owners[i] \in Accounts
<1> USE DEF Consistent
<1> DEFINE s == identity[i].active
<1>1. s # Nil /\ ~session[s].expired /\ Bearers[i] = s
  BY DEF Bearers, Bearer
<1>2. s \in Sessions
  BY <1>1 DEF TypeOK, IdentityRows
<1> HIDE DEF s
<1>3. Begun(s) /\ session[s].identity = i /\ ~session[s].revoked
  BY <1>1 DEF BindingsHold, s
<1>4. Enabled /\ grant[identity[i].account] = "APPROVED"
  BY <1>2, <1>3 DEF SessionsHold, SessionOwner
<1>5. identity[i].account \in Accounts
  BY <1>2, <1>3 DEF SessionsHold, KeysHold, TypeOK, IdentityRows, SessionRows
<1> QED
  BY <1>1, <1>2, <1>3, <1>4, <1>5 DEF Trusted, Owners, s

(* The rows that change nothing of what is shown and told.                   *)
Kept(i) ==
  /\ identity'[i].account = identity[i].account
  /\ Bearer(i)' = Bearer(i)
  /\ Bearer(i) # Nil =>
       /\ session'[Bearer(i)].entity = session[Bearer(i)].entity
       /\ appearance'[i].model = appearance[i].model

LEMMA KeptRows ==
  ASSUME \A i \in Identities : Kept(i)
  PROVE  UNCHANGED <<Owners, Bearers, Places, Shows>>
BY DEF Kept, Owners, Bearers, Places, Shows

LEMMA SameRows ==
  ASSUME UNCHANGED <<identity, session, appearance>>
  PROVE  /\ \A i \in Identities : Kept(i)
         /\ {s \in Sessions : Begun(s)}' = {s \in Sessions : Begun(s)}
BY DEF Kept, Bearer, Begun

(* The sessions of some identities end, and trust may change with them.      *)
Ended(i) ==
  /\ identity'[i].account = identity[i].account
  /\ Bearer(i)' = Nil

LEMMA EndingMaps ==
  ASSUME NEW I \in SUBSET Identities,
         \A i \in I : Ended(i),
         \A i \in Identities \ I : Kept(i),
         \A s \in Sessions : Begun(s)' <=> Begun(s),
         UNCHANGED <<disabled, standing, answer>>,
         \A i \in Identities : Bearers[i] # Nil /\ Owners[i] \notin Trusted' => i \in I
  PROVE  Present!Next
<1>1. Owners' = Owners
  BY DEF Owners, Ended, Kept
<1>2. \A i \in Identities : Bearer(i)' = IF i \in I THEN Nil ELSE Bearer(i)
  BY DEF Ended, Kept
<1>3. Bearers' = [i \in Identities |-> IF i \in I THEN Nil ELSE Bearers[i]]
  BY <1>2 DEF Bearers
<1>4. Places' = [i \in Identities |-> IF i \in I THEN Nil ELSE Places[i]]
  BY <1>2 DEF Places, Kept
<1>5. Shows' = [i \in Identities |-> IF i \in I THEN Nil ELSE Shows[i]]
  BY <1>2 DEF Shows, Kept
<1>6. {s \in Sessions : Begun(s)}' = {s \in Sessions : Begun(s)}
  OBVIOUS
<1>7. Heard' = Heard /\ Hidden' = Hidden
  BY DEF Heard, Hidden
<1>8. Trusted' \in SUBSET Accounts
  BY DEF Trusted
<1>9. Present!Trust(Trusted', I)
  BY <1>1, <1>3, <1>4, <1>5, <1>6, <1>7 DEF Present!Trust, Present!Without
<1> QED
  BY <1>8, <1>9 DEF Present!Next

LEMMA EndSessionsMaps ==
  ASSUME Consistent, NEW I \in SUBSET Identities, EndSessions(I),
         \A i \in Identities :
           /\ identity'[i].account = identity[i].account
           /\ identity'[i].active = IF i \in I THEN Nil ELSE identity[i].active,
         UNCHANGED <<disabled, standing, answer>>,
         \A i \in Identities : Bearers[i] # Nil /\ Owners[i] \notin Trusted' => i \in I
  PROVE  Present!Next
<1> USE DEF Consistent
<1>1. ASSUME NEW s \in Sessions
      PROVE  /\ session'[s].entity = session[s].entity
             /\ session'[s].expired = session[s].expired
             /\ Begun(s)' <=> Begun(s)
  <2>1. session[s] \in SessionRows
    BY DEF TypeOK
  <2>2. \/ session'[s] = session[s]
        \/ session'[s] = [session[s] EXCEPT !.revoked = TRUE]
             /\ session[s].identity # Nil
    BY NilAssumption DEF EndSessions, RevokeSessions
  <2> QED
    BY <2>1, <2>2 DEF SessionRows, Begun, NoSession
<1>2. \A i \in I : Ended(i)
  BY DEF Ended, Bearer
<1>3. ASSUME NEW i \in Identities \ I
      PROVE  Kept(i)
  <2>1. identity[i].active \in Sessions \cup {Nil}
    BY DEF TypeOK, IdentityRows
  <2>2. appearance'[i] = appearance[i]
    BY DEF EndSessions, DropAppearances
  <2> QED
    BY <1>1, <2>1, <2>2 DEF Kept, Bearer
<1> QED
  BY <1>1, <1>2, <1>3, EndingMaps

(* Trust changes, and nobody that bears an identity loses it.                *)
LEMMA TrustMaps ==
  ASSUME UNCHANGED <<disabled, standing, identity, session, appearance, answer>>,
         \A i \in Identities : Bearers[i] # Nil => Owners[i] \in Trusted'
  PROVE  Present!Next
<1>1. PICK I \in SUBSET Identities : I = {}
  OBVIOUS
<1>2. /\ \A i \in I : Ended(i)
      /\ \A i \in Identities \ I : Kept(i)
  BY <1>1, SameRows
<1>3. \A s \in Sessions : Begun(s)' <=> Begun(s)
  BY DEF Begun
<1>4. \A i \in Identities :
        Bearers[i] # Nil /\ Owners[i] \notin Trusted' => i \in I
  OBVIOUS
<1> QED
  BY <1>2, <1>3, <1>4, EndingMaps

(* One step after the other.                                                 *)
LEMMA StutterMaps ==
  ASSUME UNCHANGED <<mode, grant, disabled, standing, identity, session, appearance,
                     answer>>
  PROVE  UNCHANGED Present!presenceVars
BY SameRows, KeptRows DEF Present!presenceVars, Trusted, Enabled, Heard,
                                Hidden

LEMMA OwnMaps ==
  ASSUME Consistent, NEW i \in Identities, NEW a \in Accounts, NEW k,
         AddIdentity(i, a, k), Permitted(a),
         UNCHANGED <<policyVars, session, appearance, answer>>
  PROVE  Present!Next
<1> USE DEF Consistent
<1>1. /\ identity[i] = NoIdentity
      /\ identity' = [identity EXCEPT ![i] =
                        [NoIdentity EXCEPT !.account = a, !.generation = 1]]
  BY DEF AddIdentity
<1>2. /\ \A j \in Identities : j # i => identity'[j] = identity[j]
      /\ identity'[i].account = a /\ identity'[i].active = Nil
  BY <1>1 DEF TypeOK, NoIdentity
<1>3. \A j \in Identities : Bearer(j)' = Bearer(j)
  BY <1>1, <1>2 DEF Bearer, NoIdentity
<1>4. /\ Bearers' = Bearers
      /\ Places' = Places /\ Shows' = Shows
  <2>1. session' = session /\ appearance' = appearance
    OBVIOUS
  <2> QED
    BY <1>3, <2>1 DEF Bearers, Places, Shows
<1>5. /\ Owners' = [Owners EXCEPT ![i] = a]
      /\ Owners[i] = Nil
  <2>1. identity[i].account = Nil
    BY <1>1 DEF NoIdentity
  <2>2. Owners[i] = Nil
    BY <2>1 DEF Owners
  <2>3. Owners' = [Owners EXCEPT ![i] = a]
    BY <1>2 DEF Owners
  <2> QED
    BY <2>2, <2>3
<1>6. Present!May(a)
  BY DEF Present!May, Permitted, Trusted, Active
<1>7. {s \in Sessions : Begun(s)}' = {s \in Sessions : Begun(s)}
  BY DEF Begun
<1>8. UNCHANGED <<Trusted, disabled, Hidden, Heard>>
  BY DEF policyVars, Trusted, Enabled, Hidden, Heard
<1>9. Present!Own(i, a)
  BY <1>4, <1>5, <1>6, <1>7, <1>8 DEF Present!Own
<1> QED
  BY <1>9 DEF Present!Next

LEMMA DevicesMap ==
  ASSUME Consistent, Devices
  PROVE  Present!Next \/ UNCHANGED Present!presenceVars
<1> USE DEF Consistent
<1>1. ASSUME NEW r \in Requests, NEW kind, NEW a \in Accounts, NEW k,
             Request(r, kind, a, k)
      PROVE  Present!Next
  <2>1. /\ grant' = [grant EXCEPT ![a] = Requested(@)]
        /\ UNCHANGED <<mode, disabled, standing, identity, session, appearance,
                       answer>>
    BY <1>1 DEF Request, tables
  <2>2. Trusted \subseteq Trusted'
    BY <2>1 DEF Trusted, Enabled, Requested, TypeOK
  <2> QED
    BY <2>1, <2>2, BearersHold, TrustMaps
<1>2. ASSUME NEW r \in Requests, NEW i \in Identities, Enroll(r, i)
      PROVE  Present!Next
  <2>1. req[r].account \in Accounts
    BY <1>2 DEF Enroll, TypeOK, Calls, Idle
  <2> QED
    BY <1>2, <2>1, OwnMaps DEF Enroll
<1>3. ASSUME NEW r \in Requests, NEW i \in Identities, NEW k \in Keys,
             Issue(r, i, k)
      PROVE  Present!Next
  <2>1. req[r].account \in Accounts
    BY <1>3 DEF Issue, TypeOK, Calls, Idle
  <2> QED
    BY <1>3, <2>1, OwnMaps DEF Issue
<1>4. ASSUME NEW r \in Requests, Finish(r)
      PROVE  UNCHANGED Present!presenceVars
  BY <1>4, StutterMaps DEF Finish, policyVars, tables
<1> QED
  BY <1>1, <1>2, <1>3, <1>4 DEF Devices, RequestEnrolment, RequestIssue

(* What ends the sessions of identities leaves everybody trusted who was.    *)
LEMMA SameTrust ==
  ASSUME Consistent, UNCHANGED <<mode, grant>>, NEW i \in Identities,
         Bearers[i] # Nil
  PROVE  Owners[i] \in Trusted'
BY BearersHold DEF Trusted, Enabled

LEMMA KeyChangesMap ==
  ASSUME Consistent, KeyChanges
  PROVE  Present!Next
<1> USE DEF Consistent
<1>1. ASSUME NEW a \in Accounts, NEW i \in Identities, NEW k \in Keys,
             NEW n \in Revisions, Rotate(a, i, k, n)
      PROVE  Present!Next
  <2>1. /\ EndSessions({i}) /\ UNCHANGED <<mode, grant, disabled, standing, answer>>
        /\ identity' = [Unbound({i}) EXCEPT ![i].generation = @ + 1]
    BY <1>1 DEF Rotate, policyVars
  <2>2. /\ Unbound({i}) \in [Identities -> IdentityRows]
        /\ \A j \in Identities :
             /\ Unbound({i})[j].account = identity[j].account
             /\ Unbound({i})[j].active = IF j = i THEN Nil ELSE identity[j].active
    BY <2>1, UnboundRows DEF EndSessions
  <2>3. \A j \in Identities :
          /\ identity'[j].account = identity[j].account
          /\ identity'[j].active = IF j \in {i} THEN Nil ELSE identity[j].active
    BY <2>1, <2>2 DEF IdentityRows
  <2> QED
    BY <2>1, <2>3, SameTrust, EndSessionsMaps
<1>2. ASSUME NEW a \in Accounts, NEW i \in Identities, RevokeKey(a, i)
      PROVE  Present!Next
  <2>1. /\ EndSessions({i}) /\ UNCHANGED <<mode, grant, disabled, standing, answer>>
        /\ identity' = Unbound({i})
    BY <1>2 DEF RevokeKey, policyVars
  <2>2. \A j \in Identities :
          /\ identity'[j].account = identity[j].account
          /\ identity'[j].active = IF j \in {i} THEN Nil ELSE identity[j].active
    BY <2>1, UnboundRows DEF EndSessions
  <2> QED
    BY <2>1, <2>2, SameTrust, EndSessionsMaps
<1> QED
  BY <1>1, <1>2 DEF KeyChanges

LEMMA ActivateMaps ==
  ASSUME Consistent, NEW a \in Accounts, NEW k \in Keys, NEW e \in Entities,
         NEW s \in Sessions, NEW n \in Revisions, Activate(a, k, e, s, n)
  PROVE  Present!Next
<1> USE DEF Consistent
<1>0. key[k].identity \in Identities
  BY DEF Activate, TypeOK, KeyRows
<1> PICK i \in Identities : i = key[k].identity
  BY <1>0
<1>1. /\ identity[i].account = a /\ session[s] = NoSession
      /\ Permitted(a) /\ UNCHANGED <<mode, disabled, standing, grant, answer>>
      /\ DropAppearances({i})
      /\ identity' = [identity EXCEPT ![i].binding = @ + 1, ![i].revision = @ + 1,
                                      ![i].active = s]
  BY DEF Activate, TypeOK, KeyRows, policyVars
<1>2. /\ session'[s].entity = e /\ ~session'[s].expired /\ Begun(s)'
      /\ \A t \in Sessions : t # s =>
           /\ session'[t].entity = session[t].entity
           /\ session'[t].expired = session[t].expired
           /\ Begun(t)' <=> Begun(t)
  <2>1. session'[s] = [NoSession EXCEPT !.identity = i, !.key = k, !.entity = e,
                                        !.binding = n + 1]
    BY DEF Activate
  <2>2. Begun(s)'
    <3>1. session'[s].identity = i
      BY <2>1 DEF NoSession
    <3> QED
      BY <3>1, NilAssumption DEF Begun, NoSession
  <2>3. ASSUME NEW t \in Sessions, t # s
        PROVE  /\ session'[t].entity = session[t].entity
               /\ session'[t].expired = session[t].expired
               /\ Begun(t)' <=> Begun(t)
    <3>1. session[t] \in SessionRows
      BY DEF TypeOK
    <3>2. \/ session'[t] = session[t]
          \/ /\ session'[t] = [session[t] EXCEPT !.revoked = TRUE]
             /\ session[t].identity # Nil
      BY <1>1, <2>3, NilAssumption DEF Activate
    <3> QED
      BY <3>1, <3>2 DEF SessionRows, Begun, NoSession
  <2> QED
    BY <2>1, <2>2, <2>3 DEF NoSession
<1>3. /\ identity'[i].account = identity[i].account /\ identity'[i].active = s
      /\ \A j \in Identities : j # i => identity'[j] = identity[j]
  BY <1>1 DEF TypeOK, IdentityRows
<1>4. \A j \in Identities : identity[j].active # s
  BY <1>1, NilAssumption DEF BindingsHold, Begun
<1>5. Bearer(i)' = s
  BY <1>2, <1>3, NilAssumption DEF Bearer
<1>6. ASSUME NEW j \in Identities, j # i
      PROVE  Kept(j)
  <2>1. identity[j].active \in Sessions \cup {Nil}
    BY DEF TypeOK, IdentityRows
  <2>2. appearance'[j] = appearance[j]
    BY <1>1, <1>6 DEF DropAppearances
  <2> QED
    BY <1>2, <1>3, <1>4, <1>6, <2>1, <2>2 DEF Kept, Bearer
<1>7. Owners' = Owners
  BY <1>3, <1>6 DEF Owners, Kept
<1>8. Bearers' = [Bearers EXCEPT ![i] = s]
  BY <1>5, <1>6 DEF Bearers, Kept
<1>9. Places' = [Places EXCEPT ![i] = e]
  BY <1>2, <1>5, <1>6, NilAssumption DEF Places, Kept
<1>10. Shows' = [Shows EXCEPT ![i] = Nil]
  <2>1. appearance'[i].model = Nil
    BY <1>1 DEF DropAppearances, NoAppearance
  <2> QED
    BY <1>5, <1>6, <2>1, NilAssumption DEF Shows, Kept
<1>11. /\ s \notin {t \in Sessions : Begun(t)}
       /\ {t \in Sessions : Begun(t)}' = {t \in Sessions : Begun(t)} \cup {s}
  BY <1>1, <1>2 DEF Begun
<1>12. Present!May(Owners[i])
  BY <1>1 DEF Present!May, Permitted, Trusted, Active, Owners
<1>13. UNCHANGED <<Trusted, disabled, Hidden, Heard>>
  BY <1>1 DEF Trusted, Enabled, Hidden, Heard
<1>14. Present!Bear(i, s, e)
  BY <1>7, <1>8, <1>9, <1>10, <1>11, <1>12, <1>13 DEF Present!Bear
<1> QED
  BY <1>1, <1>14 DEF Present!Next

LEMMA PublishMaps ==
  ASSUME Consistent, NEW a \in Accounts, NEW s \in Sessions,
         NEW b \in Revisions, NEW n \in Revisions, NEW m \in Models \cup {Nil},
         Publish(a, s, b, n, m)
  PROVE  Present!Next
<1> USE DEF Consistent
<1> DEFINE i == session[s].identity
<1>1. /\ Begun(s) /\ identity[i].account = a /\ identity[i].active = s
      /\ ~session[s].expired
      /\ Permitted(a) /\ UNCHANGED <<mode, disabled, standing, grant, session, answer>>
  BY DEF Publish, Authorized, Alive, Bound, Begun, SessionOwner, policyVars
<1>2. i \in Identities
  BY <1>1 DEF SessionsHold, TypeOK, SessionRows
<1>3. /\ identity' = [identity EXCEPT ![i].revision = @ + 1]
      /\ appearance' = [appearance EXCEPT ![i] =
           [session |-> s, binding |-> b, revision |-> n + 1, model |-> m]]
  BY DEF Publish
<1> HIDE DEF i
<1>4. /\ \A j \in Identities : /\ identity'[j].account = identity[j].account
                               /\ identity'[j].active = identity[j].active
      /\ \A j \in Identities : j # i => appearance'[j] = appearance[j]
      /\ appearance'[i].model = m
  BY <1>2, <1>3 DEF TypeOK, IdentityRows
<1>5. \A j \in Identities : Bearer(j)' = Bearer(j)
  BY <1>1, <1>4 DEF Bearer
<1>6. Bearer(i) = s /\ s # Nil
  BY <1>1, <1>2, NilAssumption DEF Bearer
<1>7. /\ Owners' = Owners /\ Bearers' = Bearers
      /\ Places' = Places
  BY <1>1, <1>4, <1>5 DEF Owners, Bearers, Places
<1>8. Shows' = [Shows EXCEPT ![i] = m]
  BY <1>2, <1>4, <1>5, <1>6 DEF Shows
<1>9. Bearers[i] # Nil /\ Present!May(Owners[i])
  BY <1>1, <1>2, <1>6
     DEF Present!May, Permitted, Trusted, Active, Owners, Bearers
<1>10. UNCHANGED <<Trusted, disabled, Hidden, Heard>>
  BY <1>1 DEF Trusted, Enabled, Hidden, Heard
<1>11. {t \in Sessions : Begun(t)}' = {t \in Sessions : Begun(t)}
  BY <1>1 DEF Begun
<1>12. Present!Show(i, m)
  BY <1>7, <1>8, <1>9, <1>10, <1>11 DEF Present!Show
<1> QED
  BY <1>2, <1>12 DEF Present!Next

LEMMA WithdrawMaps ==
  ASSUME Consistent, NEW a \in Accounts, NEW s \in Sessions, Withdraw(a, s)
  PROVE  Present!Next
<1> USE DEF Consistent
<1> DEFINE i == session[s].identity
<1>1. /\ Begun(s) /\ Room(i)
      /\ identity' = Unbound({i}) /\ DropAppearances({i})
      /\ session' = [session EXCEPT ![s].revoked = TRUE]
      /\ UNCHANGED <<mode, disabled, standing, grant, answer>>
  BY DEF Withdraw, Authorized, Begun, policyVars
<1>2. i \in Identities
  BY <1>1 DEF SessionsHold, TypeOK, SessionRows
<1>3. \A j \in Identities :
        /\ identity'[j].account = identity[j].account
        /\ j = i => identity'[j].active = Nil
        /\ j # i => identity'[j] = identity[j] /\ appearance'[j] = appearance[j]
  BY <1>1, <1>2, UnboundRows DEF DropAppearances
<1>4. \A t \in Sessions : /\ session'[t].entity = session[t].entity
                          /\ session'[t].expired = session[t].expired
                          /\ Begun(t)' <=> Begun(t)
  <2>1. ASSUME NEW t \in Sessions, t # s
        PROVE  session'[t] = session[t]
    BY <1>1, <2>1 DEF TypeOK
  <2>2. session'[s] = [session[s] EXCEPT !.revoked = TRUE]
    BY <1>1 DEF TypeOK
  <2>3. Begun(s)' /\ session'[s].entity = session[s].entity
          /\ session'[s].expired = session[s].expired
    <3>1. session[s] \in SessionRows /\ session[s].identity # Nil
      BY <1>1 DEF TypeOK, SessionsHold
    <3> QED
      BY <2>2, <3>1 DEF SessionRows, Begun, NoSession
  <2> QED
    BY <1>1, <2>1, <2>3 DEF Begun
<1> HIDE DEF i
<1>5. \A j \in {i} : Ended(j)
  BY <1>2, <1>3 DEF Ended, Bearer
<1>6. ASSUME NEW j \in Identities \ {i}
      PROVE  Kept(j)
  <2>1. identity[j].active \in Sessions \cup {Nil}
    BY DEF TypeOK, IdentityRows
  <2> QED
    BY <1>3, <1>4, <2>1 DEF Kept, Bearer
<1> QED
  BY <1>1, <1>2, <1>4, <1>5, <1>6, SameTrust, EndingMaps

LEMMA ExpiryMaps ==
  ASSUME Consistent, NEW s \in Sessions, Expire(s)
  PROVE  Present!Next
<1> USE DEF Consistent
<1> DEFINE I == {i \in Identities : identity[i].active = s}
<1>1. /\ Begun(s) /\ session' = [session EXCEPT ![s].expired = TRUE]
      /\ UNCHANGED <<mode, disabled, standing, grant, identity, appearance, answer>>
  BY DEF Expire, Begun, policyVars
<1>2. /\ session'[s].expired /\ Begun(s)'
      /\ session'[s].entity = session[s].entity
      /\ \A t \in Sessions : t # s => session'[t] = session[t]
  <2>1. session[s] \in SessionRows /\ session[s].identity # Nil
    BY <1>1 DEF TypeOK, SessionsHold
  <2>2. session'[s] = [session[s] EXCEPT !.expired = TRUE]
    BY <1>1 DEF TypeOK
  <2>3. \A t \in Sessions : t # s => session'[t] = session[t]
    BY <1>1 DEF TypeOK
  <2> QED
    BY <2>1, <2>2, <2>3 DEF SessionRows, Begun, NoSession
<1>3. \A i \in I : Ended(i)
  BY <1>1, <1>2 DEF Ended, Bearer
<1>4. ASSUME NEW i \in Identities \ I
      PROVE  Kept(i)
  <2>1. identity[i].active \in Sessions \cup {Nil} /\ identity[i].active # s
    BY DEF TypeOK, IdentityRows
  <2> QED
    BY <1>1, <1>2, <2>1 DEF Kept, Bearer
<1>5. \A t \in Sessions : Begun(t)' <=> Begun(t)
  BY <1>1, <1>2 DEF Begun
<1> HIDE DEF I
<1>6. I \in SUBSET Identities
  BY DEF I
<1> QED
  BY <1>1, <1>3, <1>4, <1>5, <1>6, SameTrust, EndingMaps

LEMMA AdministrationMaps ==
  ASSUME Consistent, Administration
  PROVE  Present!Next
<1> USE DEF Consistent
<1>1. ASSUME NEW I \in SUBSET Identities, EndSessions(I), identity' = Unbound(I),
             UNCHANGED <<disabled, standing, answer>>,
             \A i \in Identities :
               Bearers[i] # Nil /\ Owners[i] \notin Trusted' => i \in I
      PROVE  Present!Next
  <2>1. \A i \in Identities :
          /\ identity'[i].account = identity[i].account
          /\ identity'[i].active = IF i \in I THEN Nil ELSE identity[i].active
    BY <1>1, UnboundRows DEF EndSessions
  <2> QED
    BY <1>1, <2>1, EndSessionsMaps
<1>2. ASSUME NEW a \in Accounts, NEW status \in {"APPROVED", "REVOKED"},
             Decide(a, status)
      PROVE  Present!Next
  <2>1. /\ grant' = [grant EXCEPT ![a] = status]
        /\ UNCHANGED <<mode, disabled, standing, answer>>
    BY <1>2 DEF Decide
  <2>2. \A b \in Accounts : b # a /\ b \in Trusted => b \in Trusted'
    BY <2>1 DEF Trusted, Enabled, TypeOK
  <2>3. CASE status = "APPROVED"
    <3>1. Trusted \subseteq Trusted'
      BY <2>1, <2>3 DEF Trusted, Enabled, TypeOK
    <3>2. UNCHANGED <<identity, session, appearance>>
      BY <1>2, <2>3 DEF Decide
    <3> QED
      BY <2>1, <3>1, <3>2, BearersHold, TrustMaps
  <2>4. CASE status = "REVOKED"
    <3>1. EndSessions(IdentitiesOf(a)) /\ identity' = Unbound(IdentitiesOf(a))
      BY <1>2, <2>4 DEF Decide
    <3>2. IdentitiesOf(a) \in SUBSET Identities
      BY DEF IdentitiesOf
    <3>3. \A i \in Identities :
            Bearers[i] # Nil /\ Owners[i] \notin Trusted' => i \in IdentitiesOf(a)
      BY <2>2, BearersHold DEF IdentitiesOf, Owners
    <3> QED
      BY <1>1, <2>1, <3>1, <3>2, <3>3
  <2> QED
    BY <2>3, <2>4
<1>3. ASSUME NEW a \in Accounts, NEW value \in BOOLEAN, SetDisabled(a, value)
      PROVE  Present!Next
  <2>1. UNCHANGED <<mode, grant, standing, identity, session, appearance, answer>>
    BY <1>3 DEF SetDisabled, tables
  <2>2. UNCHANGED <<Trusted, Owners, Bearers, Places, Shows, Hidden, Heard>>
    BY <2>1, SameRows, KeptRows DEF Trusted, Enabled, Hidden, Heard
  <2>3. disabled' \in SUBSET Accounts
    BY <1>3 DEF SetDisabled, TypeOK
  <2>4. Present!Suspend(disabled')
    BY <2>1, <2>2, SameRows DEF Present!Suspend
  <2> QED
    BY <2>3, <2>4 DEF Present!Next
<1>4. ASSUME NEW m \in Modes, Configure(m)
      PROVE  Present!Next
  <2>1. CASE m = "disabled"
    BY <1>1, <1>4, <2>1 DEF Configure
  <2>2. CASE m # "disabled"
    <3>1. /\ UNCHANGED <<grant, disabled, standing, identity, session, appearance,
                         answer>>
          /\ Enabled'
      BY <1>4, <2>2 DEF Configure, Enabled
    <3>2. Trusted \subseteq Trusted'
      BY <3>1 DEF Trusted
    <3> QED
      BY <3>1, <3>2, BearersHold, TrustMaps
  <2> QED
    BY <2>1, <2>2
<1>5. ASSUME NEW m \in Modes, Restart(m)
      PROVE  Present!Next
  BY <1>1, <1>5 DEF Restart
<1>6. ASSUME NEW m \in Models, NEW v \in Standings, SetStanding(m, v)
      PROVE  Present!Next
  <2>1. UNCHANGED <<mode, grant, disabled, identity, session, appearance, answer>>
    BY <1>6 DEF SetStanding, tables
  <2>2. UNCHANGED <<Trusted, Owners, Bearers, Places, Shows, Heard>>
    BY <2>1, SameRows, KeptRows DEF Trusted, Enabled, Heard
  <2>3. Hidden' \in SUBSET Models
    BY DEF Hidden
  <2>4. Present!Hide(Hidden')
    BY <2>1, <2>2, SameRows DEF Present!Hide
  <2> QED
    BY <2>3, <2>4 DEF Present!Next
<1> QED
  BY <1>2, <1>3, <1>4, <1>5, <1>6 DEF Administration

(* Who claims an entity bears an identity there, and is told about as such.  *)
LEMMA ClaimsMap ==
  ASSUME Consistent, NEW e \in Entities, Enabled
  PROVE  /\ \A s \in Claims(e) :
              /\ session[s].identity \in Present!Claimants(e)
              /\ Bearers[session[s].identity] = s
         /\ \A i \in Present!Claimants(e) : Bearers[i] \in Claims(e)
<1> USE DEF Consistent
<1>1. ASSUME NEW s \in Claims(e)
      PROVE  /\ session[s].identity \in Present!Claimants(e)
             /\ Bearers[session[s].identity] = s
  <2> DEFINE i == session[s].identity
  <2>1. /\ s \in Sessions /\ Begun(s) /\ session[s].entity = e
        /\ identity[i].active = s /\ ~session[s].expired
        /\ identity[i].account \notin disabled
    BY DEF Claims, Begun, Alive, Bound, Active, SessionOwner
  <2>2. i \in Identities
    BY <2>1 DEF SessionsHold, TypeOK, SessionRows
  <2> HIDE DEF i
  <2>3. Bearer(i) = s /\ s # Nil
    BY <2>1, NilAssumption DEF Bearer
  <2>4. Bearers[i] = s /\ Places[i] = e /\ Owners[i] \notin disabled
    BY <2>1, <2>2, <2>3 DEF Bearers, Places, Owners
  <2> QED
    BY <2>2, <2>3, <2>4 DEF Present!Claimants, i
<1>2. ASSUME NEW i \in Present!Claimants(e)
      PROVE  Bearers[i] \in Claims(e)
  <2> DEFINE s == Bearers[i]
  <2>1. i \in Identities /\ s # Nil /\ Places[i] = e /\ Owners[i] \notin disabled
    BY DEF Present!Claimants
  <2>2. /\ s = identity[i].active /\ s \in Sessions /\ Begun(s)
        /\ session[s].identity = i /\ ~session[s].revoked /\ ~session[s].expired
    BY <2>1, BearersHold
  <2>3. session[s].entity = e /\ identity[i].account \notin disabled
    BY <2>1 DEF Places, Owners, Bearers
  <2> HIDE DEF s
  <2>4. /\ KeyCurrent(s) /\ identity[i].binding = session[s].binding
        /\ grant[identity[i].account] = "APPROVED"
    BY <2>2 DEF SessionsHold, SessionOwner
  <2>5. s \in Claims(e)
    BY <2>2, <2>3, <2>4
       DEF Claims, Begun, Alive, Bound, Active, SessionOwner
  <2> QED
    BY <2>5 DEF s
<1> QED
  BY <1>1, <1>2

LEMMA QueryMaps ==
  ASSUME Consistent, NEW e \in Entities, Query(e)
  PROVE  Present!Next
<1> DEFINE said == [status |-> Answer(e).status, identity |-> Answer(e).identity,
                    model |-> Answer(e).model]
<1>1. said = Present!Truth(e)
  <2>1. CASE ~Enabled
    <3>1. Present!Claimants(e) = {}
      BY <2>1, BearersHold DEF Present!Claimants, Trusted
    <3> QED
      BY <2>1, <3>1 DEF Answer, Unclaimed, Present!Truth, Present!Nobody
  <2>2. CASE Enabled /\ Claims(e) = {}
    <3>1. Present!Claimants(e) = {}
      BY <2>2, ClaimsMap
    <3> QED
      BY <2>2, <3>1 DEF Answer, Unclaimed, Present!Truth, Present!Nobody
  <2>3. CASE Enabled /\ \E s \in Sessions : Claims(e) = {s}
    <3> DEFINE s == CHOOSE s \in Sessions : Claims(e) = {s}
               i == session[s].identity
    <3>1. s \in Sessions /\ Claims(e) = {s}
      BY <2>3
    <3>2. Answer(e) = Entry(s)
      BY <2>3, <3>1 DEF Answer
    <3> HIDE DEF s
    <3>3. /\ i \in Present!Claimants(e) /\ Bearers[i] = s
          /\ \A j \in Present!Claimants(e) : Bearers[j] = s
      BY <2>3, <3>1, ClaimsMap
    <3>4. ASSUME NEW j \in Present!Claimants(e)
          PROVE  j = i
      <4>1. j \in Identities /\ Bearers[j] # Nil /\ Bearers[j] = s
        BY <3>3 DEF Present!Claimants
      <4> QED
        BY <4>1, BearersHold
    <3>5. i \in Identities /\ Bearers[i] # Nil
      BY <3>3 DEF Present!Claimants
    <3> HIDE DEF i
    <3>6. Present!Claimants(e) = {i}
      BY <3>3, <3>4
    <3>7. (CHOOSE j \in Identities : Present!Claimants(e) = {j}) = i
      BY <3>5, <3>6
    <3>8. Present!Truth(e) =
            [status |-> "ACTIVE", identity |-> i, model |-> Visible(Shows[i])]
      BY <3>5, <3>6, <3>7 DEF Present!Truth, Visible
    <3>9. Shows[i] = appearance[i].model
      BY <3>5 DEF Shows, Bearers
    <3>10. Published(s) = appearance[i].model
      <4>1. /\ s = identity[i].active /\ s \in Sessions /\ Begun(s)
            /\ session[s].identity = i /\ ~session[s].revoked
        BY <3>3, <3>5, BearersHold
      <4>2. identity[i].binding = session[s].binding
        BY <4>1 DEF Consistent, SessionsHold
      <4>3. CASE appearance[i] = NoAppearance
        BY <4>1, <4>3, NilAssumption DEF Published, NoAppearance
      <4>4. CASE appearance[i] # NoAppearance
        BY <3>5, <4>1, <4>2, <4>4 DEF Consistent, AppearancesHold, Published
      <4> QED
        BY <4>3, <4>4
    <3>11. /\ Entry(s).status = "ACTIVE" /\ Entry(s).identity = i
           /\ Entry(s).model = Visible(Published(s))
      BY DEF Entry, i
    <3> QED
      BY <3>2, <3>8, <3>9, <3>10, <3>11
  <2>4. CASE Enabled /\ Claims(e) # {} /\ ~\E s \in Sessions : Claims(e) = {s}
    <3>1. PICK s \in Claims(e) : TRUE
      BY <2>4
    <3>2. s \in Sessions
      BY <3>1 DEF Claims
    <3>3. PICK t \in Claims(e) : t # s
      BY <2>4, <3>1, <3>2
    <3>4. /\ session[s].identity \in Present!Claimants(e)
          /\ session[t].identity \in Present!Claimants(e)
          /\ Bearers[session[s].identity] = s /\ Bearers[session[t].identity] = t
      BY <2>4, <3>1, <3>3, ClaimsMap
    <3>5. Present!Claimants(e) # {}
          /\ ~\E i \in Identities : Present!Claimants(e) = {i}
      BY <3>3, <3>4
    <3>6. Answer(e) = Ambiguous
      BY <2>4 DEF Answer
    <3> QED
      BY <3>5, <3>6
         DEF Ambiguous, Unclaimed, Present!Truth, Present!Nobody
  <2> QED
    BY <2>1, <2>2, <2>3, <2>4
<1>2. UNCHANGED <<mode, grant, disabled, standing, identity, session, appearance>>
  BY DEF Query, policyVars, tables
<1>3. UNCHANGED <<Trusted, Owners, Bearers, Places, Shows, Hidden>>
  BY <1>2, SameRows, KeptRows DEF Trusted, Enabled, Hidden
<1>4. Heard' = [Heard EXCEPT ![e] = said]
  <2>1. answer'[e] = Answer(e)
    BY DEF Query, Consistent, TypeOK
  <2>2. \A f \in Entities : f # e => answer'[f] = answer[f]
    BY DEF Query, Consistent, TypeOK
  <2> QED
    BY <2>1, <2>2 DEF Heard
<1> HIDE DEF said
<1>5. Present!Ask(e)
  BY <1>1, <1>2, <1>3, <1>4, SameRows DEF Present!Ask
<1> QED
  BY <1>5 DEF Present!Next

LEMMA StepMaps ==
  ASSUME Consistent, [Next]_vars
  PROVE  [Present!Next]_(Present!presenceVars)
<1>1. CASE UNCHANGED vars
  BY <1>1, StutterMaps DEF vars
<1>2. CASE Players
  BY <1>2, ActivateMaps, PublishMaps, WithdrawMaps DEF Players
<1>3. CASE Devices
  BY <1>3, DevicesMap
<1>4. CASE KeyChanges \/ Administration
  BY <1>4, KeyChangesMap, AdministrationMaps
<1> QED
  BY <1>1, <1>2, <1>3, <1>4, ExpiryMaps, QueryMaps DEF Next

LEMMA InitMaps == Init => Present!Init
<1> SUFFICES ASSUME Init
             PROVE  Present!Init
  OBVIOUS
<1>1. Trusted = {} /\ disabled = {}
  BY DEF Init, Trusted
<1>2. \A i \in Identities : Bearer(i) = Nil /\ identity[i].account = Nil
  BY DEF Init, Bearer, NoIdentity
<1>3. Owners = Present!Nowhere /\ Bearers = Present!Nowhere
  BY <1>2 DEF Owners, Bearers, Present!Nowhere
<1>4. Places = Present!Nowhere /\ Shows = Present!Nowhere
  BY <1>2 DEF Places, Shows, Present!Nowhere
<1>5. {s \in Sessions : Begun(s)} = {}
  BY DEF Init, Begun
<1>6. Heard = [e \in Entities |-> Present!Nobody]
  BY DEF Init, Heard, Unclaimed, Present!Nobody
<1>7. Hidden \subseteq Models
  BY DEF Hidden
<1> QED
  BY <1>1, <1>3, <1>4, <1>5, <1>6, <1>7 DEF Present!Init

(* The tables, their transactions and everything that ends sessions amount   *)
(* to Presence: one bearer for an identity, never again once it is over, only *)
(* while its account is trusted, and observers told what it shows            *)
(* (offline_identity.rs, offline_authorization.rs, offline_player.rs).        *)
THEOREM IdentitiesImplementPresence == Spec => ImplementsPresence
<1>1. Init => Present!Init
  BY InitMaps
<1>2. Consistent /\ [Next]_vars => [Present!Next]_(Present!presenceVars)
  BY StepMaps
<1> QED
  BY <1>1, <1>2, ConsistentAlways, PTL DEF Spec, ImplementsPresence, Present!Spec
=============================================================================
