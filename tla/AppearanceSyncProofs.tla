------------------------ MODULE AppearanceSyncProofs ------------------------
(* Proofs about AppearanceSync for any number of calls, players, targets and *)
(* requests, any capacity of the channel and any size of a page.             *)
EXTENDS AppearanceSync, FiniteSetTheorems, WellFoundedInduction, TLAPS

(* What is answered, about to be announced or in the channel is a row.       *)
Log == {outbox[n] : n \in DOMAIN outbox}
Logged ==
  /\ \A k \in Accounts \X Ids : answered[k] # None => answered[k] \in Log
  /\ \A c \in Calls : pc[c] = "committed" => reply[c] \in Log
  /\ \A m \in DOMAIN sent : sent[m] \in Log

(* A receiver reads in the channel. *)
InChannel == \A w \in Watchers : pos[w] <= Len(sent)

(* Roles are changed, never withdrawn. *)
RolesKept ==
  \A t \in Targets, a \in Accounts :
    InitialRole[t][a] # "none" => role[t][a] # "none"

(* A cursor stays within the outbox. *)
CursorFits ==
  \A w \in Watchers, s \in Scopes : cursor[w][s] <= Len(outbox)

HistoryInv == OutboxIsHistory /\ OneEffectPerRequest
ClientInv == InChannel /\ RolesKept /\ CursorKnown /\ CursorFits
SyncInv ==
  TypeOK /\ HistoryInv /\ Logged /\ ClientInv /\ NoPhantoms /\ NothingUnheard

----------------------------------------------------------------------------
LEMMA Part ==
  ASSUME NEW S, IsFiniteSet(S), NEW T, T \subseteq S
  PROVE  /\ IsFiniteSet(T)
         /\ Cardinality(T) \in Nat /\ Cardinality(S) \in Nat
         /\ Cardinality(T) <= Cardinality(S)
<1>1. T \in SUBSET S
  OBVIOUS
<1>2. IsFiniteSet(T) /\ Cardinality(T) <= Cardinality(S)
  BY <1>1, FS_Subset, Zenon
<1> QED
  BY <1>2, FS_CardinalityType

(* A finite set of numbers has a least and a greatest member: the sets of    *)
(* the members below and above each member are ordered by inclusion.         *)
LEMMA Minimal ==
  ASSUME NEW S, NEW T, T # {}, \A U \in T : IsFiniteSet(U) /\ U \subseteq S
  PROVE  \E U \in T : \A V \in T : ~ (V \subseteq U /\ V # U)
<1>1. T \subseteq FiniteSubsetsOf(S)
  BY DEF FiniteSubsetsOf
<1>2. IsWellFoundedOn(StrictSubsetOrdering(S), FiniteSubsetsOf(S))
  BY FS_StrictSubsetOrderingWellFounded
<1>3. PICK U \in T : \A V \in T : ~ (<<V, U>> \in StrictSubsetOrdering(S))
  BY <1>1, <1>2, WFMin, Zenon
<1>4. ASSUME NEW V \in T, V \subseteq U, V # U
      PROVE  FALSE
  <2>1. <<V, U>> \in StrictSubsetOrdering(S)
    BY <1>4 DEF StrictSubsetOrdering
  <2> QED
    BY <1>3, <2>1
<1> QED
  BY <1>4

LEMMA Least ==
  ASSUME NEW S \in SUBSET Nat, IsFiniteSet(S), S # {}
  PROVE  \E x \in S : \A y \in S : x <= y
<1> DEFINE Below(x) == {y \in S : y < x}
           T == {Below(x) : x \in S}
<1>0. \A x \in S : x \in Nat
  OBVIOUS
<1>1. \A x \in S : Below(x) \subseteq S
  OBVIOUS
<1>2. \A x \in S : IsFiniteSet(Below(x))
  <2> HIDE DEF Below
  <2> QED
    BY <1>1, Part
<1>3. PICK x \in S : \A y \in S :
        ~ (Below(y) \subseteq Below(x) /\ Below(y) # Below(x))
  <2> HIDE DEF Below
  <2>1. T # {} /\ \A U \in T : IsFiniteSet(U) /\ U \subseteq S
    BY <1>1, <1>2
  <2>2. \E U \in T : \A V \in T : ~ (V \subseteq U /\ V # U)
    <3> HIDE DEF T
    <3> QED
      BY <2>1, Minimal
  <2> QED
    BY <2>2
<1>4. ASSUME NEW y \in S, y < x
      PROVE  FALSE
  <2>1. Below(y) \subseteq Below(x)
    <3>1. \A z \in S : z < y => z < x
      BY <1>0, <1>4
    <3> QED
      BY <3>1
  <2>2. y \in Below(x) /\ y \notin Below(y)
    BY <1>4
  <2> HIDE DEF Below
  <2> QED
    BY <1>3, <2>1, <2>2
<1> QED
  BY <1>4

LEMMA Greatest ==
  ASSUME NEW S \in SUBSET Nat, IsFiniteSet(S), S # {}
  PROVE  Max(S) \in S /\ \A y \in S : Max(S) >= y
<1> DEFINE Above(x) == {y \in S : y > x}
           T == {Above(x) : x \in S}
<1>0. \A x \in S : x \in Nat
  OBVIOUS
<1>1. \A x \in S : Above(x) \subseteq S
  OBVIOUS
<1>2. \A x \in S : IsFiniteSet(Above(x))
  <2> HIDE DEF Above
  <2> QED
    BY <1>1, Part
<1>3. PICK x \in S : \A y \in S :
        ~ (Above(y) \subseteq Above(x) /\ Above(y) # Above(x))
  <2> HIDE DEF Above
  <2>1. T # {} /\ \A U \in T : IsFiniteSet(U) /\ U \subseteq S
    BY <1>1, <1>2
  <2>2. \E U \in T : \A V \in T : ~ (V \subseteq U /\ V # U)
    <3> HIDE DEF T
    <3> QED
      BY <2>1, Minimal
  <2> QED
    BY <2>2
<1>4. ASSUME NEW y \in S, y > x
      PROVE  FALSE
  <2>1. Above(y) \subseteq Above(x)
    <3>1. \A z \in S : z > y => z > x
      BY <1>0, <1>4
    <3> QED
      BY <3>1
  <2>2. y \in Above(x) /\ y \notin Above(y)
    BY <1>4
  <2> HIDE DEF Above
  <2> QED
    BY <1>3, <2>1, <2>2
<1>5. \A y \in S : x >= y
  BY <1>4
<1> QED
  BY <1>5 DEF Max

(* The rows of a page come before the rows that are left, and a page that is *)
(* not full leaves none.                                                      *)
LEMMA Pages ==
  ASSUME NEW R \in SUBSET Nat, IsFiniteSet(R), NEW P,
         P = {n \in R : Cardinality({m \in R : m < n}) < PageLimit}
  PROVE  /\ P \subseteq R
         /\ \A n \in P, m \in R : m <= n => m \in P
         /\ Cardinality(P) # PageLimit => P = R
<1> DEFINE Below(n) == {m \in R : m < n}
<1>0. /\ P \subseteq R
      /\ \A n \in R : n \in Nat
      /\ \A n \in R : n \in P <=> Cardinality(Below(n)) < PageLimit
  OBVIOUS
<1>1. \A n \in R : Below(n) \subseteq R
  OBVIOUS
<1>2. \A n, m \in R : m <= n => Below(m) \subseteq Below(n)
  <2>1. \A n, m, l \in R : m <= n /\ l < m => l < n
    BY <1>0
  <2> QED
    BY <2>1
<1>3. \A n, m \in R : m <= n /\ m # n => m \in Below(n)
  BY <1>0
<1> HIDE DEF Below
<1>4. \A n \in R : IsFiniteSet(Below(n)) /\ Cardinality(Below(n)) \in Nat
  BY <1>1, Part
<1>5. IsFiniteSet(P) /\ Cardinality(P) \in Nat
  BY <1>0, Part
<1>6. ASSUME NEW n \in P, NEW m \in R, m <= n
      PROVE  m \in P
  <2>1. Cardinality(Below(m)) <= Cardinality(Below(n))
    BY <1>0, <1>2, <1>4, <1>6, Part
  <2> QED
    BY <1>0, <1>4, <1>6, <2>1, SizesAssumption
<1>7. Cardinality(P) <= PageLimit
  <2>1. CASE P = {}
    <3>1. Cardinality(P) = 0
      BY <2>1, FS_EmptySet, Zenon
    <3> QED
      BY <3>1, SizesAssumption
  <2>2. CASE P # {}
    <3> DEFINE x == Max(P)
    <3>1. x \in P /\ \A y \in P : x >= y
      BY <1>0, <1>5, <2>2, Greatest
    <3> HIDE DEF x
    <3>2. P \ {x} \subseteq Below(x)
      BY <1>0, <1>3, <3>1
    <3>3. Cardinality(P \ {x}) <= Cardinality(Below(x))
      BY <1>0, <1>4, <3>1, <3>2, Part
    <3>4. Cardinality(P \ {x}) = Cardinality(P) - 1
      BY <1>5, <3>1, FS_RemoveElement
    <3>5. Cardinality(Below(x)) < PageLimit
      BY <1>0, <3>1
    <3> QED
      BY <1>0, <1>4, <1>5, <3>1, <3>3, <3>4, <3>5, SizesAssumption
  <2> QED
    BY <2>1, <2>2
<1>8. ASSUME Cardinality(P) # PageLimit, R \ P # {}
      PROVE  FALSE
  <2>1. R \ P \in SUBSET Nat /\ IsFiniteSet(R \ P)
    <3>1. R \ P \subseteq R
      OBVIOUS
    <3> QED
      BY <3>1, Part
  <2>2. PICK n \in R \ P : \A m \in R \ P : n <= m
    BY <1>8, <2>1, Least, Zenon
  <2>3. Below(n) \subseteq P
    <3>1. \A m \in R : m < n => m \in P
      BY <1>0, <2>2
    <3> QED
      BY <3>1 DEF Below
  <2>4. Cardinality(Below(n)) <= Cardinality(P)
    BY <1>5, <2>3, Part
  <2> QED
    BY <1>0, <1>4, <1>5, <1>7, <1>8, <2>2, <2>4, SizesAssumption
<1> QED
  BY <1>0, <1>6, <1>8

----------------------------------------------------------------------------
(* Types. *)
LEMMA Requested ==
  ASSUME NEW r \in Requests
  PROVE  /\ r \in Request /\ ItemOf(r) \in Items /\ KeyOf(r) \in Accounts \X Ids
         /\ r.account \in Accounts /\ r.target \in Targets
         /\ r.value \in Values /\ r.kind \in Kinds
         /\ r.via \in {"update", "entity"}
<1>1. r \in Request
  BY RequestsAssumption
<1> QED
  BY <1>1 DEF Request, ItemOf, KeyOf, Items

LEMMA Events ==
  ASSUME NEW e \in Event
  PROVE  /\ e.revision \in Nat /\ e.revision > 0
         /\ e.request.target \in Targets
         /\ ItemOf(e.request) \in Items
         /\ KeyOf(e.request) \in Accounts \X Ids
         /\ e # None
BY NoneAssumption DEF Event, Request, ItemOf, KeyOf, Items

LEMMA NewEvent ==
  ASSUME TypeOK, NEW r \in Requests
  PROVE  /\ EventOf(r) \in Event
         /\ EventOf(r).request = r
         /\ EventOf(r).revision = state[ItemOf(r)].revision + 1
         /\ state[ItemOf(r)].revision \in Nat
<1>1. state[ItemOf(r)].revision \in Nat
  BY Requested DEF TypeOK
<1> QED
  BY <1>1, Requested DEF EventOf, Event

LEMMA WriteTypes ==
  ASSUME TypeOK, NEW r \in Requests, Write(r)
  PROVE  /\ state' \in [Items -> [revision : Nat, value : Values \cup {None}]]
         /\ outbox' \in Seq(Event)
         /\ holder' \in [Targets -> Accounts \cup {None}]
         /\ leased' \subseteq Targets
<1>1. EventOf(r) \in Event /\ EventOf(r).revision \in Nat
  BY NewEvent, Events
<1>2. [revision |-> EventOf(r).revision, value |-> r.value]
        \in [revision : Nat, value : Values \cup {None}]
  BY <1>1, Requested
<1>3. state' \in [Items -> [revision : Nat, value : Values \cup {None}]]
  BY <1>2 DEF Write, TypeOK
<1>4. outbox' \in Seq(Event)
  BY <1>1 DEF Write, TypeOK
<1>5. holder' \in [Targets -> Accounts \cup {None}]
  BY Requested DEF Write, TypeOK
<1>6. leased' \subseteq Targets
  BY Requested DEF Write, TypeOK
<1> QED
  BY <1>3, <1>4, <1>5, <1>6

LEMMA InitialTypes == Init => TypeOK
BY RolesAssumption, SizesAssumption, ScopesAssumption
   DEF Init, TypeOK

(* The channel has what a receiver that is not lagging reads next. *)
LEMMA Next1 ==
  ASSUME TypeOK, NEW w \in Watchers, Forward(w)
  PROVE  /\ pos[w] + 1 \in DOMAIN sent /\ pos[w] + 1 \in 1..Len(sent)
         /\ sent[pos[w] + 1] \in Event
         /\ pos' = [pos EXCEPT ![w] = pos[w] + 1]
<1>1. pos[w] \in Nat /\ Len(sent) \in Nat /\ DOMAIN sent = 1..Len(sent)
  BY DEF TypeOK
<1>2. Len(sent) - pos[w] >= 1
  BY <1>1, SizesAssumption DEF Forward, Unread
<1>3. pos[w] + 1 \in 1..Len(sent)
  BY <1>1, <1>2
<1> QED
  BY <1>1, <1>3 DEF Forward, TypeOK

(* What a client learns from a page: of each item the newest row, or what it *)
(* knew already.                                                              *)
LEMMA Learnt ==
  ASSUME TypeOK, NEW w \in Watchers, Recover(w),
         NEW s, s = joined[w], NEW p, p = Page(s, cursor[w][s])
  PROVE  /\ s \in Scopes /\ cursor[w][s] \in Nat
         /\ p \subseteq Rows(s, cursor[w][s]) /\ p \subseteq DOMAIN outbox
         /\ \A n \in p, m \in Rows(s, cursor[w][s]) : m <= n => m \in p
         /\ ~HasMore(s, cursor[w][s]) => p = Rows(s, cursor[w][s])
         /\ cursor' = [cursor EXCEPT ![w][s] = ToCursor(s, cursor[w][s])]
         /\ ToCursor(s, cursor[w][s]) \in p \cup {cursor[w][s]}
         /\ \A n \in p : n <= ToCursor(s, cursor[w][s])
         /\ p = {} => ToCursor(s, cursor[w][s]) = cursor[w][s]
         /\ \A v \in Watchers \ {w} : view'[v] = view[v]
         /\ \A i \in Items :
              /\ view'[w][i] \in Nat /\ view'[w][i] >= view[w][i]
              /\ \A n \in p : ItemOf(outbox[n].request) = i =>
                   outbox[n].revision <= view'[w][i]
              /\ \/ view'[w][i] = view[w][i]
                 \/ \E n \in p : /\ ItemOf(outbox[n].request) = i
                                 /\ view'[w][i] = outbox[n].revision
         /\ view' \in [Watchers -> [Items -> Nat]]
<1> DEFINE a == cursor[w][s]
           R == Rows(s, a)
           Seen(i) == {outbox[n].revision : n \in
                         {m \in p : ItemOf(outbox[m].request) = i}}
           S(i) == Seen(i) \cup {view[w][i]}
<1>1. s \in Scopes /\ a \in Nat
  BY DEF Recover, TypeOK
<1>2. DOMAIN outbox = 1..Len(outbox) /\ Len(outbox) \in Nat
  BY DEF TypeOK
<1>3. R \in SUBSET Nat /\ IsFiniteSet(R) /\ R \subseteq DOMAIN outbox
  <2>1. R \subseteq DOMAIN outbox
    BY DEF Rows
  <2>2. IsFiniteSet(1..Len(outbox))
    BY <1>2, FS_Interval
  <2> HIDE DEF R
  <2>3. IsFiniteSet(R)
    BY <1>2, <2>1, <2>2, Part
  <2> QED
    BY <1>2, <2>1, <2>3
<1>4. p = {n \in R : Cardinality({m \in R : m < n}) < PageLimit}
  BY DEF Page
<1>5. /\ p \subseteq R
      /\ \A n \in p, m \in R : m <= n => m \in p
      /\ Cardinality(p) # PageLimit => p = R
  <2> HIDE DEF R
  <2> QED
    BY <1>3, <1>4, Pages
<1>6. IsFiniteSet(p) /\ p \in SUBSET Nat /\ p \subseteq DOMAIN outbox
  <2> HIDE DEF R
  <2> QED
    BY <1>3, <1>5, Part
<1>7. /\ ToCursor(s, a) \in p \cup {a}
      /\ \A n \in p : n <= ToCursor(s, a)
      /\ p = {} => ToCursor(s, a) = a
  <2>1. CASE p = {}
    BY <2>1 DEF ToCursor
  <2>2. CASE p # {}
    <3>1. ToCursor(s, a) = Max(p)
      BY <2>2 DEF ToCursor
    <3> QED
      BY <1>6, <2>2, <3>1, Greatest
  <2> QED
    BY <2>1, <2>2
<1>8. ASSUME NEW i \in Items
      PROVE  /\ Max(S(i)) \in S(i) /\ \A y \in S(i) : Max(S(i)) >= y
             /\ S(i) \in SUBSET Nat
  <2>1. \A n \in p : outbox[n].revision \in Nat
    BY <1>2, <1>6, Events DEF TypeOK
  <2>2. view[w][i] \in Nat
    BY DEF TypeOK
  <2>3. S(i) \in SUBSET Nat /\ S(i) # {}
    BY <2>1, <2>2
  <2>4. IsFiniteSet(S(i))
    <3> DEFINE q == {m \in p : ItemOf(outbox[m].request) = i}
    <3>1. IsFiniteSet(q)
      BY <1>6, Part
    <3>2. Seen(i) = {outbox[n].revision : n \in q}
      OBVIOUS
    <3> DEFINE f == [n \in q |-> outbox[n].revision]
    <3>3. f \in Surjection(q, Seen(i))
      BY DEF Surjection
    <3>4. IsFiniteSet(Seen(i))
      <4> HIDE DEF f, q, Seen
      <4> QED
        BY <3>1, <3>3, FS_Surjection
    <3> QED
      BY <3>4, FS_AddElement
  <2> HIDE DEF S
  <2> QED
    BY <2>3, <2>4, Greatest
<1>9. view' = [view EXCEPT ![w] = [i \in Items |-> Max(S(i))]]
  BY DEF Recover
<1>10. cursor' = [cursor EXCEPT ![w][s] = ToCursor(s, a)]
  BY DEF Recover
<1>11. \A i \in Items : view'[w][i] = Max(S(i))
  BY <1>9 DEF TypeOK
<1>12. \A v \in Watchers \ {w} : view'[v] = view[v]
  BY <1>9 DEF TypeOK
<1>13. ASSUME NEW i \in Items
       PROVE  /\ view'[w][i] \in Nat /\ view'[w][i] >= view[w][i]
              /\ \A n \in p : ItemOf(outbox[n].request) = i =>
                   outbox[n].revision <= view'[w][i]
              /\ \/ view'[w][i] = view[w][i]
                 \/ \E n \in p : /\ ItemOf(outbox[n].request) = i
                                 /\ view'[w][i] = outbox[n].revision
  <2>1. view'[w][i] = Max(S(i))
    BY <1>11
  <2>2. /\ Max(S(i)) \in S(i) /\ \A y \in S(i) : Max(S(i)) >= y
        /\ S(i) \in SUBSET Nat
    BY <1>8
  <2>3. \A y \in S(i) : y \in Nat
    BY <2>2
  <2>4. \A n \in p : ItemOf(outbox[n].request) = i =>
          outbox[n].revision \in S(i)
    OBVIOUS
  <2>5. view[w][i] \in S(i)
    OBVIOUS
  <2>6. view'[w][i] \in S(i) /\ \A y \in S(i) : view'[w][i] >= y
    BY <2>1, <2>2
  <2>7. \/ view'[w][i] = view[w][i]
        \/ \E n \in p : /\ ItemOf(outbox[n].request) = i
                        /\ view'[w][i] = outbox[n].revision
    BY <2>6
  <2> HIDE DEF S
  <2>8. view'[w][i] \in Nat /\ view'[w][i] >= view[w][i]
    BY <2>3, <2>5, <2>6
  <2>9. \A n \in p : ItemOf(outbox[n].request) = i =>
          outbox[n].revision <= view'[w][i]
    BY <2>3, <2>4, <2>6
  <2> QED
    BY <2>7, <2>8, <2>9
<1>14. view' \in [Watchers -> [Items -> Nat]]
  BY <1>9, <1>11, <1>13 DEF TypeOK
<1>15. ~HasMore(s, a) => p = R
  BY <1>5 DEF HasMore
<1> HIDE DEF S, Seen
<1> QED
  BY <1>1, <1>5, <1>6, <1>7, <1>10, <1>12, <1>13, <1>14, <1>15

(* The steps of Next. *)
LEMMA Steps ==
  ASSUME Next
  PROVE  \/ \E c \in Calls, r \in Requests :
              Update(c, r) \/ Replay(c, r) \/ PutEntity(c, r) \/ Refuse(c, r)
         \/ \E c \in Calls : Announce(c)
         \/ \E w \in Watchers : Connect(w) \/ Close(w) \/ Forward(w) \/ Lag(w)
                                  \/ Recover(w)
         \/ \E w \in Watchers, s \in Scopes : JoinScope(w, s) \/ LeaveScope(w, s)
         \/ \E t \in Targets : LeaseExpires(t)
         \/ Crash
         \/ \E g \in Grants : SetAcl(g)
         \/ \E v \in Values : Moderate(v)
BY Zenon DEF Next, Call, Socket, Manage

LEMMA CallTypes ==
  ASSUME TypeOK, Logged, NEW c \in Calls,
         (\E r \in Requests : Update(c, r) \/ Replay(c, r) \/ PutEntity(c, r)
                                \/ Refuse(c, r))
           \/ Announce(c)
  PROVE  TypeOK'
<1>1. ASSUME NEW r \in Requests, Update(c, r)
      PROVE  TypeOK'
  <2>1. Write(r) /\ EventOf(r) \in Event
    BY <1>1, NewEvent DEF Update
  <2>2. answered' \in [Accounts \X Ids -> Event \cup {None}]
    BY <1>1, <2>1, Requested DEF Update, TypeOK
  <2>3. /\ reply' \in [Calls -> Event \cup {None}]
        /\ pc' \in [Calls -> {"idle", "committed", "done"}]
    BY <1>1, <2>1 DEF Update, TypeOK
  <2> QED
    BY <1>1, <2>1, <2>2, <2>3, WriteTypes
       DEF Update, TypeOK, aclVars, socketVars, clientVars, boundVars
<1>2. ASSUME NEW r \in Requests, Replay(c, r)
      PROVE  TypeOK'
  <2>1. Answer(r) \in Event \cup {None}
    BY Requested DEF Answer, TypeOK
  <2> QED
    BY <1>2, <2>1
       DEF Replay, TypeOK, dbVars, aclVars, socketVars, clientVars, boundVars
<1>3. ASSUME NEW r \in Requests, PutEntity(c, r)
      PROVE  TypeOK'
  <2>1. Write(r)
    BY <1>3 DEF PutEntity
  <2>2. pc' \in [Calls -> {"idle", "committed", "done"}]
    BY <1>3 DEF PutEntity, TypeOK
  <2> QED
    BY <1>3, <2>1, <2>2, WriteTypes
       DEF PutEntity, TypeOK, aclVars, socketVars, clientVars, boundVars
<1>4. ASSUME NEW r \in Requests, Refuse(c, r)
      PROVE  TypeOK'
  BY <1>4
     DEF Refuse, TypeOK, dbVars, aclVars, socketVars, clientVars, boundVars
<1>5. ASSUME Announce(c)
      PROVE  TypeOK'
  <2>1. reply[c] \in Event
    <3>1. PICK n \in DOMAIN outbox : outbox[n] = reply[c]
      BY <1>5 DEF Announce, Logged, Log
    <3> QED
      BY <3>1 DEF TypeOK
  <2>2. sent' \in Seq(Event)
    BY <1>5, <2>1 DEF Announce, TypeOK
  <2> QED
    BY <1>5, <2>2
       DEF Announce, TypeOK, dbVars, aclVars, socketVars, clientVars, boundVars
<1> QED
  BY <1>1, <1>2, <1>3, <1>4, <1>5

LEMMA SocketTypes ==
  ASSUME TypeOK, NEW w \in Watchers,
         \/ Connect(w) \/ Close(w) \/ Forward(w) \/ Lag(w) \/ Recover(w)
         \/ \E s \in Scopes : JoinScope(w, s) \/ LeaveScope(w, s)
  PROVE  TypeOK'
<1>1. Len(sent) \in Nat
  BY DEF TypeOK
<1>2. CASE Connect(w)
  BY <1>1, <1>2
     DEF Connect, TypeOK, dbVars, aclVars, clientVars, boundVars
<1>3. CASE Close(w)
  BY <1>3 DEF Close, TypeOK, dbVars, aclVars, clientVars, boundVars
<1>4. CASE Forward(w)
  <2>1. pos' \in [Watchers -> Nat]
    BY <1>4, Next1 DEF TypeOK
  <2>2. view' \in [Watchers -> [Items -> Nat]]
    <3> DEFINE e == sent[pos[w] + 1]
    <3>1. e \in Event
      BY <1>4, Next1
    <3>2. ItemOf(e.request) \in Items /\ e.revision \in Nat
      BY <3>1, Events
    <3>3. view' = view \/ view' = Shown(w, e)
      BY <1>4 DEF Forward
    <3> HIDE DEF e
    <3>4. Shown(w, e) \in [Watchers -> [Items -> Nat]]
      BY <3>2 DEF Shown, Later, TypeOK
    <3> QED
      BY <3>3, <3>4 DEF TypeOK
  <2> QED
    BY <1>4, <2>1, <2>2 DEF Forward, TypeOK, dbVars, aclVars, boundVars
<1>5. CASE Lag(w)
  <2>1. Len(sent) - Capacity \in Nat
    BY <1>1, <1>5, SizesAssumption DEF Lag, Unread, TypeOK
  <2> QED
    BY <1>5, <2>1 DEF Lag, TypeOK, dbVars, aclVars, boundVars
<1>6. CASE Recover(w)
  <2> DEFINE s == joined[w]
             a == cursor[w][s]
             p == Page(s, a)
  <2>1. DOMAIN outbox \subseteq Nat
    BY DEF TypeOK
  <2>2. /\ s \in Scopes /\ a \in Nat /\ p \subseteq DOMAIN outbox
        /\ cursor' = [cursor EXCEPT ![w][s] = ToCursor(s, a)]
        /\ ToCursor(s, a) \in p \cup {a}
        /\ view' \in [Watchers -> [Items -> Nat]]
    BY <1>6, Learnt
  <2>3. ToCursor(s, a) \in Nat
    BY <2>1, <2>2
  <2> HIDE DEF s, a, p
  <2>4. cursor' \in [Watchers -> [Scopes -> Nat]]
    BY <2>2, <2>3 DEF TypeOK
  <2>5. behind' \subseteq Watchers
    BY <1>6 DEF Recover, TypeOK
  <2> QED
    BY <1>6, <2>2, <2>4, <2>5
       DEF Recover, TypeOK, dbVars, aclVars, socketVars, boundVars
<1>7. ASSUME NEW s \in Scopes, JoinScope(w, s)
      PROVE  TypeOK'
  BY <1>7 DEF JoinScope, TypeOK, dbVars, aclVars, boundVars
<1>8. ASSUME NEW s \in Scopes, LeaveScope(w, s)
      PROVE  TypeOK'
  BY <1>8 DEF LeaveScope, TypeOK, dbVars, aclVars, clientVars, boundVars
<1> QED
  BY <1>2, <1>3, <1>4, <1>5, <1>6, <1>7, <1>8

LEMMA TypeSteps ==
  ASSUME TypeOK, Logged, [Next]_vars
  PROVE  TypeOK'
<1>1. CASE UNCHANGED vars
  BY <1>1 DEF vars, TypeOK
<1>2. ASSUME NEW t \in Targets, LeaseExpires(t)
      PROVE  TypeOK'
  BY <1>2
     DEF LeaseExpires, TypeOK, aclVars, socketVars, clientVars, boundVars
<1>3. CASE Crash
  <2>1. crashes' \in 0..MaxCrashes
    BY <1>3, SizesAssumption DEF Crash, TypeOK
  <2> QED
    BY <1>3, <2>1 DEF Crash, TypeOK, dbVars, aclVars, clientVars
<1>4. ASSUME NEW g \in Grants, SetAcl(g)
      PROVE  TypeOK'
  <2>1. admins' \in 0..MaxAdmin
    BY <1>4, SizesAssumption DEF SetAcl, TypeOK
  <2>2. g.target \in Targets /\ g.account \in Accounts /\ g.role \in Roles
    BY GrantsAssumption
  <2>3. role' \in [Targets -> [Accounts -> Roles]]
    BY <1>4, <2>2 DEF SetAcl, TypeOK
  <2> QED
    BY <1>4, <2>1, <2>3 DEF SetAcl, TypeOK, dbVars, socketVars, clientVars
<1>5. ASSUME NEW v \in Values, Moderate(v)
      PROVE  TypeOK'
  <2>1. admins' \in 0..MaxAdmin
    BY <1>5, SizesAssumption DEF Moderate, TypeOK
  <2> QED
    BY <1>5, <2>1 DEF Moderate, TypeOK, dbVars, socketVars, clientVars
<1> QED
  BY <1>1, <1>2, <1>3, <1>4, <1>5, Steps, CallTypes, SocketTypes, Zenon

----------------------------------------------------------------------------
(* The outbox. *)
LEMMA Grown ==
  ASSUME TypeOK, NEW r \in Requests, Write(r),
         NEW k, k = Len(outbox) + 1
  PROVE  /\ k \in Nat /\ k \notin DOMAIN outbox /\ Len(outbox') = k
         /\ DOMAIN outbox' = DOMAIN outbox \cup {k}
         /\ \A n \in DOMAIN outbox : outbox'[n] = outbox[n] /\ n < k /\ n \in Nat
         /\ outbox'[k] = EventOf(r)
<1>1. EventOf(r) \in Event
  BY NewEvent
<1>2. Len(outbox) \in Nat /\ DOMAIN outbox = 1..Len(outbox)
  BY DEF TypeOK
<1>3. outbox' = Append(outbox, EventOf(r))
  BY DEF Write
<1>4. Len(outbox') = k /\ DOMAIN outbox' = 1..k
  BY <1>1, <1>3 DEF TypeOK
<1>5. \A n \in DOMAIN outbox : outbox'[n] = outbox[n]
  BY <1>1, <1>3 DEF TypeOK
<1>6. outbox'[k] = EventOf(r)
  BY <1>1, <1>3 DEF TypeOK
<1> QED
  BY <1>2, <1>4, <1>5, <1>6

LEMMA OutboxSteps ==
  ASSUME [Next]_vars
  PROVE  \/ \E c \in Calls, r \in Requests :
              Update(c, r) \/ PutEntity(c, r)
         \/ UNCHANGED <<state, outbox, answered>>
<1>1. CASE UNCHANGED vars
  BY <1>1 DEF vars
<1>2. CASE Next
  BY <1>2, Steps
     DEF Replay, Refuse, Announce, Connect, Close, Forward, Lag, Recover,
         JoinScope, LeaveScope, LeaseExpires, Crash, SetAcl, Moderate, dbVars
<1> QED
  BY <1>1, <1>2

LEMMA Writes ==
  ASSUME NEW c \in Calls, NEW r \in Requests, Update(c, r) \/ PutEntity(c, r)
  PROVE  Write(r)
BY DEF Update, PutEntity

LEMMA RowsStay ==
  ASSUME TypeOK, [Next]_vars
  PROVE  /\ \A n \in DOMAIN outbox : n \in DOMAIN outbox' /\ outbox'[n] = outbox[n]
         /\ Len(outbox) \in Nat /\ Len(outbox') \in Nat
         /\ Len(outbox) <= Len(outbox')
         /\ \A i \in Items : /\ state[i].revision \in Nat
                             /\ state'[i].revision \in Nat
                             /\ state[i].revision <= state'[i].revision
<1>1. Len(outbox) \in Nat /\ \A i \in Items : state[i].revision \in Nat
  BY DEF TypeOK
<1>2. CASE UNCHANGED <<state, outbox, answered>>
  BY <1>1, <1>2
<1>3. ASSUME NEW c \in Calls, NEW r \in Requests,
             Update(c, r) \/ PutEntity(c, r)
      PROVE  /\ \A n \in DOMAIN outbox :
                  n \in DOMAIN outbox' /\ outbox'[n] = outbox[n]
             /\ Len(outbox') \in Nat
             /\ Len(outbox) <= Len(outbox')
             /\ \A i \in Items : /\ state'[i].revision \in Nat
                                 /\ state[i].revision <= state'[i].revision
  <2>1. Write(r)
    BY <1>3, Writes
  <2>2. \A i \in Items : state'[i].revision \in Nat
                           /\ state[i].revision <= state'[i].revision
    BY <1>1, <2>1, NewEvent, Requested DEF Write, TypeOK
  <2> DEFINE k == Len(outbox) + 1
  <2>3. /\ Len(outbox') = k
        /\ DOMAIN outbox' = DOMAIN outbox \cup {k}
        /\ \A n \in DOMAIN outbox : outbox'[n] = outbox[n]
    BY <2>1, Grown
  <2> QED
    BY <1>1, <2>2, <2>3
<1> QED
  BY <1>1, <1>2, <1>3, OutboxSteps

(* A row's revision counts the rows of its item up to it.                     *)
LEMMA RowRevisions ==
  ASSUME TypeOK, OutboxIsHistory
  PROVE  \A n \in DOMAIN outbox :
           /\ ItemOf(outbox[n].request) \in Items
           /\ outbox[n].revision \in Nat
           /\ outbox[n].revision <= state[ItemOf(outbox[n].request)].revision
<1>1. IsFiniteSet(DOMAIN outbox)
  BY FS_Interval DEF TypeOK
<1> TAKE n \in DOMAIN outbox
<1> DEFINE i == ItemOf(outbox[n].request)
           upTo == {m \in RowsOf(i) : m <= n}
<1>2. outbox[n] \in Event
  BY DEF TypeOK
<1>3. i \in Items /\ outbox[n].revision \in Nat
  BY <1>2, Events
<1>4. n \in RowsOf(i)
  BY DEF RowsOf
<1>5. /\ outbox[n].revision = Cardinality(upTo)
      /\ Cardinality(RowsOf(i)) = state[i].revision
  BY <1>3, <1>4 DEF OutboxIsHistory
<1>6. upTo \subseteq RowsOf(i) /\ RowsOf(i) \subseteq DOMAIN outbox
  BY DEF RowsOf
<1> HIDE DEF upTo
<1>7. IsFiniteSet(RowsOf(i))
  BY <1>1, <1>6, Part
<1>8. Cardinality(upTo) <= Cardinality(RowsOf(i))
  BY <1>6, <1>7, Part
<1> QED
  BY <1>3, <1>5, <1>8

LEMMA HistoryGrows ==
  ASSUME TypeOK, OutboxIsHistory, NEW r \in Requests, Write(r)
  PROVE  OutboxIsHistory'
<1> DEFINE k == Len(outbox) + 1
           j == ItemOf(r)
<1>1. /\ k \in Nat /\ k \notin DOMAIN outbox
      /\ DOMAIN outbox' = DOMAIN outbox \cup {k}
      /\ \A n \in DOMAIN outbox : outbox'[n] = outbox[n] /\ n < k /\ n \in Nat
      /\ outbox'[k] = EventOf(r)
  BY Grown
<1>2. /\ EventOf(r).request = r /\ j \in Items /\ state[j].revision \in Nat
      /\ EventOf(r).revision = state[j].revision + 1
  BY NewEvent, Requested
<1>3. /\ state'[j] = [revision |-> EventOf(r).revision, value |-> r.value]
      /\ \A i \in Items \ {j} : state'[i] = state[i]
  BY <1>2 DEF Write, TypeOK
<1> HIDE DEF k, j
<1>4. /\ RowsOf(j)' = RowsOf(j) \cup {k}
      /\ \A i \in Items \ {j} : RowsOf(i)' = RowsOf(i)
  <2>1. \A n \in DOMAIN outbox : \A i : n \in RowsOf(i)' <=> n \in RowsOf(i)
    BY <1>1 DEF RowsOf
  <2>2. \A i : k \in RowsOf(i)' <=> i = j
    BY <1>1, <1>2 DEF RowsOf, j
  <2>3. \A i : RowsOf(i)' \subseteq DOMAIN outbox \cup {k}
    BY <1>1 DEF RowsOf
  <2>4. \A i : RowsOf(i) \subseteq DOMAIN outbox
    BY DEF RowsOf
  <2>5. \A n : n \in RowsOf(j)' <=> n \in RowsOf(j) \cup {k}
    BY <2>1, <2>2, <2>3, <2>4
  <2>6. \A i \in Items \ {j} : \A n : n \in RowsOf(i)' <=> n \in RowsOf(i)
    BY <1>1, <2>1, <2>2, <2>3, <2>4
  <2>7. RowsOf(j)' = RowsOf(j) \cup {k}
    BY <2>5
  <2>8. ASSUME NEW i \in Items \ {j}
        PROVE  RowsOf(i)' = RowsOf(i)
    BY <2>6
  <2> QED
    BY <2>7, <2>8
<1>5. /\ IsFiniteSet(RowsOf(j)) /\ RowsOf(j) \subseteq DOMAIN outbox
      /\ k \notin RowsOf(j)
  <2>1. IsFiniteSet(DOMAIN outbox)
    BY FS_Interval DEF TypeOK
  <2>2. RowsOf(j) \subseteq DOMAIN outbox
    BY DEF RowsOf
  <2> QED
    BY <1>1, <2>1, <2>2, Part
<1>6. Cardinality(RowsOf(j)') = state[j].revision + 1
  <2>1. Cardinality(RowsOf(j) \cup {k}) = Cardinality(RowsOf(j)) + 1
    BY <1>5, FS_AddElement
  <2>2. Cardinality(RowsOf(j)) = state[j].revision
    BY <1>2 DEF OutboxIsHistory
  <2> QED
    BY <1>4, <2>1, <2>2
<1>7. ASSUME NEW i \in Items
      PROVE  /\ Cardinality(RowsOf(i)') = state'[i].revision
             /\ \A n \in RowsOf(i)' :
                  outbox'[n].revision = Cardinality({m \in RowsOf(i)' : m <= n})
             /\ \A n \in RowsOf(i)' :
                  outbox'[n].revision = state'[i].revision =>
                    outbox'[n].request.value = state'[i].value
  <2>1. CASE i # j
    <3>1. RowsOf(i)' = RowsOf(i) /\ state'[i] = state[i]
      BY <1>3, <1>4, <2>1
    <3>2. \A n \in RowsOf(i) : outbox'[n] = outbox[n]
      BY <1>1 DEF RowsOf
    <3> QED
      BY <3>1, <3>2 DEF OutboxIsHistory
  <2>2. CASE i = j
    <3>1. ASSUME NEW n \in RowsOf(j)
          PROVE  /\ outbox'[n].revision = Cardinality({m \in RowsOf(j)' : m <= n})
                 /\ outbox'[n].revision # state'[j].revision
      <4>1. n \in DOMAIN outbox /\ outbox'[n] = outbox[n] /\ n < k /\ n \in Nat
        BY <1>1, <1>5
      <4>2. {m \in RowsOf(j)' : m <= n} = {m \in RowsOf(j) : m <= n}
        BY <1>1, <1>4, <4>1
      <4>3. outbox[n].revision = Cardinality({m \in RowsOf(j) : m <= n})
        BY <1>2 DEF OutboxIsHistory
      <4>4. ItemOf(outbox[n].request) = j
        BY DEF RowsOf
      <4>5. outbox[n].revision <= state[j].revision
            /\ outbox[n].revision \in Nat
        BY <4>1, <4>4, RowRevisions
      <4>6. state'[j].revision = state[j].revision + 1
        BY <1>2, <1>3
      <4>7. outbox'[n].revision = Cardinality({m \in RowsOf(j)' : m <= n})
        BY <4>1, <4>2, <4>3, Zenon
      <4>8. outbox'[n].revision # state'[j].revision
        BY <1>2, <4>1, <4>5, <4>6
      <4> QED
        BY <4>7, <4>8
    <3>2. {m \in RowsOf(j)' : m <= k} = RowsOf(j)'
      <4>1. \A m \in RowsOf(j)' : m <= k
        BY <1>1, <1>4, <1>5
      <4> QED
        BY <4>1
    <3>3. /\ outbox'[k].revision = Cardinality({m \in RowsOf(j)' : m <= k})
          /\ outbox'[k].request.value = state'[j].value
      <4>1. outbox'[k].revision = Cardinality(RowsOf(j)')
        BY <1>1, <1>2, <1>6
      <4>2. outbox'[k].request.value = state'[j].value
        BY <1>1, <1>2, <1>3
      <4> QED
        BY <3>2, <4>1, <4>2, Zenon
    <3>4. Cardinality(RowsOf(j)') = state'[j].revision
      BY <1>2, <1>3, <1>6
    <3> QED
      BY <1>4, <2>2, <3>1, <3>3, <3>4
  <2> QED
    BY <2>1, <2>2
<1> QED
  BY <1>7 DEF OutboxIsHistory

LEMMA EffectsOfUpdate ==
  ASSUME TypeOK, OneEffectPerRequest, NEW c \in Calls, NEW r \in Requests,
         Update(c, r)
  PROVE  OneEffectPerRequest'
<1> DEFINE k == Len(outbox) + 1
<1>1. /\ k \in Nat /\ k \notin DOMAIN outbox
      /\ DOMAIN outbox' = DOMAIN outbox \cup {k}
      /\ \A n \in DOMAIN outbox : outbox'[n] = outbox[n]
      /\ outbox'[k] = EventOf(r)
  BY Grown DEF Update
<1>2. EventOf(r).request = r /\ EventOf(r) \in Event
  BY NewEvent
<1>3. /\ answered'[KeyOf(r)] = EventOf(r)
      /\ \A q \in (Accounts \X Ids) \ {KeyOf(r)} : answered'[q] = answered[q]
  BY Requested DEF Update, TypeOK
<1>4. answered[KeyOf(r)] = None /\ r.via = "update"
  BY DEF Update, Answer
<1> HIDE DEF k
<1>5. \A n \in DOMAIN outbox :
        /\ outbox[n] \in Event /\ outbox[n] # None
        /\ KeyOf(outbox[n].request) \in Accounts \X Ids
  BY Events DEF TypeOK
<1>6. \A n \in DOMAIN outbox :
        outbox[n].request.via = "update" => KeyOf(outbox[n].request) # KeyOf(r)
  BY <1>4, <1>5 DEF OneEffectPerRequest
<1>7. \A n \in DOMAIN outbox : outbox[n] # EventOf(r)
  BY <1>2, <1>4, <1>6
<1>8. ASSUME NEW n \in DOMAIN outbox', outbox'[n].request.via = "update"
      PROVE  /\ answered'[KeyOf(outbox'[n].request)] = outbox'[n]
             /\ \A m \in DOMAIN outbox' : outbox'[m] = outbox'[n] => m = n
  <2>1. CASE n = k
    BY <1>1, <1>2, <1>3, <1>7, <2>1
  <2>2. CASE n \in DOMAIN outbox
    BY <1>1, <1>3, <1>5, <1>6, <1>7, <1>8, <2>2 DEF OneEffectPerRequest
  <2> QED
    BY <1>1, <2>1, <2>2
<1> QED
  BY <1>8 DEF OneEffectPerRequest

LEMMA EffectsOfEntity ==
  ASSUME TypeOK, OneEffectPerRequest, NEW c \in Calls, NEW r \in Requests,
         PutEntity(c, r)
  PROVE  OneEffectPerRequest'
<1> DEFINE k == Len(outbox) + 1
<1>1. /\ DOMAIN outbox' = DOMAIN outbox \cup {k}
      /\ \A n \in DOMAIN outbox : outbox'[n] = outbox[n]
      /\ outbox'[k] = EventOf(r)
  BY Grown DEF PutEntity
<1>2. outbox'[k].request.via = "entity" /\ answered' = answered
  BY <1>1, NewEvent DEF PutEntity
<1> HIDE DEF k
<1> QED
  BY <1>1, <1>2 DEF OneEffectPerRequest

LEMMA HistorySteps ==
  ASSUME TypeOK, HistoryInv, [Next]_vars
  PROVE  HistoryInv'
<1>1. CASE UNCHANGED <<state, outbox, answered>>
  BY <1>1 DEF HistoryInv, OutboxIsHistory, OneEffectPerRequest, RowsOf
<1> QED
  BY <1>1, OutboxSteps, Writes, HistoryGrows, EffectsOfUpdate, EffectsOfEntity
     DEF HistoryInv

----------------------------------------------------------------------------
(* The calls and the channel. *)
LEMMA NewRow ==
  ASSUME TypeOK, NEW r \in Requests, Write(r)
  PROVE  EventOf(r) \in Log'
<1> DEFINE k == Len(outbox) + 1
<1>1. k \in DOMAIN outbox' /\ outbox'[k] = EventOf(r)
  BY Grown
<1> QED
  BY <1>1 DEF Log

LEMMA LoggedSteps ==
  ASSUME TypeOK, Logged, [Next]_vars
  PROVE  Logged'
<1>1. Log \subseteq Log'
  BY RowsStay DEF Log
<1>2. \A k \in Accounts \X Ids : answered'[k] # None => answered'[k] \in Log'
  <2>1. ASSUME NEW c \in Calls, NEW r \in Requests, Update(c, r),
               NEW k \in Accounts \X Ids, answered'[k] # None
        PROVE  answered'[k] \in Log'
    <3>1. EventOf(r) \in Log'
      BY <2>1, NewRow, Writes
    <3>2. answered'[k] = answered[k] \/ answered'[k] = EventOf(r)
      BY <2>1 DEF Update, TypeOK
    <3> QED
      BY <1>1, <2>1, <3>1, <3>2 DEF Logged
  <2>2. CASE answered' = answered
    BY <1>1, <2>2 DEF Logged
  <2> QED
    BY <2>1, <2>2, OutboxSteps DEF PutEntity
<1>3. \A c \in Calls : pc'[c] = "committed" => reply'[c] \in Log'
  <2>1. ASSUME NEW d \in Calls, NEW r \in Requests, Update(d, r),
               NEW c \in Calls, pc'[c] = "committed"
        PROVE  reply'[c] \in Log'
    <3>1. EventOf(r) \in Log'
      BY <2>1, NewRow, Writes
    <3>2. CASE c = d
      BY <2>1, <3>1, <3>2 DEF Update, TypeOK
    <3>3. CASE c # d
      BY <1>1, <2>1, <3>3 DEF Update, TypeOK, Logged
    <3> QED
      BY <3>2, <3>3
  <2>2. ASSUME NEW d \in Calls, NEW r \in Requests, Replay(d, r),
               NEW c \in Calls, pc'[c] = "committed"
        PROVE  reply'[c] \in Log'
    <3>1. Answer(r) \in Log
      BY <2>2, Requested DEF Replay, Answer, Logged
    <3>2. CASE c = d
      BY <1>1, <2>2, <3>1, <3>2 DEF Replay, TypeOK
    <3>3. CASE c # d
      BY <1>1, <2>2, <3>3 DEF Replay, TypeOK, Logged
    <3> QED
      BY <3>2, <3>3
  <2>3. CASE \A c \in Calls : pc'[c] = "committed" =>
               pc[c] = "committed" /\ reply'[c] = reply[c]
    BY <1>1, <2>3 DEF Logged
  <2>4. ASSUME NEW d \in Calls, NEW r \in Requests,
               PutEntity(d, r) \/ Refuse(d, r)
        PROVE  \A c \in Calls : pc'[c] = "committed" =>
                 pc[c] = "committed" /\ reply'[c] = reply[c]
    BY <2>4 DEF PutEntity, Refuse, TypeOK
  <2>5. ASSUME NEW d \in Calls, Announce(d)
        PROVE  \A c \in Calls : pc'[c] = "committed" =>
                 pc[c] = "committed" /\ reply'[c] = reply[c]
    BY <2>5 DEF Announce, TypeOK
  <2>6. ASSUME Crash
        PROVE  \A c \in Calls : pc'[c] = "committed" =>
                 pc[c] = "committed" /\ reply'[c] = reply[c]
    BY <2>6 DEF Crash, TypeOK
  <2>7. CASE UNCHANGED <<pc, reply>>
    BY <2>3, <2>7
  <2>8. CASE UNCHANGED vars
    BY <2>7, <2>8 DEF vars
  <2>9. CASE Next
    BY <2>1, <2>2, <2>3, <2>4, <2>5, <2>6, <2>7, <2>9, Steps
       DEF Connect, Close, Forward, Lag, Recover, JoinScope, LeaveScope,
           LeaseExpires, SetAcl, Moderate
  <2> QED
    BY <2>8, <2>9
<1>4. \A m \in DOMAIN sent' : sent'[m] \in Log'
  <2>1. ASSUME NEW c \in Calls, Announce(c), NEW m \in DOMAIN sent'
        PROVE  sent'[m] \in Log'
    <3>1. reply[c] \in Log
      BY <2>1 DEF Announce, Logged
    <3>2. reply[c] \in Event
      BY <3>1 DEF TypeOK, Log
    <3>3. \/ m \in DOMAIN sent /\ sent'[m] = sent[m]
          \/ sent'[m] = reply[c]
      BY <2>1, <3>2 DEF Announce, TypeOK
    <3> QED
      BY <1>1, <3>1, <3>3 DEF Logged
  <2>2. CASE sent' = sent
    BY <1>1, <2>2 DEF Logged
  <2>3. CASE Crash
    BY <2>3 DEF Crash
  <2>4. CASE UNCHANGED vars
    BY <2>2, <2>4 DEF vars
  <2>5. CASE Next
    BY <2>1, <2>2, <2>3, <2>5, Steps
       DEF Update, Replay, PutEntity, Refuse, Connect, Close, Forward, Lag,
           Recover, JoinScope, LeaveScope, LeaseExpires, SetAcl, Moderate
  <2> QED
    BY <2>4, <2>5
<1> QED
  BY <1>2, <1>3, <1>4 DEF Logged

(* The channel grows, but for a crash. *)
LEMMA Announced ==
  ASSUME TypeOK, Logged, NEW c \in Calls, Announce(c),
         NEW k, k = Len(sent) + 1
  PROVE  /\ k \in Nat /\ Len(sent') = k /\ k \in DOMAIN sent'
         /\ sent'[k] = reply[c]
         /\ \A m \in DOMAIN sent : m \in DOMAIN sent' /\ sent'[m] = sent[m]
<1>1. reply[c] \in Event
  BY DEF Announce, Logged, Log, TypeOK
<1> QED
  BY <1>1 DEF Announce, TypeOK

----------------------------------------------------------------------------
(* The sockets and the clients. *)
LEMMA ViewSteps ==
  ASSUME [Next]_vars
  PROVE  \/ \E w \in Watchers : Forward(w)
         \/ \E w \in Watchers : Recover(w)
         \/ UNCHANGED <<view, cursor>>
<1>1. CASE UNCHANGED vars
  BY <1>1 DEF vars
<1>2. CASE Next
  BY <1>2, Steps
     DEF Update, Replay, PutEntity, Refuse, Announce, Connect, Close, Lag,
         JoinScope, LeaveScope, LeaseExpires, Crash, SetAcl, Moderate,
         clientVars
<1> QED
  BY <1>1, <1>2

LEMMA Forwarded ==
  ASSUME TypeOK, NEW w \in Watchers, Forward(w),
         NEW e, e = sent[pos[w] + 1]
  PROVE  /\ e \in Event
         /\ cursor' = cursor
         /\ \A v \in Watchers \ {w} : view'[v] = view[v]
         /\ \A i \in Items :
              \/ view'[w][i] = view[w][i]
              \/ /\ i = ItemOf(e.request) /\ view'[w][i] = e.revision
                 /\ e.revision > view[w][i]
         /\ Concerns(w, e) /\ MaySee(w, e) =>
              view'[w][ItemOf(e.request)] >= e.revision
         /\ view' \in [Watchers -> [Items -> Nat]]
<1>1. e \in Event
  BY Next1
<1>2. ItemOf(e.request) \in Items /\ e.revision \in Nat
  BY <1>1, Events
<1>3. view' = IF Concerns(w, e) /\ MaySee(w, e) THEN Shown(w, e) ELSE view
  BY DEF Forward
<1>4. view \in [Watchers -> [Items -> Nat]]
  BY DEF TypeOK
<1>5. cursor' = cursor
  BY DEF Forward
<1>6. CASE Concerns(w, e) /\ MaySee(w, e)
  <2>1. view' = [view EXCEPT ![w][ItemOf(e.request)] =
                   Later(view[w][ItemOf(e.request)], e.revision)]
    BY <1>3, <1>6 DEF Shown
  <2> DEFINE j == ItemOf(e.request)
             x == Later(view[w][j], e.revision)
  <2>2. /\ x \in Nat /\ x >= e.revision
        /\ x = view[w][j] \/ (x = e.revision /\ e.revision > view[w][j])
    BY <1>2, <1>4 DEF Later
  <2> HIDE DEF x, j
  <2>3. /\ \A v \in Watchers \ {w} : view'[v] = view[v]
        /\ \A i \in Items : view'[w][i] = IF i = j THEN x ELSE view[w][i]
    BY <1>2, <1>4, <2>1 DEF x, j
  <2>4. view' \in [Watchers -> [Items -> Nat]]
    BY <1>2, <1>4, <2>1, <2>2 DEF x, j
  <2>5. j \in Items /\ j = ItemOf(e.request)
    BY <1>2 DEF j
  <2> QED
    BY <1>1, <1>5, <2>2, <2>3, <2>4, <2>5
<1>7. CASE ~(Concerns(w, e) /\ MaySee(w, e))
  BY <1>1, <1>3, <1>4, <1>5, <1>7
<1> QED
  BY <1>6, <1>7

LEMMA ViewGrows ==
  ASSUME TypeOK, [Next]_vars, NEW w \in Watchers, NEW i \in Items
  PROVE  /\ view[w][i] \in Nat /\ view'[w][i] \in Nat
         /\ view[w][i] <= view'[w][i]
<1>1. view[w][i] \in Nat
  BY DEF TypeOK
<1>2. ASSUME NEW v \in Watchers, Forward(v)
      PROVE  view'[w][i] \in Nat /\ view[w][i] <= view'[w][i]
  <2> DEFINE e == sent[pos[v] + 1]
  <2>1. /\ e \in Event
        /\ v # w => view'[w] = view[w]
        /\ v = w => \/ view'[w][i] = view[w][i]
                    \/ view'[w][i] = e.revision /\ e.revision > view[w][i]
    BY <1>2, Forwarded
  <2>2. e.revision \in Nat
    BY <2>1, Events
  <2> QED
    BY <1>1, <2>1, <2>2
<1>3. ASSUME NEW v \in Watchers, Recover(v)
      PROVE  view'[w][i] \in Nat /\ view[w][i] <= view'[w][i]
  <2>1. /\ v # w => view'[w] = view[w]
        /\ v = w => view'[w][i] \in Nat /\ view'[w][i] >= view[w][i]
    BY <1>3, Learnt
  <2> QED
    BY <1>1, <2>1
<1> QED
  BY <1>1, <1>2, <1>3, ViewSteps

(* What was known stays known. *)
LEMMA KnowledgeStays ==
  ASSUME TypeOK, [Next]_vars, NEW w \in Watchers, NEW n \in DOMAIN outbox,
         Known(w, n)
  PROVE  Known(w, n)'
<1>1. outbox'[n] = outbox[n]
  BY RowsStay
<1>2. outbox[n] \in Event
  BY DEF TypeOK
<1>3. ItemOf(outbox[n].request) \in Items /\ outbox[n].revision \in Nat
  BY <1>2, Events
<1> DEFINE i == ItemOf(outbox[n].request)
<1>4. /\ view[w][i] \in Nat /\ view'[w][i] \in Nat
      /\ view[w][i] <= view'[w][i]
  BY <1>3, ViewGrows
<1>5. outbox[n].revision <= view[w][i]
  BY DEF Known
<1>6. outbox[n].revision <= view'[w][i]
  BY <1>3, <1>4, <1>5
<1> QED
  BY <1>1, <1>6 DEF Known

LEMMA PhantomSteps ==
  ASSUME TypeOK, OutboxIsHistory, Logged, NoPhantoms, [Next]_vars
  PROVE  NoPhantoms'
<1> SUFFICES ASSUME NEW w \in Watchers, NEW i \in Items
             PROVE  view'[w][i] <= state'[i].revision
  BY DEF NoPhantoms
<1>1. /\ state[i].revision \in Nat /\ state'[i].revision \in Nat
      /\ state[i].revision <= state'[i].revision
      /\ view[w][i] \in Nat /\ view[w][i] <= state[i].revision
  BY RowsStay, ViewGrows DEF NoPhantoms
<1>2. CASE view'[w][i] = view[w][i]
  BY <1>1, <1>2
<1>3. ASSUME NEW n \in DOMAIN outbox, ItemOf(outbox[n].request) = i,
             view'[w][i] = outbox[n].revision
      PROVE  view'[w][i] <= state'[i].revision
  BY <1>1, <1>3, RowRevisions
<1>4. ASSUME NEW v \in Watchers, Forward(v)
      PROVE  view'[w][i] <= state'[i].revision
  <2> DEFINE e == sent[pos[v] + 1]
  <2>1. e \in Log
    BY <1>4, Next1 DEF Logged
  <2>2. PICK n \in DOMAIN outbox : outbox[n] = e
    BY <2>1 DEF Log
  <2>3. /\ v # w => view'[w] = view[w]
        /\ v = w => \/ view'[w][i] = view[w][i]
                    \/ i = ItemOf(e.request) /\ view'[w][i] = e.revision
    BY <1>4, Forwarded
  <2> QED
    BY <1>2, <1>3, <2>2, <2>3
<1>5. ASSUME NEW v \in Watchers, Recover(v)
      PROVE  view'[w][i] <= state'[i].revision
  <2> DEFINE p == Page(joined[v], cursor[v][joined[v]])
  <2>1. /\ p \subseteq DOMAIN outbox
        /\ v # w => view'[w] = view[w]
        /\ v = w => \/ view'[w][i] = view[w][i]
                    \/ \E n \in p : /\ ItemOf(outbox[n].request) = i
                                    /\ view'[w][i] = outbox[n].revision
    BY <1>5, Learnt
  <2> HIDE DEF p
  <2> QED
    BY <1>2, <1>3, <2>1
<1> QED
  BY <1>2, <1>4, <1>5, ViewSteps

LEMMA ChannelSteps ==
  ASSUME TypeOK, Logged, InChannel, [Next]_vars
  PROVE  InChannel'
<1>1. Len(sent) \in Nat /\ \A w \in Watchers : pos[w] \in Nat
  BY DEF TypeOK
<1>2. CASE UNCHANGED <<sent, pos>>
  BY <1>2 DEF InChannel
<1>3. ASSUME NEW c \in Calls, Announce(c)
      PROVE  InChannel'
  <2> DEFINE k == Len(sent) + 1
  <2>1. Len(sent') = k /\ pos' = pos
    BY <1>3, Announced DEF Announce, socketVars
  <2> QED
    BY <1>1, <2>1 DEF InChannel
<1>4. ASSUME NEW w \in Watchers, Connect(w)
      PROVE  InChannel'
  BY <1>1, <1>4 DEF Connect, InChannel, TypeOK
<1>5. ASSUME NEW w \in Watchers, Forward(w)
      PROVE  InChannel'
  <2>1. pos[w] + 1 \in 1..Len(sent) /\ sent' = sent
        /\ pos' = [pos EXCEPT ![w] = pos[w] + 1]
    BY <1>5, Next1 DEF Forward
  <2> QED
    BY <1>1, <2>1 DEF InChannel, TypeOK
<1>6. ASSUME NEW w \in Watchers, Lag(w)
      PROVE  InChannel'
  BY <1>1, <1>6, SizesAssumption DEF Lag, InChannel, TypeOK
<1>7. CASE Crash
  BY <1>7 DEF Crash, InChannel
<1>8. CASE UNCHANGED vars
  BY <1>2, <1>8 DEF vars
<1>9. CASE Next
  BY <1>2, <1>3, <1>4, <1>5, <1>6, <1>7, <1>9, Steps
     DEF Update, Replay, PutEntity, Refuse, Close, Recover, JoinScope,
         LeaveScope, LeaseExpires, SetAcl, Moderate, socketVars
<1> QED
  BY <1>8, <1>9

LEMMA RoleSteps ==
  ASSUME TypeOK, RolesKept, [Next]_vars
  PROVE  RolesKept'
<1>1. CASE UNCHANGED role
  BY <1>1 DEF RolesKept
<1>2. ASSUME NEW g \in Grants, SetAcl(g)
      PROVE  RolesKept'
  <2>1. g.target \in Targets /\ g.account \in Accounts /\ g.role # "none"
    BY GrantsAssumption
  <2>2. role' = [role EXCEPT ![g.target][g.account] = g.role]
    BY <1>2 DEF SetAcl
  <2> QED
    BY <2>1, <2>2 DEF RolesKept, TypeOK
<1>3. CASE UNCHANGED vars
  BY <1>1, <1>3 DEF vars
<1>4. CASE Next
  BY <1>1, <1>2, <1>4, Steps
     DEF Update, Replay, PutEntity, Refuse, Announce, Connect, Close, Forward,
         Lag, Recover, JoinScope, LeaveScope, LeaseExpires, Crash, Moderate,
         aclVars
<1> QED
  BY <1>3, <1>4

(* A cursor stays within the outbox, and what it passes is known: the page    *)
(* has every row of the scope up to the new cursor.                           *)
LEMMA CursorSteps ==
  ASSUME TypeOK, CursorKnown, CursorFits, [Next]_vars
  PROVE  CursorKnown' /\ CursorFits'
<1>1. /\ \A n \in DOMAIN outbox : n \in DOMAIN outbox' /\ outbox'[n] = outbox[n]
      /\ Len(outbox) \in Nat /\ Len(outbox') \in Nat
      /\ Len(outbox) <= Len(outbox')
  BY RowsStay
<1>2. /\ DOMAIN outbox = 1..Len(outbox)
      /\ \A w \in Watchers, s \in Scopes : cursor[w][s] \in Nat
  BY DEF TypeOK
<1>3. DOMAIN outbox' = 1..Len(outbox')
  <2>1. CASE outbox' = outbox
    BY <1>2, <2>1
  <2>2. ASSUME NEW r \in Requests, Write(r)
        PROVE  DOMAIN outbox' = 1..Len(outbox')
    BY <2>2, WriteTypes
  <2> QED
    BY <2>1, <2>2, OutboxSteps, Writes
<1>4. ASSUME NEW w \in Watchers, NEW s \in Scopes,
             cursor'[w][s] = cursor[w][s]
      PROVE  /\ cursor'[w][s] <= Len(outbox')
             /\ \A n \in DOMAIN outbox' :
                  n <= cursor'[w][s] /\ InScope(s, n)' => Known(w, n)'
  <2>1. cursor[w][s] <= Len(outbox)
    BY DEF CursorFits
  <2>2. ASSUME NEW n \in DOMAIN outbox', n <= cursor'[w][s], InScope(s, n)'
        PROVE  Known(w, n)'
    <3>1. n \in DOMAIN outbox
      BY <1>1, <1>2, <1>3, <1>4, <2>1, <2>2
    <3>2. InScope(s, n)
      BY <1>1, <2>2, <3>1 DEF InScope
    <3>3. Known(w, n)
      BY <1>4, <2>2, <3>1, <3>2 DEF CursorKnown
    <3> QED
      BY <3>1, <3>3, KnowledgeStays
  <2> QED
    BY <1>1, <1>2, <1>4, <2>1, <2>2
<1>5. ASSUME NEW w \in Watchers, Recover(w), NEW v \in Watchers,
             NEW s \in Scopes
      PROVE  /\ cursor'[v][s] <= Len(outbox')
             /\ \A n \in DOMAIN outbox' :
                  n <= cursor'[v][s] /\ InScope(s, n)' => Known(v, n)'
  <2> DEFINE j == joined[w]
             a == cursor[w][j]
             p == Page(j, a)
             b == ToCursor(j, a)
  <2>1. /\ j \in Scopes /\ a \in Nat /\ p \subseteq DOMAIN outbox
        /\ \A n \in p, m \in Rows(j, a) : m <= n => m \in p
        /\ cursor' = [cursor EXCEPT ![w][j] = b]
        /\ b \in p \cup {a}
        /\ \A n \in p : ItemOf(outbox[n].request) \in Items =>
             outbox[n].revision <= view'[w][ItemOf(outbox[n].request)]
    BY <1>5, Learnt
  <2>2. outbox' = outbox
    BY <1>5 DEF Recover, dbVars
  <2> HIDE DEF j, p, b
  <2>3. CASE v = w /\ s = j
    <3>1. cursor'[v][s] = b
      BY <2>1, <2>3 DEF TypeOK
    <3>2. a <= Len(outbox)
      BY <2>1 DEF CursorFits
    <3>3. b <= Len(outbox) /\ b \in Nat
      BY <1>1, <1>2, <2>1, <3>2
    <3>4. ASSUME NEW n \in DOMAIN outbox, n <= b, InScope(s, n)
          PROVE  Known(v, n)'
      <4>1. CASE n <= a
        <5>1. Known(v, n)
          BY <2>1, <2>3, <3>4, <4>1 DEF CursorKnown
        <5> QED
          BY <5>1, KnowledgeStays
      <4>2. CASE ~(n <= a)
        <5>1. n \in Rows(j, a)
          BY <1>2, <2>1, <2>3, <3>4, <4>2 DEF Rows, InScope
        <5>2. n \in p
          BY <1>2, <2>1, <3>4, <4>2, <5>1
        <5>3. ItemOf(outbox[n].request) \in Items
          BY Events DEF TypeOK
        <5> QED
          BY <2>1, <2>2, <2>3, <5>2, <5>3 DEF Known
      <4> QED
        BY <4>1, <4>2
    <3> QED
      BY <2>2, <3>1, <3>3, <3>4 DEF InScope
  <2>4. CASE ~(v = w /\ s = j)
    <3>1. cursor'[v][s] = cursor[v][s]
      BY <2>1, <2>4 DEF TypeOK
    <3> QED
      BY <1>4, <3>1
  <2> QED
    BY <2>3, <2>4
<1>6. ASSUME cursor' = cursor, NEW v \in Watchers, NEW s \in Scopes
      PROVE  /\ cursor'[v][s] <= Len(outbox')
             /\ \A n \in DOMAIN outbox' :
                  n <= cursor'[v][s] /\ InScope(s, n)' => Known(v, n)'
  BY <1>4, <1>6
<1>7. cursor' = cursor \/ \E w \in Watchers : Recover(w)
  BY ViewSteps DEF Forward
<1> QED
  BY <1>5, <1>6, <1>7 DEF CursorKnown, CursorFits

----------------------------------------------------------------------------
(* No change is lost silently. *)
Heard(w, n) == Known(w, n) \/ AboutToBeAnnounced(n) \/ Unheard(w, n)

(* Calls other than an announcement, and steps of other sockets, leave what  *)
(* a watcher has heard or will hear.                                          *)
LEMMA StillHeard ==
  ASSUME TypeOK, [Next]_vars, NEW w \in Watchers, NEW n \in DOMAIN outbox,
         Heard(w, n),
         \A c \in Calls : pc[c] = "committed" =>
           pc'[c] = "committed" /\ reply'[c] = reply[c],
         sent' = sent, pos'[w] = pos[w]
  PROVE  Heard(w, n)'
<1>1. outbox'[n] = outbox[n]
  BY RowsStay
<1>2. CASE Known(w, n)
  BY <1>2, KnowledgeStays DEF Heard
<1>3. CASE AboutToBeAnnounced(n)
  BY <1>1, <1>3 DEF Heard, AboutToBeAnnounced
<1>4. CASE Unheard(w, n)
  BY <1>1, <1>4 DEF Heard, Unheard
<1> QED
  BY <1>2, <1>3, <1>4 DEF Heard

LEMMA ForwardedIsHeard ==
  ASSUME TypeOK, RolesKept, [Next]_vars, NEW w \in Watchers,
         NEW n \in DOMAIN outbox, Heard(w, n), Expects(w, n), Forward(w)
  PROVE  Heard(w, n)'
<1> DEFINE e == sent[pos[w] + 1]
<1>1. outbox' = outbox /\ sent' = sent /\ pc' = pc /\ reply' = reply
  BY DEF Forward, dbVars
<1>2. CASE Known(w, n)
  BY <1>2, KnowledgeStays DEF Heard
<1>3. CASE AboutToBeAnnounced(n)
  BY <1>1, <1>3 DEF Heard, AboutToBeAnnounced
<1>4. ASSUME NEW m \in DOMAIN sent, m > pos[w], sent[m] = outbox[n]
      PROVE  Heard(w, n)'
  <2>1. pos[w] \in Nat /\ m \in Nat /\ pos'[w] = pos[w] + 1
    BY Next1 DEF TypeOK
  <2>2. CASE m = pos[w] + 1
    <3>1. e = outbox[n]
      BY <1>4, <2>2
    <3>2. e \in Event
      BY Next1
    <3>3. Concerns(w, e)
      BY <3>1 DEF Expects
    <3>4. MaySee(w, e)
      BY <3>1, <3>2, Events, RolesAssumption
         DEF Expects, MaySee, RolesKept
    <3>5. view'[w][ItemOf(e.request)] >= e.revision
      BY <3>3, <3>4, Forwarded
    <3>6. view'[w][ItemOf(e.request)] \in Nat /\ e.revision \in Nat
      BY <3>2, Events, Forwarded
    <3>7. e.revision <= view'[w][ItemOf(e.request)]
      BY <3>5, <3>6
    <3> QED
      BY <1>1, <3>1, <3>7 DEF Heard, Known
  <2>3. CASE m # pos[w] + 1
    <3>1. m > pos'[w]
      BY <1>4, <2>1, <2>3
    <3> QED
      BY <1>1, <1>4, <3>1 DEF Heard, Unheard
  <2> QED
    BY <2>2, <2>3
<1> QED
  BY <1>2, <1>3, <1>4 DEF Heard, Unheard

(* The last page leaves no row unknown. *)
LEMMA RecoveredIsHeard ==
  ASSUME TypeOK, CursorKnown, [Next]_vars, NEW w \in Watchers,
         NEW n \in DOMAIN outbox, Concerns(w, outbox[n]), Recover(w),
         w \notin behind'
  PROVE  Heard(w, n)'
<1> DEFINE j == joined[w]
           a == cursor[w][j]
           p == Page(j, a)
<1>1. ~HasMore(j, a)
  BY DEF Recover
<1>2. /\ j \in Scopes /\ a \in Nat
      /\ p = Rows(j, a)
      /\ \A i \in Items : \A m \in p : ItemOf(outbox[m].request) = i =>
           outbox[m].revision <= view'[w][i]
  BY <1>1, Learnt
<1>3. outbox' = outbox
  BY DEF Recover, dbVars
<1>4. InScope(j, n)
  BY DEF Concerns, InScope
<1>5. n \in Nat
  BY DEF TypeOK
<1> HIDE DEF j, p
<1>6. CASE n <= a
  <2>1. Known(w, n)
    BY <1>2, <1>4, <1>6 DEF CursorKnown
  <2> QED
    BY <2>1, KnowledgeStays DEF Heard
<1>7. CASE ~(n <= a)
  <2>1. n \in p
    BY <1>2, <1>4, <1>5, <1>7 DEF Rows, InScope
  <2>2. ItemOf(outbox[n].request) \in Items
    BY Events DEF TypeOK
  <2> QED
    BY <1>2, <1>3, <2>1, <2>2 DEF Heard, Known
<1> QED
  BY <1>6, <1>7

LEMMA LossSteps ==
  ASSUME SyncInv, [Next]_vars, NEW w \in Watchers, w \notin behind',
         NEW n \in DOMAIN outbox', Expects(w, n)'
  PROVE  Heard(w, n)'
<1> USE DEF SyncInv, ClientInv
<1>1. /\ n \in DOMAIN outbox => outbox'[n] = outbox[n]
      /\ outbox'[n] \in Event
  <2>1. n \in DOMAIN outbox => outbox'[n] = outbox[n]
    BY RowsStay
  <2>2. TypeOK'
    BY TypeSteps
  <2>3. outbox'[n] \in Event
    BY <2>2 DEF TypeOK
  <2> QED
    BY <2>1, <2>3
<1>2. joined'[w] \in Scopes /\ joined'[w] # None
  <2>1. outbox'[n].request.target \in Targets
    BY <1>1, Events
  <2> QED
    BY <2>1, ScopesAssumption DEF Expects, Concerns
<1>3. ASSUME n \in DOMAIN outbox, joined'[w] = joined[w], w \notin behind
      PROVE  Heard(w, n) /\ Expects(w, n)
  <2>1. Expects(w, n)
    BY <1>1, <1>3 DEF Expects, Concerns
  <2> QED
    BY <1>3, <2>1 DEF NothingUnheard, Heard
<1>4. CASE /\ outbox' = outbox /\ joined'[w] = joined[w] /\ behind' = behind
           /\ \A c \in Calls : pc[c] = "committed" =>
                pc'[c] = "committed" /\ reply'[c] = reply[c]
           /\ sent' = sent /\ pos'[w] = pos[w]
  BY <1>3, <1>4, StillHeard
<1>5. ASSUME NEW c \in Calls, NEW r \in Requests, Update(c, r)
      PROVE  Heard(w, n)'
  <2> DEFINE k == Len(outbox) + 1
  <2>1. /\ DOMAIN outbox' = DOMAIN outbox \cup {k}
        /\ outbox'[k] = EventOf(r)
    BY <1>5, Grown, Writes
  <2> HIDE DEF k
  <2>2. CASE n = k
    <3>1. pc'[c] = "committed" /\ reply'[c] = EventOf(r)
      BY <1>5 DEF Update, TypeOK
    <3> QED
      BY <2>1, <2>2, <3>1 DEF Heard, AboutToBeAnnounced
  <2>3. CASE n \in DOMAIN outbox
    <3>1. /\ \A d \in Calls : pc[d] = "committed" =>
               pc'[d] = "committed" /\ reply'[d] = reply[d]
          /\ sent' = sent /\ pos' = pos /\ joined' = joined /\ behind' = behind
      BY <1>5 DEF Update, TypeOK, socketVars, clientVars
    <3> QED
      BY <1>3, <2>3, <3>1, StillHeard
  <2> QED
    BY <2>1, <2>2, <2>3
<1>6. ASSUME NEW c \in Calls, NEW r \in Requests, PutEntity(c, r)
      PROVE  Heard(w, n)'
  <2> DEFINE k == Len(outbox) + 1
  <2>1. /\ DOMAIN outbox' = DOMAIN outbox \cup {k}
        /\ outbox'[k] = EventOf(r)
    BY <1>6, Grown, Writes
  <2> HIDE DEF k
  <2>2. n # k
    BY <1>6, <2>1, NewEvent DEF PutEntity, Expects
  <2>3. /\ \A d \in Calls : pc[d] = "committed" =>
             pc'[d] = "committed" /\ reply'[d] = reply[d]
        /\ sent' = sent /\ pos' = pos /\ joined' = joined /\ behind' = behind
    BY <1>6 DEF PutEntity, TypeOK, socketVars, clientVars
  <2> QED
    BY <1>3, <2>1, <2>2, <2>3, StillHeard
<1>7. ASSUME NEW c \in Calls, NEW r \in Requests, Replay(c, r) \/ Refuse(c, r)
      PROVE  Heard(w, n)'
  <2>1. /\ \A d \in Calls : pc[d] = "committed" =>
             pc'[d] = "committed" /\ reply'[d] = reply[d]
        /\ sent' = sent /\ pos' = pos /\ joined' = joined /\ behind' = behind
        /\ outbox' = outbox
    BY <1>7 DEF Replay, Refuse, TypeOK, socketVars, clientVars, dbVars
  <2> QED
    BY <1>4, <2>1
<1>8. ASSUME NEW c \in Calls, Announce(c)
      PROVE  Heard(w, n)'
  <2> DEFINE k == Len(sent) + 1
  <2>1. /\ k \in Nat /\ k \in DOMAIN sent' /\ sent'[k] = reply[c]
        /\ \A m \in DOMAIN sent : m \in DOMAIN sent' /\ sent'[m] = sent[m]
    BY <1>8, Announced
  <2>2. pos[w] < k
    BY DEF InChannel, TypeOK
  <2> HIDE DEF k
  <2>3. /\ outbox' = outbox /\ pos' = pos /\ joined' = joined
        /\ behind' = behind /\ reply' = reply
        /\ \A d \in Calls \ {c} : pc'[d] = pc[d]
    BY <1>8 DEF Announce, TypeOK, dbVars, socketVars, clientVars
  <2>4. Heard(w, n)
    BY <1>3, <2>3
  <2>5. pos[w] \in Nat
    BY DEF TypeOK
  <2>6. CASE Known(w, n)
    BY <2>3, <2>6, KnowledgeStays DEF Heard
  <2>7. CASE Unheard(w, n)
    BY <2>1, <2>3, <2>7 DEF Heard, Unheard
  <2>8. CASE AboutToBeAnnounced(n)
    <3>1. PICK d \in Calls : pc[d] = "committed" /\ reply[d] = outbox[n]
      BY <2>8 DEF AboutToBeAnnounced
    <3>2. CASE d = c
      <4>1. k > pos'[w] /\ sent'[k] = outbox'[n]
        BY <2>1, <2>2, <2>3, <2>5, <3>1, <3>2
      <4> QED
        BY <2>1, <4>1 DEF Heard, Unheard
    <3>3. CASE d # c
      BY <2>3, <3>1, <3>3 DEF Heard, AboutToBeAnnounced
    <3> QED
      BY <3>2, <3>3
  <2> QED
    BY <2>4, <2>6, <2>7, <2>8 DEF Heard
<1>9. ASSUME NEW v \in Watchers, Connect(v) \/ Close(v)
      PROVE  Heard(w, n)'
  <2>1. v # w
    BY <1>2, <1>9 DEF Connect, Close, TypeOK
  <2> QED
    BY <1>4, <1>9, <2>1
       DEF Connect, Close, TypeOK, dbVars, clientVars
<1>10. ASSUME NEW v \in Watchers, NEW s \in Scopes,
              JoinScope(v, s) \/ LeaveScope(v, s)
       PROVE  Heard(w, n)'
  <2>1. v # w
    BY <1>2, <1>10 DEF JoinScope, LeaveScope, TypeOK
  <2>2. /\ outbox' = outbox /\ joined'[w] = joined[w] /\ w \notin behind
        /\ pc' = pc /\ reply' = reply /\ sent' = sent /\ pos' = pos
    BY <1>10, <2>1
       DEF JoinScope, LeaveScope, TypeOK, dbVars, clientVars
  <2> QED
    BY <1>3, <2>2, StillHeard
<1>11. ASSUME NEW v \in Watchers, Forward(v)
       PROVE  Heard(w, n)'
  <2>1. /\ outbox' = outbox /\ joined' = joined /\ behind' = behind
        /\ pc' = pc /\ reply' = reply /\ sent' = sent
        /\ v # w => pos'[w] = pos[w]
    BY <1>11, Next1 DEF Forward, TypeOK, dbVars
  <2>2. Heard(w, n) /\ Expects(w, n)
    BY <1>3, <2>1
  <2> QED
    BY <1>11, <2>1, <2>2, StillHeard, ForwardedIsHeard
<1>12. ASSUME NEW v \in Watchers, Lag(v)
       PROVE  Heard(w, n)'
  <2>1. v # w
    BY <1>12 DEF Lag
  <2>2. /\ outbox' = outbox /\ joined' = joined /\ w \notin behind
        /\ pc' = pc /\ reply' = reply /\ sent' = sent /\ pos'[w] = pos[w]
    BY <1>12, <2>1 DEF Lag, TypeOK, dbVars
  <2> QED
    BY <1>3, <2>2, StillHeard
<1>13. ASSUME NEW v \in Watchers, Recover(v)
       PROVE  Heard(w, n)'
  <2>1. /\ outbox' = outbox /\ joined' = joined
        /\ pc' = pc /\ reply' = reply /\ sent' = sent /\ pos' = pos
        /\ v # w => w \notin behind
    BY <1>13 DEF Recover, dbVars, socketVars
  <2>2. CASE v = w
    <3>1. Concerns(w, outbox[n])
      BY <2>1 DEF Expects, Concerns
    <3> QED
      BY <1>13, <2>1, <2>2, <3>1, RecoveredIsHeard
  <2>3. CASE v # w
    BY <1>3, <2>1, <2>3, StillHeard
  <2> QED
    BY <2>2, <2>3
<1>14. CASE Crash
  BY <1>2, <1>14 DEF Crash
<1>15. ASSUME NEW t \in Targets, LeaseExpires(t)
       PROVE  Heard(w, n)'
  BY <1>4, <1>15 DEF LeaseExpires, socketVars, clientVars
<1>16. CASE (\E g \in Grants : SetAcl(g)) \/ (\E v \in Values : Moderate(v))
  BY <1>4, <1>16 DEF SetAcl, Moderate, dbVars, socketVars, clientVars
<1>17. CASE UNCHANGED vars
  BY <1>4, <1>17 DEF vars
<1>18. CASE Next
  BY <1>5, <1>6, <1>7, <1>8, <1>9, <1>10, <1>11, <1>12, <1>13, <1>14, <1>15,
     <1>16, <1>18, Steps
<1> QED
  BY <1>17, <1>18

----------------------------------------------------------------------------
LEMMA Initially == Init => SyncInv
<1> SUFFICES ASSUME Init
             PROVE  SyncInv
  OBVIOUS
<1>1. TypeOK
  BY InitialTypes
<1>2. DOMAIN outbox = {} /\ Len(outbox) = 0 /\ DOMAIN sent = {} /\ Len(sent) = 0
  BY DEF Init
<1>3. OutboxIsHistory
  <2>1. \A i \in Items : RowsOf(i) = {} /\ state[i].revision = 0
    BY <1>2 DEF RowsOf, Init
  <2>2. \A i \in Items : Cardinality(RowsOf(i)) = 0
    BY <2>1, FS_EmptySet
  <2> QED
    BY <2>1, <2>2 DEF OutboxIsHistory
<1>4. OneEffectPerRequest /\ CursorKnown /\ NothingUnheard
  BY <1>2 DEF OneEffectPerRequest, CursorKnown, NothingUnheard
<1>5. Logged
  BY <1>2 DEF Logged, Init
<1>6. InChannel /\ RolesKept /\ CursorFits /\ NoPhantoms
  BY <1>2, RolesAssumption
     DEF InChannel, RolesKept, CursorFits, NoPhantoms, Init
<1> QED
  BY <1>1, <1>3, <1>4, <1>5, <1>6 DEF SyncInv, HistoryInv, ClientInv

(* The history, the calls, the channel and the clients agree after every     *)
(* step: the inductive invariant the other theorems follow from.              *)
THEOREM SyncInvariant == Spec => []SyncInv
<1>1. SyncInv /\ [Next]_vars => SyncInv'
  <2> SUFFICES ASSUME SyncInv, [Next]_vars
               PROVE  SyncInv'
    OBVIOUS
  <2>1. TypeOK' /\ HistoryInv' /\ Logged'
    BY TypeSteps, HistorySteps, LoggedSteps DEF SyncInv
  <2>2. ClientInv'
    BY ChannelSteps, RoleSteps, CursorSteps DEF SyncInv, ClientInv
  <2>3. NoPhantoms'
    BY PhantomSteps DEF SyncInv, HistoryInv
  <2>4. NothingUnheard'
    BY LossSteps DEF NothingUnheard, Heard
  <2> QED
    BY <2>1, <2>2, <2>3, <2>4 DEF SyncInv
<1> QED
  BY <1>1, Initially, PTL DEF Spec

(* Every table, channel and client is of its kind.                            *)
THEOREM TypeCorrect == Spec => []TypeOK
<1>1. SyncInv => TypeOK
  BY DEF SyncInv
<1> QED
  BY <1>1, SyncInvariant, PTL

(* Whatever endpoint writes it and however calls, retries and crashes mix,   *)
(* the outbox carries every item's revisions in order, and its state in force.*)
THEOREM OutboxIsHistoryAlways == Spec => []OutboxIsHistory
<1>1. SyncInv => OutboxIsHistory
  BY DEF SyncInv, HistoryInv
<1> QED
  BY <1>1, SyncInvariant, PTL

(* A request id takes effect at most once, for either kind of update.         *)
THEOREM OneEffectAlways == Spec => []OneEffectPerRequest
<1>1. SyncInv => OneEffectPerRequest
  BY DEF SyncInv, HistoryInv
<1> QED
  BY <1>1, SyncInvariant, PTL

(* A client never learns of a change that was not committed, live or from a  *)
(* recovery page.                                                             *)
THEOREM NoPhantomsAlways == Spec => []NoPhantoms
<1>1. SyncInv => NoPhantoms
  BY DEF SyncInv
<1> QED
  BY <1>1, SyncInvariant, PTL

(* A watcher that was not told to recover knows or will hear of every change *)
(* made through the update endpoints in the scope it joined, and no cursor    *)
(* passes a change, of any endpoint, that its client does not know.           *)
THEOREM NoSilentLossAlways == Spec => []NoSilentLoss
<1>1. SyncInv => NoSilentLoss
  BY DEF SyncInv, ClientInv, NoSilentLoss
<1> QED
  BY <1>1, SyncInvariant, PTL
----------------------------------------------------------------------------
(* The service implements the log: Update and PutEntity are Commit, Replay   *)
(* is Repeat, a forwarded message and a recovery page are Learn, and every    *)
(* other step leaves the log as it is.                                        *)

(* A call that was not issued has no answer. *)
Unanswered == \A c \in Calls : pc[c] = "idle" => reply[c] = None

LEMMA UnansweredSteps ==
  ASSUME TypeOK, Unanswered, [Next]_vars
  PROVE  Unanswered'
<1>1. CASE UNCHANGED <<pc, reply>>
  BY <1>1 DEF Unanswered
<1>2. CASE UNCHANGED vars
  BY <1>1, <1>2 DEF vars
<1>3. ASSUME NEW c \in Calls, NEW r \in Requests,
             Update(c, r) \/ Replay(c, r) \/ PutEntity(c, r) \/ Refuse(c, r)
      PROVE  Unanswered'
  BY <1>3 DEF Update, Replay, PutEntity, Refuse, Unanswered, TypeOK
<1>4. ASSUME NEW c \in Calls, Announce(c)
      PROVE  Unanswered'
  BY <1>4 DEF Announce, Unanswered, TypeOK
<1>5. CASE Crash
  BY <1>5 DEF Crash, Unanswered
<1>6. CASE Next
  BY <1>1, <1>3, <1>4, <1>5, <1>6, Steps
     DEF Connect, Close, Forward, Lag, Recover, JoinScope, LeaveScope,
         LeaseExpires, SetAcl, Moderate
<1> QED
  BY <1>2, <1>6

(* Names of the log and of the service mean the same. *)
LEMMA SameNames ==
  ASSUME NEW r
  PROVE  Changes!ItemOf(r) = ItemOf(r)
BY DEF Changes!ItemOf, ItemOf

LEMMA WriteIsChange ==
  ASSUME TypeOK, NEW r \in Requests, Accepted(r), Write(r)
  PROVE  /\ EventOf(r) = Changes!Change(r)
         /\ state[ItemOf(r)].revision = r.expected
         /\ outbox' = Append(outbox, Changes!Change(r))
         /\ state' = [state EXCEPT ![ItemOf(r)] =
                        [revision |-> r.expected + 1, value |-> r.value]]
BY DEF Accepted, Current, Write, EventOf, Changes!Change

LEMMA UpdateIsCommit ==
  ASSUME SyncInv, Unanswered, NEW c \in Calls, NEW r \in Requests, Update(c, r)
  PROVE  Changes!Commit(c, r)
<1>1. TypeOK /\ OneEffectPerRequest
  BY DEF SyncInv, HistoryInv
<1>2. /\ EventOf(r) = Changes!Change(r)
      /\ state[ItemOf(r)].revision = r.expected
      /\ outbox' = Append(outbox, Changes!Change(r))
      /\ state' = [state EXCEPT ![ItemOf(r)] =
                     [revision |-> r.expected + 1, value |-> r.value]]
  BY <1>1, WriteIsChange DEF Update
<1>3. ~Changes!Used(r)
  <2> SUFFICES ASSUME NEW n \in DOMAIN outbox,
                      outbox[n].request.via = "update",
                      outbox[n].request.account = r.account,
                      outbox[n].request.id = r.id
               PROVE  FALSE
    BY DEF Changes!Used, Changes!HasId, Changes!SameId
  <2>1. answered[KeyOf(r)] = outbox[n]
    BY <1>1 DEF OneEffectPerRequest, KeyOf
  <2>2. outbox[n] # None
    BY <1>1, Events DEF TypeOK
  <2> QED
    BY <2>1, <2>2 DEF Update, Answer
<1>4. /\ reply[c] = None /\ r.via = "update"
      /\ reply' = [reply EXCEPT ![c] = Changes!Change(r)]
      /\ view' = view
  BY <1>2 DEF Update, Unanswered, clientVars
<1> QED
  BY <1>2, <1>3, <1>4, SameNames DEF Changes!Commit, Changes!HasId

LEMMA PutEntityIsCommit ==
  ASSUME SyncInv, NEW c \in Calls, NEW r \in Requests, PutEntity(c, r)
  PROVE  Changes!Commit(c, r)
<1>1. TypeOK
  BY DEF SyncInv
<1>2. /\ state[ItemOf(r)].revision = r.expected
      /\ outbox' = Append(outbox, Changes!Change(r))
      /\ state' = [state EXCEPT ![ItemOf(r)] =
                     [revision |-> r.expected + 1, value |-> r.value]]
  BY <1>1, WriteIsChange DEF PutEntity
<1>3. r.via # "update" /\ reply' = reply /\ view' = view
  BY DEF PutEntity, clientVars
<1> QED
  BY <1>2, <1>3, SameNames DEF Changes!Commit, Changes!HasId

LEMMA ReplayIsRepeat ==
  ASSUME SyncInv, Unanswered, NEW c \in Calls, NEW r \in Requests, Replay(c, r)
  PROVE  Changes!Repeat(c, r)
<1>1. Answer(r) \in Log
  BY Requested DEF SyncInv, Logged, Replay, Answer
<1>2. PICK n \in DOMAIN outbox : outbox[n] = Answer(r)
  BY <1>1 DEF Log
<1>3. /\ reply[c] = None /\ r.via = "update"
      /\ outbox[n].request = r
      /\ reply' = [reply EXCEPT ![c] = outbox[n]]
      /\ UNCHANGED <<outbox, state, view>>
  BY <1>2 DEF Replay, Unanswered, dbVars, clientVars
<1> QED
  BY <1>3 DEF Changes!Repeat, Changes!HasId

LEMMA ViewIsLearn ==
  ASSUME SyncInv, SyncInv', [Next]_vars, NEW w \in Watchers,
         Forward(w) \/ Recover(w)
  PROVE  Changes!Learn(w)
<1>1. TypeOK /\ UNCHANGED <<outbox, state, reply>>
  BY DEF SyncInv, Forward, Recover, dbVars
<1>2. view' \in [Watchers -> [Items -> Nat]]
  BY DEF SyncInv, TypeOK
<1>3. \A v \in Watchers \ {w} : view'[v] = view[v]
  <2>1. CASE Forward(w)
    BY <1>1, <2>1, Forwarded
  <2>2. CASE Recover(w)
    BY <1>1, <2>2, Learnt
  <2> QED
    BY <2>1, <2>2
<1>4. ASSUME NEW i \in Items
      PROVE  view'[w][i] \in view[w][i]..state[i].revision
  <2>1. /\ view[w][i] \in Nat /\ view'[w][i] \in Nat
        /\ view[w][i] <= view'[w][i]
    BY <1>1, ViewGrows
  <2>2. view'[w][i] <= state[i].revision /\ state[i].revision \in Nat
    BY <1>1 DEF SyncInv, NoPhantoms, TypeOK
  <2> QED
    BY <2>1, <2>2
<1> QED
  BY <1>1, <1>2, <1>3, <1>4 DEF Changes!Learn

LEMMA LogSteps ==
  ASSUME SyncInv, SyncInv', Unanswered, [Next]_vars
  PROVE  [Changes!Next]_(Changes!logVars)
<1>1. ASSUME NEW c \in Calls, NEW r \in Requests,
             Update(c, r) \/ PutEntity(c, r) \/ Replay(c, r)
      PROVE  Changes!Next
  BY <1>1, UpdateIsCommit, PutEntityIsCommit, ReplayIsRepeat
  DEF Changes!Next
<1>2. ASSUME NEW w \in Watchers, Forward(w) \/ Recover(w)
      PROVE  Changes!Next
  BY <1>2, ViewIsLearn DEF Changes!Next
<1>3. CASE UNCHANGED <<outbox, state, reply, view>>
  BY <1>3 DEF Changes!logVars
<1>4. CASE UNCHANGED vars
  BY <1>3, <1>4 DEF vars
<1>5. CASE Next
  BY <1>1, <1>2, <1>3, <1>5, Steps
     DEF Refuse, Announce, Connect, Close, Lag, JoinScope, LeaveScope,
         LeaseExpires, Crash, SetAcl, Moderate, dbVars, clientVars
<1> QED
  BY <1>4, <1>5

(* Every behaviour of the update calls, the entity world, the channel, the   *)
(* sockets and recovery, across crashes, is a behaviour of the log.           *)
THEOREM ServiceImplementsLog == Spec => ImplementsLog
<1>1. Init => Changes!Init /\ Unanswered
  BY DEF Init, Changes!Init, Unanswered
<1>2. SyncInv /\ Unanswered /\ [Next]_vars => Unanswered'
  BY UnansweredSteps DEF SyncInv
<1>3. SyncInv /\ SyncInv' /\ Unanswered /\ [Next]_vars
        => [Changes!Next]_(Changes!logVars)
  BY LogSteps
<1> QED
  BY <1>1, <1>2, <1>3, SyncInvariant, PTL
  DEF Spec, ImplementsLog, Changes!Spec
=============================================================================
