----------------------------- MODULE WorldProofs -----------------------------
(* Proofs about World for any number of accounts, worlds and rows, any leases *)
(* and any bounds.                                                            *)
EXTENDS World, TLAPS

----------------------------------------------------------------------------
(* Types, table by table. *)
LEMMA InitialTypes ==
  ASSUME WorldInit
  PROVE  TypeOK
<1> USE BoundsAssumption DEF WorldInit
<1>1. BaseTypeOK
  BY DEF Init, BaseTypeOK, Times, Revisions, Policies, Kinds, Roles, Permissions,
         NoTarget, Nobody, NoEntity, NoAppearance, NoShare
<1>2. ClaimTypeOK
  BY DEF ClaimInit, ClaimTypeOK, Statuses, NoPerson, NoClaim, NoCode, Revisions
<1>3. ShotTypeOK
  BY DEF ShotInit, ShotTypeOK, NoFace, NoShot, Times, Revisions
<1>4. AvatarTypeOK
  BY DEF AvatarInit, AvatarTypeOK, NoMotion, NoVehicle, NoShare, Revisions, Starts
<1> QED
  BY <1>1, <1>2, <1>3, <1>4 DEF TypeOK

(* A row of entity_bindings, and one of appearances. *)
BoundRow == [target : Targets \cup {Nil}, kind : Kinds, revision : Revisions]
LookRow == [revision : Revisions \cup {-1}, model : Models \cup {Nil},
            disabled : BOOLEAN]

LEMMA ScopeTypes ==
  ASSUME BaseTypeOK,
         WorldNext \/ RoleNext \/ TargetNext \/ GrantNext \/ BindingNext
  PROVE  BaseTypeOK'
<1>1. ASSUME NEW a \in Accounts, NEW w \in Worlds, NEW p \in Policies,
             NEW killed \in BOOLEAN, CreateScope(a, w, p, killed)
      PROVE  BaseTypeOK'
  BY <1>1 DEF CreateScope, BaseTypeOK, modelVars, profileVars, Roles
<1>2. ASSUME NEW a \in Accounts, NEW w \in Worlds, EntityWorld(a, w)
      PROVE  BaseTypeOK'
  BY <1>2 DEF EntityWorld, BaseTypeOK, modelVars, profileVars, Roles, Policies
<1>3. ASSUME NEW a \in Accounts, NEW b \in Accounts, NEW w \in Worlds,
             NEW r \in Roles \ {"none"}, SetScopeAcl(a, w, b, r)
      PROVE  BaseTypeOK'
  BY <1>3 DEF SetScopeAcl, BaseTypeOK, modelVars, profileVars
<1>4. ASSUME NEW a \in Accounts, NEW w \in Worlds, NEW t \in Targets,
             NEW k \in Kinds, NEW done \in 1..3, CreateTarget(a, w, t, k, done)
      PROVE  BaseTypeOK'
  <2>1. target' \in [Targets -> [world : Worlds \cup {Nil}, kind : Kinds]]
    BY <1>4 DEF CreateTarget, BaseTypeOK
  <2>2. grant' \in [Targets -> [Accounts -> Roles]]
    BY <1>4 DEF CreateTarget, BaseTypeOK, Roles
  <2>3. Undressed \in LookRow
    <3>1. NoAppearance \in LookRow
      BY DEF NoAppearance, LookRow
    <3> QED
      BY <3>1, BoundsAssumption DEF Undressed, LookRow, Revisions
  <2>4. appearance' \in [Targets -> LookRow]
    BY <1>4, <2>3 DEF CreateTarget, BaseTypeOK, LookRow
  <2> QED
    BY <1>4, <2>1, <2>2, <2>4
       DEF CreateTarget, BaseTypeOK, modelVars, profileVars, LookRow
<1>5. ASSUME NEW a \in Accounts, NEW b \in Accounts, NEW t \in Targets,
             NEW r \in Roles \ {"none"}, SetAcl(a, t, b, r)
      PROVE  BaseTypeOK'
  BY <1>5 DEF SetAcl, BaseTypeOK, modelVars, profileVars
<1>6. ASSUME NEW a \in Accounts, NEW w \in Worlds, NEW e \in Entities,
             NEW t \in Targets, NEW k \in Kinds, RegisterBinding(a, w, e, t, k)
      PROVE  BaseTypeOK'
  BY <1>6, BoundsAssumption
     DEF RegisterBinding, BaseTypeOK, modelVars, profileVars, Revisions
<1>7. ASSUME NEW a \in Accounts, NEW w \in Worlds, NEW e \in Entities,
             ObserveBinding(a, w, e)
      PROVE  BaseTypeOK'
  <2>1. bound[w][e] \in BoundRow
    BY DEF BaseTypeOK, BoundRow
  <2>2. [bound[w][e] EXCEPT !.revision = @ + 1] \in BoundRow
    BY <1>7, <2>1, BoundsAssumption DEF ObserveBinding, BoundRow, Revisions
  <2>3. bound' = [bound EXCEPT ![w][e] = [bound[w][e] EXCEPT !.revision = @ + 1]]
    BY <1>7 DEF ObserveBinding
  <2>4. bound' \in [Worlds -> [Entities -> BoundRow]]
    BY <2>2, <2>3 DEF BaseTypeOK, BoundRow
  <2> QED
    BY <1>7, <2>4
       DEF ObserveBinding, BaseTypeOK, modelVars, profileVars, BoundRow
<1> QED
  BY <1>1, <1>2, <1>3, <1>4, <1>5, <1>6, <1>7, Zenon
     DEF WorldNext, RoleNext, TargetNext, GrantNext, BindingNext

LEMMA ModelTypes ==
  ASSUME BaseTypeOK,
         \/ AppearanceNext \/ RightsNext \/ OwnerNext \/ ModerationNext
         \/ ProfileNext \/ Tick
  PROVE  BaseTypeOK'
<1>1. ASSUME NEW a \in Accounts, NEW t \in Targets, NEW m \in Models \cup {Nil},
             NEW off \in BOOLEAN, UpdateAppearance(a, t, m, off)
      PROVE  BaseTypeOK'
  <2>1. appearance[t] \in LookRow
    BY DEF BaseTypeOK, LookRow
  <2>2. appearance[t].revision + 1 \in Revisions
    BY <1>1, <2>1, BoundsAssumption DEF UpdateAppearance, LookRow, Revisions
  <2>3. appearance' \in [Targets -> LookRow]
    BY <1>1, <2>2 DEF UpdateAppearance, BaseTypeOK, LookRow
  <2> QED
    BY <1>1, <2>3 DEF UpdateAppearance, BaseTypeOK, scopeVars, modelVars,
                      profileVars, LookRow
<1>2. ASSUME NEW a \in Accounts, NEW b \in Accounts, NEW m \in Models,
             NEW p \in Permissions \ {"none"}, SetAssetAcl(a, m, b, p)
      PROVE  BaseTypeOK'
  BY <1>2 DEF SetAssetAcl, BaseTypeOK, scopeVars, profileVars
<1>3. ASSUME NEW a \in Accounts, NEW m \in Models, SetVisibility(a, m)
      PROVE  BaseTypeOK'
  BY <1>3 DEF SetVisibility, BaseTypeOK, scopeVars, profileVars
<1>4. ASSUME NEW a \in Accounts, NEW m \in Models, AssignOwner(m, a)
      PROVE  BaseTypeOK'
  BY <1>4 DEF AssignOwner, BaseTypeOK, scopeVars, profileVars, Nobody, Permissions
<1>5. ASSUME NEW m \in Models, Moderate(m)
      PROVE  BaseTypeOK'
  BY <1>5 DEF Moderate, BaseTypeOK, scopeVars, profileVars
<1>6. ASSUME NEW i \in Identities, NEW a \in Accounts, MoveProfile(i, a)
      PROVE  BaseTypeOK'
  BY <1>6 DEF MoveProfile, BaseTypeOK, scopeVars, modelVars
<1>7. ASSUME NEW i \in Identities, ToggleProvider(i)
      PROVE  BaseTypeOK'
  BY <1>7 DEF ToggleProvider, BaseTypeOK, scopeVars, modelVars
<1>8. ASSUME Tick
      PROVE  BaseTypeOK'
  BY <1>8, BoundsAssumption
     DEF Tick, BaseTypeOK, scopeVars, modelVars, profileVars, Times
<1> QED
  BY <1>1, <1>2, <1>3, <1>4, <1>5, <1>6, <1>7, <1>8, Zenon
     DEF AppearanceNext, RightsNext, OwnerNext, ModerationNext, ProfileNext

(* A publication may insert the target that the entity is bound to. *)
LEMMA EntityTypes ==
  ASSUME BaseTypeOK, AvatarTypeOK, EntityNext
  PROVE  BaseTypeOK' /\ AvatarTypeOK'
<1> SUFFICES ASSUME NEW a \in Accounts, NEW w \in Worlds, NEW e \in Entities,
                    NEW k \in Puppets, NEW t \in Targets,
                    NEW m \in Models \cup {Nil}, NEW sharing \in BOOLEAN,
                    NEW n \in Revisions,
                    PublishEntity(a, w, e, k, t, m, sharing, n)
             PROVE  BaseTypeOK' /\ AvatarTypeOK'
  BY Zenon DEF EntityNext
<1>1. k \in Kinds
  BY DEF Puppets, Kinds
<1>2. \/ UNCHANGED <<target, grant, bound>>
      \/ /\ target' = [target EXCEPT ![t] = [world |-> w, kind |-> k]]
         /\ grant' = [grant EXCEPT ![t][a] = "manage"]
         /\ bound' = [bound EXCEPT ![w][e] =
                        [target |-> t, kind |-> k, revision |-> 0]]
  BY Zenon DEF PublishEntity
<1>3. target' \in [Targets -> [world : Worlds \cup {Nil}, kind : Kinds]]
  <2>1. target \in [Targets -> [world : Worlds \cup {Nil}, kind : Kinds]]
    BY DEF BaseTypeOK
  <2>2. target' = target
        \/ target' = [target EXCEPT ![t] = [world |-> w, kind |-> k]]
    BY <1>2
  <2> QED
    BY <1>1, <2>1, <2>2
<1>4. grant' \in [Targets -> [Accounts -> Roles]]
  <2>1. grant \in [Targets -> [Accounts -> Roles]]
    BY DEF BaseTypeOK
  <2>2. grant' = grant \/ grant' = [grant EXCEPT ![t][a] = "manage"]
    BY <1>2
  <2>3. "manage" \in Roles
    BY DEF Roles
  <2> QED
    BY <2>1, <2>2, <2>3
<1>5. bound' \in [Worlds -> [Entities -> BoundRow]]
  <2>1. [target |-> t, kind |-> k, revision |-> 0] \in BoundRow
    BY <1>1, BoundsAssumption DEF BoundRow, Revisions
  <2>2. bound \in [Worlds -> [Entities -> BoundRow]]
    BY DEF BaseTypeOK, BoundRow
  <2> QED
    BY <1>2, <2>1, <2>2
<1>6. appearance' \in [Targets -> LookRow]
  <2>1. n + 1 \in Revisions
    BY BoundsAssumption DEF PublishEntity, Revisions
  <2> QED
    BY <2>1 DEF PublishEntity, BaseTypeOK, LookRow
<1>7. share' \in [Targets -> [by : Accounts \cup {Nil}, model : Models \cup {Nil}]]
  BY DEF PublishEntity, BaseTypeOK, NewShare, NoShare
<1>8. offer' \in [Targets -> [by : Accounts \cup {Nil}, model : Models \cup {Nil}]]
  BY DEF PublishEntity, AvatarTypeOK, NoShare
<1>9. UNCHANGED <<now, policy, role, owner, public, permission, withheld, holder,
                  trusted, motion, vehicle>>
  BY DEF PublishEntity, modelVars, profileVars
<1> QED
  BY <1>3, <1>4, <1>5, <1>6, <1>7, <1>8, <1>9
     DEF BaseTypeOK, AvatarTypeOK, BoundRow, LookRow

LEMMA ClaimTypes ==
  ASSUME BaseTypeOK, ClaimTypeOK, ClaimNext
  PROVE  ClaimTypeOK'
<1> DEFINE PersonRow == [account : Accounts \cup {Nil}, world : Worlds \cup {Nil},
                         entity : Entities \cup {Nil}]
           ClaimRow == [person : Persons \cup {Nil}, world : Worlds \cup {Nil},
                        entity : Entities \cup {Nil}, status : Statuses,
                        revision : Revisions \cup {1}, code : Codes \cup {Nil}]
           CodeRow == [world : Worlds \cup {Nil}, entity : Entities \cup {Nil},
                       expires : Nat, attempts : Nat, consumed : BOOLEAN,
                       revoked : BOOLEAN]
<1>0. /\ person \in [Persons -> PersonRow]
      /\ binding \in [Bindings -> ClaimRow]
      /\ code \in [Codes -> CodeRow]
  BY DEF ClaimTypeOK
<1>1. ASSUME NEW a \in Accounts, NEW i \in Persons, NEW w \in Worlds,
             NEW e \in Entities, CreateIdentity(a, i, w, e)
      PROVE  ClaimTypeOK'
  BY <1>0, <1>1 DEF CreateIdentity, ClaimTypeOK
<1>2. ASSUME NEW a \in Accounts, NEW i \in Persons, NEW b \in Bindings,
             NEW t \in Targets, RequestBinding(a, i, b, t)
      PROVE  ClaimTypeOK'
  <2>1. [person |-> i, world |-> person[i].world, entity |-> person[i].entity,
         status |-> "PENDING", revision |-> 0, code |-> Nil] \in ClaimRow
    BY <1>0, BoundsAssumption DEF Statuses, Revisions
  <2> QED
    BY <1>0, <1>2, <2>1 DEF RequestBinding, ClaimTypeOK
<1>3. ASSUME NEW a \in Accounts, NEW b \in Bindings,
             NEW s \in {"APPROVED", "REJECTED"}, NEW n \in Revisions,
             DecideBinding(a, b, s, n)
      PROVE  ClaimTypeOK'
  <2>1. [binding[b] EXCEPT !.status = s, !.revision = @ + 1] \in ClaimRow
    BY <1>0, <1>3, BoundsAssumption DEF DecideBinding, Statuses, Revisions
  <2>2. binding' = [binding EXCEPT ![b] =
                      [binding[b] EXCEPT !.status = s, !.revision = @ + 1]]
    BY <1>0, <1>3 DEF DecideBinding
  <2> QED
    BY <1>0, <1>3, <2>1, <2>2 DEF DecideBinding, ClaimTypeOK
<1>4. ASSUME NEW a \in Accounts, NEW c \in Codes, NEW t \in Targets,
             NEW e \in Entities, IssueCode(a, c, t, e)
      PROVE  ClaimTypeOK'
  <2>1. NoCode \in CodeRow
    BY DEF NoCode
  <2>2. target[t].world \in Worlds \cup {Nil} /\ now + CodeTtl \in Nat
    BY ClaimAssumption, BoundsAssumption DEF BaseTypeOK, Times
  <2>3. [NoCode EXCEPT !.world = target[t].world, !.entity = e,
                       !.expires = now + CodeTtl] \in CodeRow
    BY <2>1, <2>2
  <2> QED
    BY <1>0, <1>4, <2>3 DEF IssueCode, ClaimTypeOK
<1>5. ASSUME NEW a \in Accounts, NEW i \in Persons, NEW c \in Codes,
             NEW b \in Bindings, NEW killed \in BOOLEAN,
             RedeemCode(a, i, c, b, killed)
      PROVE  ClaimTypeOK'
  <2>1. /\ [code[c] EXCEPT !.attempts = @ + 1] \in CodeRow
        /\ [code[c] EXCEPT !.attempts = @ + 1, !.consumed = TRUE] \in CodeRow
    <3>1. code[c] \in CodeRow
      BY <1>0
    <3>2. code[c].attempts + 1 \in Nat
      BY <3>1
    <3> QED
      BY <3>1, <3>2
  <2>2. [person |-> i, world |-> code[c].world, entity |-> code[c].entity,
         status |-> "APPROVED", revision |-> 1, code |-> c] \in ClaimRow
    BY <1>0 DEF Statuses
  <2>3. \/ code' = [code EXCEPT ![c] = [code[c] EXCEPT !.attempts = @ + 1]]
        \/ code' = [code EXCEPT ![c] =
                      [code[c] EXCEPT !.attempts = @ + 1, !.consumed = TRUE]]
    BY <1>0, <1>5 DEF RedeemCode
  <2>4. \/ binding' = binding
        \/ binding' = [binding EXCEPT ![b] =
             [person |-> i, world |-> code[c].world, entity |-> code[c].entity,
              status |-> "APPROVED", revision |-> 1, code |-> c]]
    BY <1>5, Zenon DEF RedeemCode
  <2>5. code' \in [Codes -> CodeRow]
    BY <1>0, <2>1, <2>3
  <2>6. binding' \in [Bindings -> ClaimRow]
    BY <1>0, <2>2, <2>4
  <2> QED
    BY <1>0, <1>5, <2>5, <2>6 DEF RedeemCode, ClaimTypeOK
<1>6. ASSUME NEW a \in Accounts, NEW c \in Codes, RevokeCode(a, c)
      PROVE  ClaimTypeOK'
  <2>1. code[c] \in CodeRow
    BY <1>0
  <2>2. [code[c] EXCEPT !.revoked = TRUE] \in CodeRow
    BY <2>1
  <2>3. /\ code' = [code EXCEPT ![c] = [code[c] EXCEPT !.revoked = TRUE]]
        /\ person' = person /\ binding' = binding
    BY <1>6 DEF RevokeCode
  <2>4. code' \in [Codes -> CodeRow]
    BY <1>0, <2>2, <2>3
  <2> QED
    BY <1>0, <2>3, <2>4 DEF ClaimTypeOK
<1> HIDE DEF PersonRow, ClaimRow, CodeRow
<1> QED
  BY <1>1, <1>2, <1>3, <1>4, <1>5, <1>6, Zenon DEF ClaimNext

----------------------------------------------------------------------------
(* Shots.  Every shot in the table was fired, and one that is over is behind  *)
(* a tombstone or withdrawn: with this, ShotsShownOnce is inductive.          *)
FaceRow == [revision : Revisions, entity : Entities \cup {Nil},
            model : Models \cup {Nil}, updated : Times,
            display : Worlds \cup {Nil}]
ShotRow == [by : Accounts \cup {Nil}, identity : Identities \cup {Nil},
            event : Events \cup {Nil}, model : Models \cup {Nil},
            revision : Revisions \cup {1}, expires : Nat,
            absolute : Nat, withdrawn : BOOLEAN]
Keys == [world : Worlds, entity : Entities, by : Accounts, event : Events]
ShotTable == [Worlds -> [Entities -> ShotRow]]

ShotsWereFired ==
  \A w \in Worlds, e \in Entities : shot[w][e] # NoShot => Key(w, e) \in fired
OverIsOver ==
  \A f \in over : f \in tomb \/ shot[f.world][f.entity].withdrawn
NamesAreUnique ==
  \A f, g \in fired :
    /\ f.world = g.world
    /\ f.entity = g.entity \/ (f.by = g.by /\ f.event = g.event)
    => f = g
TombsReplaceShots ==
  \A f \in fired : f \in tomb <=> Key(f.world, f.entity) # f
ShotInv ==
  /\ ShotTypeOK /\ ShotsWereFired /\ OverIsOver
  /\ NamesAreUnique /\ TombsReplaceShots

LEMMA ShotRows ==
  ASSUME ShotTypeOK
  PROVE  /\ face \in [Identities -> FaceRow] /\ shot \in ShotTable
         /\ fired \in SUBSET Keys /\ tomb \subseteq fired /\ over \subseteq fired
BY DEF ShotTypeOK, FaceRow, ShotTable, ShotRow, Keys

LEMMA InitialShots ==
  ASSUME WorldInit
  PROVE  ShotInv
<1>1. ShotTypeOK
  BY InitialTypes DEF TypeOK
<1> QED
  BY <1>1 DEF WorldInit, ShotInit, ShotInv, ShotsWereFired, OverIsOver,
              NamesAreUnique, TombsReplaceShots

(* Steps that insert and remove no shot. *)
LEMMA ShotsStay ==
  ASSUME ShotInv,
         shot' \in ShotTable, face' \in [Identities -> FaceRow],
         \A w \in Worlds, e \in Entities :
           /\ shot'[w][e].by = shot[w][e].by
           /\ shot'[w][e].event = shot[w][e].event
           /\ shot[w][e] = NoShot => shot'[w][e] = NoShot
           /\ shot[w][e].withdrawn => shot'[w][e].withdrawn,
         UNCHANGED <<fired, tomb>>,
         \A f \in over' : f \in over
           \/ \E w \in Worlds, e \in Entities :
                shot[w][e] # NoShot /\ shot'[w][e].withdrawn /\ f = Key(w, e)
  PROVE  ShotInv'
<1>0. ShotTypeOK /\ shot \in ShotTable
  BY ShotRows DEF ShotInv
<1>1. \A w \in Worlds, e \in Entities : Key(w, e)' = Key(w, e)
  BY DEF Key
<1>2. over' \subseteq fired
  BY <1>0, ShotRows DEF ShotInv, ShotsWereFired
<1>3. ShotTypeOK'
  BY <1>0, <1>2, ShotRows
     DEF ShotTypeOK, FaceRow, ShotTable, ShotRow, Keys
<1>4. ShotsWereFired'
  BY <1>1 DEF ShotInv, ShotsWereFired
<1>5. OverIsOver'
  <2> SUFFICES ASSUME NEW f \in over'
               PROVE  f \in tomb \/ shot'[f.world][f.entity].withdrawn
    BY DEF OverIsOver
  <2>1. f \in Keys
    BY <1>0, <1>2, ShotRows
  <2>2. CASE f \in over
    BY <2>1, <2>2 DEF ShotInv, OverIsOver, Keys
  <2>3. CASE \E w \in Worlds, e \in Entities :
               shot[w][e] # NoShot /\ shot'[w][e].withdrawn /\ f = Key(w, e)
    BY <2>3 DEF Key
  <2> QED
    BY <2>2, <2>3
<1>6. NamesAreUnique'
  BY DEF ShotInv, NamesAreUnique
<1>7. TombsReplaceShots'
  <2>1. \A f \in fired : f.world \in Worlds /\ f.entity \in Entities
    BY <1>0, ShotRows DEF Keys
  <2> QED
    BY <1>1, <2>1 DEF ShotInv, TombsReplaceShots
<1> QED
  BY <1>3, <1>4, <1>5, <1>6, <1>7 DEF ShotInv

LEMMA ShotsAreInserted ==
  ASSUME BaseTypeOK, ShotInv,
         NEW a \in Accounts, NEW w \in Worlds, NEW e \in Entities,
         NEW i \in Identities, NEW v \in Events, NEW m \in Models,
         NEW t \in Times, PublishShot(a, w, e, i, v, m, t)
  PROVE  ShotInv'
<1> DEFINE new == [by |-> a, identity |-> i, event |-> v, model |-> m,
                   revision |-> 1,
                   expires |-> Earlier(t + IdleTtl, t + Lifetime),
                   absolute |-> t + Lifetime, withdrawn |-> FALSE]
           key == [world |-> w, entity |-> e, by |-> a, event |-> v]
<1>0. ShotTypeOK /\ shot \in ShotTable /\ fired \subseteq Keys
  BY ShotRows DEF ShotInv
<1>1. new \in ShotRow
  BY ShotAssumption, BoundsAssumption DEF Earlier, Times, ShotRow
<1>2. shot' = [shot EXCEPT ![w][e] = new]
  BY Zenon DEF PublishShot
<1>3. fired' = fired \cup {key} /\ UNCHANGED <<face, tomb, over>>
  BY Zenon DEF PublishShot
<1>4. /\ shot[w][e] = NoShot /\ ~Barred(a, w, e, v)
      /\ \A f \in Entities : ~(shot[w][f].by = a /\ shot[w][f].event = v)
  BY Zenon DEF PublishShot
<1>5. new.by = a /\ new.event = v /\ ~new.withdrawn
  OBVIOUS
<1> HIDE DEF new
<1>6. shot' \in ShotTable
  BY <1>0, <1>1, <1>2 DEF ShotTable
<1>7. key \in Keys
  BY DEF Keys
<1>8. ShotTypeOK'
  BY <1>0, <1>3, <1>6, <1>7, ShotRows
     DEF ShotTypeOK, FaceRow, ShotTable, ShotRow, Keys
<1>9. shot'[w][e] = new
      /\ \A x \in Worlds, f \in Entities :
            <<x, f>> # <<w, e>> => shot'[x][f] = shot[x][f]
  BY <1>0, <1>2 DEF ShotTable
<1>10. /\ Key(w, e)' = key
       /\ \A x \in Worlds, f \in Entities :
            <<x, f>> # <<w, e>> => Key(x, f)' = Key(x, f)
  BY <1>5, <1>9 DEF Key
<1>11. key \notin tomb
  BY <1>4 DEF Barred
<1>12. \A g \in fired :
         ~(/\ g.world = w
           /\ g.entity = e \/ (g.by = a /\ g.event = v))
  <2> SUFFICES ASSUME NEW g \in fired, g.world = w,
                      g.entity = e \/ (g.by = a /\ g.event = v)
               PROVE  FALSE
    OBVIOUS
  <2>1. g \in Keys
    BY <1>0
  <2>2. g \notin tomb
    BY <1>4 DEF Barred
  <2>3. Key(w, g.entity) = g
    BY <2>2 DEF ShotInv, TombsReplaceShots
  <2>4. g.by = shot[w][g.entity].by /\ g.event = shot[w][g.entity].event
    BY <2>3 DEF Key
  <2>5. g.entity \in Entities /\ g.by \in Accounts
    BY <2>1 DEF Keys
  <2>6. CASE g.entity = e
    BY <1>4, <2>4, <2>5, <2>6, NilAssumption DEF NoShot
  <2> QED
    BY <1>4, <2>4, <2>5, <2>6
<1>13. ShotsWereFired'
  BY <1>3, <1>9, <1>10 DEF ShotInv, ShotsWereFired
<1>14. OverIsOver'
  <2> SUFFICES ASSUME NEW f \in over
               PROVE  f \in tomb \/ shot'[f.world][f.entity].withdrawn
    BY <1>3 DEF OverIsOver
  <2>1. f \in fired /\ f \in Keys
    BY <1>0, ShotRows
  <2>2. <<f.world, f.entity>> # <<w, e>>
    BY <1>12, <2>1
  <2> QED
    BY <1>9, <2>1, <2>2 DEF ShotInv, OverIsOver, Keys
<1>15. NamesAreUnique'
  BY <1>3, <1>12 DEF ShotInv, NamesAreUnique
<1>16. TombsReplaceShots'
  <2> SUFFICES ASSUME NEW f \in fired \cup {key}
               PROVE  f \in tomb <=> Key(f.world, f.entity)' # f
    BY <1>3 DEF TombsReplaceShots
  <2>1. CASE f = key
    BY <1>10, <1>11, <2>1
  <2>2. CASE f \in fired
    <3>1. f \in Keys /\ <<f.world, f.entity>> # <<w, e>>
      BY <1>0, <1>12, <2>2
    <3> QED
      BY <1>10, <2>2, <3>1 DEF ShotInv, TombsReplaceShots, Keys
  <2> QED
    BY <2>1, <2>2
<1> QED
  BY <1>8, <1>13, <1>14, <1>15, <1>16 DEF ShotInv

LEMMA ShotsAreRenewed ==
  ASSUME BaseTypeOK, ShotInv,
         NEW a \in Accounts, NEW w \in Worlds, NEW e \in Entities,
         NEW n \in Revisions, NEW t \in Times, RenewShot(a, w, e, n, t)
  PROVE  ShotInv'
<1> DEFINE until == Earlier(t + IdleTtl, shot[w][e].absolute)
           new == [shot[w][e] EXCEPT !.revision = @ + 1, !.expires = until]
<1>0. ShotTypeOK /\ shot \in ShotTable /\ shot[w][e] \in ShotRow
  BY ShotRows DEF ShotInv, ShotTable
<1>1. shot[w][e].revision = n /\ n < MaxRevision /\ t \in Nat
  BY BoundsAssumption DEF RenewShot, Times
<1>2. shot[w][e].revision + 1 \in Revisions /\ until \in Nat
  BY <1>0, <1>1, ShotAssumption, BoundsAssumption
     DEF Revisions, Earlier, ShotRow
<1>3. shot' = [shot EXCEPT ![w][e] = new]
  BY DEF RenewShot
<1> HIDE DEF until
<1>4. new \in ShotRow /\ new.by = shot[w][e].by /\ new.event = shot[w][e].event
      /\ new.withdrawn = shot[w][e].withdrawn
  BY <1>0, <1>2 DEF ShotRow
<1> HIDE DEF new
<1>5. shot' \in ShotTable
  BY <1>0, <1>3, <1>4 DEF ShotTable
<1>6. shot[w][e] # NoShot /\ UNCHANGED <<face, tomb, fired, over>>
  BY DEF RenewShot
<1> QED
  BY <1>0, <1>3, <1>4, <1>5, <1>6, ShotRows, ShotsStay DEF ShotTable

LEMMA ShotsAreWithdrawn ==
  ASSUME BaseTypeOK, ShotInv,
         NEW a \in Accounts, NEW w \in Worlds, NEW e \in Entities,
         NEW n \in Revisions, NEW t \in Times, WithdrawShot(a, w, e, n, t)
  PROVE  ShotInv'
<1> DEFINE new == [shot[w][e] EXCEPT !.revision = @ + 1, !.expires = t,
                                     !.withdrawn = TRUE]
<1>0. ShotTypeOK /\ shot \in ShotTable /\ shot[w][e] \in ShotRow
  BY ShotRows DEF ShotInv, ShotTable
<1>1. shot[w][e].revision + 1 \in Revisions /\ t \in Nat
  BY <1>0, BoundsAssumption DEF WithdrawShot, Times, Revisions, ShotRow
<1>2. shot' = [shot EXCEPT ![w][e] = new]
  BY DEF WithdrawShot
<1>3. /\ new \in ShotRow /\ new.withdrawn
      /\ new.by = shot[w][e].by /\ new.event = shot[w][e].event
  BY <1>0, <1>1 DEF ShotRow
<1> HIDE DEF new
<1>4. shot' \in ShotTable
  BY <1>0, <1>2, <1>3 DEF ShotTable
<1>5. /\ shot[w][e] # NoShot /\ UNCHANGED <<face, tomb, fired>>
      /\ over' = over \cup {Key(w, e)}
  BY DEF WithdrawShot
<1>6. shot'[w][e].withdrawn
  BY <1>0, <1>2, <1>3 DEF ShotTable
<1> QED
  BY <1>0, <1>2, <1>3, <1>4, <1>5, <1>6, ShotRows, ShotsStay DEF ShotTable

(* A player who stops sharing withdraws what was fired. *)
LEMMA FacesArePublished ==
  ASSUME BaseTypeOK, ShotInv,
         NEW a \in Accounts, NEW i \in Identities, NEW e \in Entities,
         NEW n \in Revisions, NEW m \in Models \cup {Nil},
         NEW d \in Worlds \cup {Nil}, PublishFace(a, i, e, n, m, d)
  PROVE  ShotInv'
<1> DEFINE stops(w, f) == m = Nil /\ shot[w][f] # NoShot
                            /\ shot[w][f].identity = i
           ended(w, f) == [shot[w][f] EXCEPT !.withdrawn = TRUE, !.expires = now]
           shown == [revision |-> n + 1, entity |-> e, model |-> m,
                     updated |-> now, display |-> IF m = Nil THEN Nil ELSE d]
<1>0. /\ ShotTypeOK /\ shot \in ShotTable /\ face \in [Identities -> FaceRow]
      /\ now \in Times /\ now \in Nat
  BY ShotRows, BoundsAssumption DEF ShotInv, BaseTypeOK, Times
<1>1. face' = [face EXCEPT ![i] = shown] /\ n < MaxRevision
  BY DEF PublishFace
<1>2. shown \in FaceRow
  BY <1>0, <1>1, BoundsAssumption DEF FaceRow, Revisions
<1> HIDE DEF shown
<1>3. face' \in [Identities -> FaceRow]
  BY <1>0, <1>1, <1>2
<1>4. shot' = [w \in Worlds |-> [f \in Entities |->
                 IF stops(w, f) THEN ended(w, f) ELSE shot[w][f]]]
  BY Zenon DEF PublishFace
<1>5. \A w \in Worlds, f \in Entities :
        /\ ended(w, f) \in ShotRow /\ ended(w, f).withdrawn
        /\ ended(w, f).by = shot[w][f].by /\ ended(w, f).event = shot[w][f].event
  <2> SUFFICES ASSUME NEW w \in Worlds, NEW f \in Entities
               PROVE  /\ ended(w, f) \in ShotRow /\ ended(w, f).withdrawn
                      /\ ended(w, f).by = shot[w][f].by
                      /\ ended(w, f).event = shot[w][f].event
    OBVIOUS
  <2>1. shot[w][f] \in ShotRow
    BY <1>0 DEF ShotTable
  <2> QED
    BY <1>0, <2>1 DEF ShotRow
<1>6. over' = over \cup {Key(p[1], p[2]) :
                  p \in {q \in Worlds \X Entities : stops(q[1], q[2])}}
      /\ UNCHANGED <<tomb, fired>>
  BY Zenon DEF PublishFace
<1>7. \A w \in Worlds, f \in Entities : stops(w, f) => shot[w][f] # NoShot
  OBVIOUS
<1> HIDE DEF stops, ended
<1>8. shot' \in ShotTable
  BY <1>0, <1>4, <1>5 DEF ShotTable
<1>9. \A w \in Worlds, f \in Entities :
        /\ shot'[w][f] = IF stops(w, f) THEN ended(w, f) ELSE shot[w][f]
        /\ stops(w, f) => shot'[w][f].withdrawn /\ shot[w][f] # NoShot
  BY <1>4, <1>5, <1>7
<1>10. \A f \in over' : f \in over
         \/ \E x \in Worlds, y \in Entities :
              shot[x][y] # NoShot /\ shot'[x][y].withdrawn /\ f = Key(x, y)
  BY <1>6, <1>9
<1>11. \A w \in Worlds, f \in Entities :
         /\ shot'[w][f].by = shot[w][f].by
         /\ shot'[w][f].event = shot[w][f].event
         /\ shot[w][f] = NoShot => shot'[w][f] = NoShot
         /\ shot[w][f].withdrawn => shot'[w][f].withdrawn
  BY <1>5, <1>9
<1> QED
  BY <1>3, <1>6, <1>8, <1>10, <1>11, ShotsStay

(* A cleanup puts a tombstone where it removes a shot. *)
LEMMA ShotsAreCleaned ==
  ASSUME BaseTypeOK, ShotInv, NEW t \in Times, CleanShots(t)
  PROVE  ShotInv'
<1> DEFINE keys == {Key(p[1], p[2]) :
                      p \in {q \in Worlds \X Entities : Past(q[1], q[2], t)}}
<1>0. /\ ShotTypeOK /\ shot \in ShotTable /\ face \in [Identities -> FaceRow]
      /\ fired \subseteq Keys /\ tomb \subseteq fired /\ over \subseteq fired
  BY ShotRows DEF ShotInv
<1>1. /\ tomb' = tomb \cup keys /\ over' = over \cup keys /\ fired' = fired
      /\ shot' = [w \in Worlds |-> [e \in Entities |->
                     IF Past(w, e, t) THEN NoShot ELSE shot[w][e]]]
  BY Zenon DEF CleanShots
<1>2. face' \in [Identities -> FaceRow]
  <2>1. face' = [i \in Identities |->
           IF face[i].model = Nil \/ face[i].updated + Fresh <= t
           THEN [face[i] EXCEPT !.display = Nil] ELSE face[i]]
    BY Zenon DEF CleanShots
  <2>2. \A i \in Identities : [face[i] EXCEPT !.display = Nil] \in FaceRow
    BY <1>0 DEF FaceRow
  <2> QED
    BY <1>0, <2>1, <2>2
<1>3. NoShot \in ShotRow
  BY BoundsAssumption DEF NoShot, ShotRow, Revisions
<1>4. shot' \in ShotTable
  BY <1>0, <1>1, <1>3 DEF ShotTable
<1>5. \A w \in Worlds, e \in Entities :
        Past(w, e, t) => shot[w][e] # NoShot /\ Key(w, e) \in fired
  BY DEF Past, ShotInv, ShotsWereFired
<1>6. \A k \in keys : \E w \in Worlds, e \in Entities :
        Past(w, e, t) /\ k = Key(w, e)
  OBVIOUS
<1>7. \A w \in Worlds, e \in Entities : Past(w, e, t) => Key(w, e) \in keys
  <2> SUFFICES ASSUME NEW w \in Worlds, NEW e \in Entities, Past(w, e, t)
               PROVE  Key(w, e) \in keys
    OBVIOUS
  <2>1. <<w, e>> \in {q \in Worlds \X Entities : Past(q[1], q[2], t)}
    OBVIOUS
  <2> QED
    BY <2>1
<1> HIDE DEF keys
<1>8. keys \subseteq fired
  BY <1>5, <1>6
<1>9. \A w \in Worlds, e \in Entities :
        /\ Past(w, e, t) => shot'[w][e] = NoShot
        /\ ~Past(w, e, t) => shot'[w][e] = shot[w][e] /\ Key(w, e)' = Key(w, e)
  BY <1>1 DEF Key
<1>10. ShotTypeOK'
  BY <1>0, <1>1, <1>2, <1>4, <1>8
     DEF ShotTypeOK, FaceRow, ShotTable, ShotRow, Keys
<1>11. ShotsWereFired'
  BY <1>1, <1>9 DEF ShotInv, ShotsWereFired
<1>12. TombsReplaceShots'
  <2> SUFFICES ASSUME NEW f \in fired
               PROVE  f \in tomb' <=> Key(f.world, f.entity)' # f
    BY <1>1 DEF TombsReplaceShots
  <2>1. f \in Keys /\ f.world \in Worlds /\ f.entity \in Entities /\ f.by # Nil
    BY <1>0, NilAssumption DEF Keys
  <2>2. CASE Past(f.world, f.entity, t)
    <3>1. Key(f.world, f.entity)' # f
      <4>1. shot'[f.world][f.entity] = NoShot
        BY <1>9, <2>1, <2>2
      <4>2. Key(f.world, f.entity)'.by = Nil
        BY <4>1 DEF Key, NoShot
      <4> QED
        BY <2>1, <4>2
    <3>2. f \in tomb \/ f = Key(f.world, f.entity)
      BY DEF ShotInv, TombsReplaceShots
    <3> QED
      BY <1>1, <1>7, <2>1, <2>2, <3>1, <3>2
  <2>3. CASE ~Past(f.world, f.entity, t)
    <3>1. Key(f.world, f.entity)' = Key(f.world, f.entity)
      BY <1>9, <2>1, <2>3
    <3>2. f \notin keys
      BY <1>6, <2>3 DEF Key
    <3> QED
      BY <1>1, <3>1, <3>2 DEF ShotInv, TombsReplaceShots
  <2> QED
    BY <2>2, <2>3
<1>13. OverIsOver'
  <2> SUFFICES ASSUME NEW f \in over', f \notin tomb'
               PROVE  shot'[f.world][f.entity].withdrawn
    BY DEF OverIsOver
  <2>1. f \in over /\ f \in fired /\ f \notin tomb
    BY <1>0, <1>1
  <2>2. f.world \in Worlds /\ f.entity \in Entities
    BY <1>0, <2>1 DEF Keys
  <2>3. f = Key(f.world, f.entity)
    BY <2>1 DEF ShotInv, TombsReplaceShots
  <2>4. ~Past(f.world, f.entity, t)
    BY <1>1, <1>7, <2>2, <2>3
  <2> QED
    BY <1>9, <2>1, <2>2, <2>4 DEF ShotInv, OverIsOver
<1>14. NamesAreUnique'
  BY <1>1 DEF ShotInv, NamesAreUnique
<1> QED
  BY <1>10, <1>11, <1>12, <1>13, <1>14 DEF ShotInv

(* What the queries answer follows. *)
LEMMA ShotInvGivesShownOnce ==
  ASSUME ShotInv
  PROVE  ShotsShownOnce
<1>0. fired \subseteq Keys /\ over \subseteq fired
  BY ShotRows DEF ShotInv
<1>1. ASSUME NEW f \in over, NEW a \in Accounts, NEW t \in Times,
             ShotShown(a, f.world, f.entity, t)
      PROVE  FALSE
  <2>1. f \in fired /\ f.world \in Worlds /\ f.entity \in Entities
    BY <1>0 DEF Keys
  <2>2. shot[f.world][f.entity] # NoShot /\ ~shot[f.world][f.entity].withdrawn
    BY <1>1 DEF ShotShown
  <2>3. f \in tomb
    BY <2>2 DEF ShotInv, OverIsOver
  <2>4. Key(f.world, f.entity) \in fired /\ Key(f.world, f.entity) # f
    BY <2>1, <2>2, <2>3 DEF ShotInv, ShotsWereFired, TombsReplaceShots
  <2>5. /\ Key(f.world, f.entity).world = f.world
        /\ Key(f.world, f.entity).entity = f.entity
    BY DEF Key
  <2> QED
    BY <2>1, <2>4, <2>5 DEF ShotInv, NamesAreUnique
<1> QED
  BY <1>1 DEF ShotsShownOnce, ShotInv, NamesAreUnique, TombsReplaceShots

----------------------------------------------------------------------------
(* Claims.  The parts of OneHolderPerEntity, and that a code belongs to a     *)
(* world where nobody approves in person, which no later step changes.        *)
OneHolder ==
  \A b1, b2 \in Bindings :
    /\ binding[b1].status = "APPROVED" /\ binding[b2].status = "APPROVED"
    /\ binding[b1].world = binding[b2].world
    /\ binding[b1].entity = binding[b2].entity
    => b1 = b2
CodesGrant ==
  \A b \in Bindings :
    LET c == binding[b].code
    IN  c # Nil => /\ binding[b].status = "APPROVED"
                   /\ code[c].consumed /\ ~code[c].revoked
                   /\ code[c].world = binding[b].world
                   /\ code[c].entity = binding[b].entity
OneGrantPerCode ==
  \A b1, b2 \in Bindings :
    binding[b1].code = binding[b2].code /\ binding[b1].code # Nil => b1 = b2
TriesAreBounded == \A c \in Codes : code[c].attempts <= MaxAttempts
CodesFitPolicies ==
  \A c \in Codes : code[c] # NoCode =>
    code[c].world \in Worlds /\ policy[code[c].world] \in {"CLAIM_CODE", "FIRST_CLAIM"}
ClaimInv ==
  /\ ClaimTypeOK /\ OneHolder /\ CodesGrant /\ OneGrantPerCode
  /\ TriesAreBounded /\ CodesFitPolicies

TargetsArePlaced == \A t \in Targets : target[t] # NoTarget => target[t].world # Nil

(* What the other steps leave as the claims and the shares need it. *)
Framed ==
  /\ \A w \in Worlds : policy[w] # Nil => policy'[w] = policy[w]
  /\ TargetsArePlaced'

PersonRow == [account : Accounts \cup {Nil}, world : Worlds \cup {Nil},
              entity : Entities \cup {Nil}]
ClaimRow == [person : Persons \cup {Nil}, world : Worlds \cup {Nil},
             entity : Entities \cup {Nil}, status : Statuses,
             revision : Revisions \cup {1}, code : Codes \cup {Nil}]
CodeRow == [world : Worlds \cup {Nil}, entity : Entities \cup {Nil},
            expires : Nat, attempts : Nat, consumed : BOOLEAN, revoked : BOOLEAN]

LEMMA ClaimRows ==
  ASSUME ClaimTypeOK
  PROVE  /\ person \in [Persons -> PersonRow]
         /\ binding \in [Bindings -> ClaimRow]
         /\ code \in [Codes -> CodeRow]
BY DEF ClaimTypeOK, PersonRow, ClaimRow, CodeRow

LEMMA InitialClaims ==
  ASSUME WorldInit
  PROVE  ClaimInv /\ TargetsArePlaced
<1>1. ClaimTypeOK
  BY InitialTypes DEF TypeOK
<1> QED
  BY <1>1, ClaimAssumption
     DEF WorldInit, Init, ClaimInit, ClaimInv, OneHolder, CodesGrant,
         OneGrantPerCode, TriesAreBounded, CodesFitPolicies, TargetsArePlaced,
         NoClaim, NoCode

LEMMA ScopeFrame ==
  ASSUME BaseTypeOK, TargetsArePlaced,
         \/ WorldNext \/ RoleNext \/ TargetNext \/ GrantNext \/ BindingNext
         \/ AppearanceNext \/ RightsNext \/ OwnerNext \/ ModerationNext
         \/ ProfileNext \/ Tick
  PROVE  Framed /\ UNCHANGED share
<1>1. CASE WorldNext
  BY <1>1 DEF WorldNext, CreateScope, EntityWorld, Exists, Framed,
              TargetsArePlaced, BaseTypeOK
<1>2. CASE RoleNext
  BY <1>2 DEF RoleNext, SetScopeAcl, Framed, TargetsArePlaced
<1>3. CASE TargetNext
  <2> SUFFICES ASSUME NEW a \in Accounts, NEW w \in Worlds, NEW t \in Targets,
                      NEW k \in Kinds, NEW done \in 1..3,
                      CreateTarget(a, w, t, k, done)
               PROVE  Framed /\ UNCHANGED share
    BY <1>3 DEF TargetNext
  <2>1. target' = [target EXCEPT ![t] = [world |-> w, kind |-> k]]
        /\ UNCHANGED <<policy, share>>
    BY DEF CreateTarget
  <2>2. [world |-> w, kind |-> k].world # Nil
    BY NilAssumption
  <2> QED
    BY <2>1, <2>2 DEF Framed, TargetsArePlaced, BaseTypeOK
<1>4. CASE GrantNext
  BY <1>4 DEF GrantNext, SetAcl, Framed, TargetsArePlaced
<1>5. CASE BindingNext
  BY <1>5 DEF BindingNext, RegisterBinding, ObserveBinding, Framed,
              TargetsArePlaced
<1>6. CASE AppearanceNext
  BY <1>6 DEF AppearanceNext, UpdateAppearance, scopeVars, Framed, TargetsArePlaced
<1>7. CASE RightsNext
  BY <1>7 DEF RightsNext, SetAssetAcl, SetVisibility, scopeVars, Framed,
              TargetsArePlaced
<1>8. CASE OwnerNext \/ ModerationNext
  BY <1>8 DEF OwnerNext, AssignOwner, ModerationNext, Moderate, scopeVars,
              Framed, TargetsArePlaced
<1>9. CASE ProfileNext \/ Tick
  BY <1>9 DEF ProfileNext, MoveProfile, ToggleProvider, Tick, scopeVars, Framed,
              TargetsArePlaced
<1> QED
  BY <1>1, <1>2, <1>3, <1>4, <1>5, <1>6, <1>7, <1>8, <1>9

LEMMA EntityFrame ==
  ASSUME BaseTypeOK, TargetsArePlaced, EntityNext
  PROVE  Framed
<1> SUFFICES ASSUME NEW a \in Accounts, NEW w \in Worlds, NEW e \in Entities,
                    NEW k \in Puppets, NEW t \in Targets,
                    NEW m \in Models \cup {Nil}, NEW sharing \in BOOLEAN,
                    NEW n \in Revisions,
                    PublishEntity(a, w, e, k, t, m, sharing, n)
             PROVE  Framed
  BY Zenon DEF EntityNext
<1>1. \/ target' = target
      \/ target' = [target EXCEPT ![t] = [world |-> w, kind |-> k]]
  BY Zenon DEF PublishEntity
<1>2. [world |-> w, kind |-> k].world # Nil
  BY NilAssumption
<1>3. UNCHANGED policy
  BY DEF PublishEntity
<1> QED
  BY <1>1, <1>2, <1>3 DEF Framed, TargetsArePlaced, BaseTypeOK

(* Steps that touch no claim keep the claims. *)
LEMMA ClaimsFramed ==
  ASSUME ClaimInv, Framed, UNCHANGED claimVars
  PROVE  ClaimInv'
<1>1. CodesFitPolicies'
  BY PolicyAssumption DEF ClaimInv, CodesFitPolicies, Framed, claimVars, Policies
<1>2. ClaimTypeOK'
  BY DEF ClaimInv, ClaimTypeOK, claimVars
<1> QED
  BY <1>1, <1>2 DEF ClaimInv, OneHolder, CodesGrant, OneGrantPerCode,
                    TriesAreBounded, claimVars

(* Nobody decides on what was claimed by a code. *)
LEMMA DecisionsSpareClaims ==
  ASSUME ClaimInv, NEW a \in Accounts, NEW b \in Bindings,
         NEW s \in {"APPROVED", "REJECTED"}, NEW n \in Revisions,
         DecideBinding(a, b, s, n)
  PROVE  binding[b].code = Nil
<1> SUFFICES ASSUME binding[b].code # Nil
             PROVE  FALSE
  OBVIOUS
<1>1. binding[b].code \in Codes
  BY ClaimRows DEF ClaimInv, ClaimRow
<1>2. /\ code[binding[b].code].consumed
      /\ code[binding[b].code].world = binding[b].world
  BY DEF ClaimInv, CodesGrant
<1>3. code[binding[b].code] # NoCode
  BY <1>2 DEF NoCode
<1>4. policy[binding[b].world] # "STRICT_APPROVAL"
  BY <1>1, <1>2, <1>3 DEF ClaimInv, CodesFitPolicies
<1> QED
  BY <1>4 DEF DecideBinding, Decides

LEMMA ClaimSteps ==
  ASSUME BaseTypeOK, TargetsArePlaced, ClaimInv, ClaimNext, UNCHANGED baseVars
  PROVE  /\ ClaimInv'
         /\ \A b \in Bindings : binding[b].code # Nil => binding'[b] = binding[b]
<1> DEFINE Final ==
      \A b \in Bindings : binding[b].code # Nil => binding'[b] = binding[b]
<1>0. /\ person \in [Persons -> PersonRow] /\ binding \in [Bindings -> ClaimRow]
      /\ code \in [Codes -> CodeRow] /\ UNCHANGED policy
  BY ClaimRows DEF ClaimInv, baseVars, scopeVars
<1>1. ClaimTypeOK'
  BY ClaimTypes DEF ClaimInv
<1>2. ASSUME NEW a \in Accounts, NEW i \in Persons, NEW w \in Worlds,
             NEW e \in Entities, CreateIdentity(a, i, w, e)
      PROVE  ClaimInv' /\ Final
  BY <1>0, <1>1, <1>2
     DEF CreateIdentity, ClaimInv, OneHolder, CodesGrant, OneGrantPerCode,
         TriesAreBounded, CodesFitPolicies
<1>3. ASSUME NEW a \in Accounts, NEW i \in Persons, NEW b \in Bindings,
             NEW t \in Targets, RequestBinding(a, i, b, t)
      PROVE  ClaimInv' /\ Final
  <2> DEFINE new == [person |-> i, world |-> person[i].world,
                     entity |-> person[i].entity, status |-> "PENDING",
                     revision |-> 0, code |-> Nil]
  <2>1. /\ binding[b] = NoClaim /\ binding' = [binding EXCEPT ![b] = new]
        /\ UNCHANGED <<person, code>>
    BY <1>3 DEF RequestBinding
  <2>2. new.status # "APPROVED" /\ new.code = Nil /\ binding[b].code = Nil
    BY <2>1 DEF NoClaim
  <2> HIDE DEF new
  <2>3. \A c \in Bindings :
          binding'[c] = IF c = b THEN new ELSE binding[c]
    BY <1>0, <2>1
  <2>4. OneHolder'
    BY <2>2, <2>3 DEF ClaimInv, OneHolder
  <2>5. CodesGrant'
    BY <2>1, <2>2, <2>3 DEF ClaimInv, CodesGrant
  <2>6. OneGrantPerCode'
    BY <2>2, <2>3 DEF ClaimInv, OneGrantPerCode
  <2>7. TriesAreBounded' /\ CodesFitPolicies'
    BY <1>0, <2>1 DEF ClaimInv, TriesAreBounded, CodesFitPolicies
  <2> QED
    BY <1>1, <2>2, <2>3, <2>4, <2>5, <2>6, <2>7 DEF ClaimInv
<1>4. ASSUME NEW a \in Accounts, NEW b \in Bindings,
             NEW s \in {"APPROVED", "REJECTED"}, NEW n \in Revisions,
             DecideBinding(a, b, s, n)
      PROVE  ClaimInv' /\ Final
  <2> DEFINE new == [binding[b] EXCEPT !.status = s, !.revision = @ + 1]
  <2>1. binding[b].code = Nil
    BY <1>4, DecisionsSpareClaims
  <2>2. /\ binding' = [binding EXCEPT ![b] = new] /\ UNCHANGED <<person, code>>
        /\ s = "APPROVED" => MayHold(b, binding[b].world, binding[b].entity)
    BY <1>4 DEF DecideBinding
  <2>3. /\ new.status = s /\ new.code = Nil
        /\ new.world = binding[b].world /\ new.entity = binding[b].entity
    <3>1. binding[b] \in ClaimRow
      BY <1>0
    <3> QED
      BY <2>1, <3>1 DEF ClaimRow
  <2> HIDE DEF new
  <2>4. \A c \in Bindings :
          binding'[c] = IF c = b THEN new ELSE binding[c]
    BY <1>0, <2>2
  <2>5. OneHolder'
    BY <2>2, <2>3, <2>4 DEF ClaimInv, OneHolder, MayHold, Holders
  <2>6. CodesGrant'
    BY <2>2, <2>3, <2>4 DEF ClaimInv, CodesGrant
  <2>7. OneGrantPerCode'
    BY <2>3, <2>4 DEF ClaimInv, OneGrantPerCode
  <2>8. TriesAreBounded' /\ CodesFitPolicies'
    BY <1>0, <2>2 DEF ClaimInv, TriesAreBounded, CodesFitPolicies
  <2> QED
    BY <1>1, <2>1, <2>4, <2>5, <2>6, <2>7, <2>8 DEF ClaimInv
<1>5. ASSUME NEW a \in Accounts, NEW c \in Codes, NEW t \in Targets,
             NEW e \in Entities, IssueCode(a, c, t, e)
      PROVE  ClaimInv' /\ Final
  <2> DEFINE w == target[t].world
             new == [NoCode EXCEPT !.world = w, !.entity = e,
                                   !.expires = now + CodeTtl]
  <2>1. /\ policy[w] \in {"CLAIM_CODE", "FIRST_CLAIM"} /\ target[t] # NoTarget
        /\ code[c] = NoCode /\ code' = [code EXCEPT ![c] = new]
        /\ UNCHANGED <<person, binding>>
    BY <1>5 DEF IssueCode
  <2>2. w \in Worlds
    BY <2>1 DEF TargetsArePlaced, BaseTypeOK
  <2>3. new.world = w /\ new.attempts = 0 /\ ~NoCode.consumed
    BY DEF NoCode
  <2> HIDE DEF new, w
  <2>4. \A d \in Codes : code'[d] = IF d = c THEN new ELSE code[d]
    BY <1>0, <2>1
  <2>5. CodesGrant'
    <3> SUFFICES ASSUME NEW b \in Bindings, binding[b].code # Nil
                 PROVE  code'[binding[b].code] = code[binding[b].code]
      BY <2>1 DEF ClaimInv, CodesGrant
    <3>1. code[binding[b].code].consumed
      BY DEF ClaimInv, CodesGrant
    <3>2. binding[b].code \in Codes
      BY <1>0 DEF ClaimRow
    <3> QED
      BY <2>1, <2>3, <2>4, <3>1, <3>2
  <2>6. TriesAreBounded'
    BY <2>3, <2>4, ClaimAssumption DEF ClaimInv, TriesAreBounded
  <2>7. CodesFitPolicies'
    BY <1>0, <2>1, <2>2, <2>3, <2>4 DEF ClaimInv, CodesFitPolicies
  <2> QED
    BY <1>1, <2>1, <2>5, <2>6, <2>7 DEF ClaimInv, OneHolder, OneGrantPerCode
<1>6. ASSUME NEW a \in Accounts, NEW i \in Persons, NEW c \in Codes,
             NEW b \in Bindings, NEW killed \in BOOLEAN,
             RedeemCode(a, i, c, b, killed)
      PROVE  ClaimInv' /\ Final
  <2> DEFINE w == code[c].world
             e == code[c].entity
             new == [person |-> i, world |-> w, entity |-> e,
                     status |-> "APPROVED", revision |-> 1, code |-> c]
             tried == [code[c] EXCEPT !.attempts = @ + 1]
             used == [code[c] EXCEPT !.attempts = @ + 1, !.consumed = TRUE]
  <2>1. Redeemable(c) /\ binding[b] = NoClaim
    BY <1>6 DEF RedeemCode
  <2>2. code[c] \in CodeRow
    BY <1>0
  <2>3. /\ tried.world = w /\ tried.entity = e /\ tried.consumed = code[c].consumed
        /\ tried.revoked = code[c].revoked /\ tried.attempts <= MaxAttempts
        /\ used.world = w /\ used.entity = e /\ used.consumed
        /\ ~used.revoked /\ used.attempts <= MaxAttempts
    BY <2>1, <2>2, ClaimAssumption DEF CodeRow, Redeemable
  <2>4. \/ /\ binding' = [binding EXCEPT ![b] = new] /\ MayHold(b, w, e)
           /\ code' = [code EXCEPT ![c] = used]
        \/ /\ code' = [code EXCEPT ![c] = tried] /\ binding' = binding
    BY <1>6 DEF RedeemCode
  <2>5. /\ new.code = c /\ new.world = w /\ new.entity = e
        /\ new.status = "APPROVED"
    OBVIOUS
  <2>6. /\ binding[b].code = Nil /\ code[c] # NoCode /\ ~code[c].consumed
    BY <2>1 DEF NoClaim, Redeemable
  <2>7. \A d \in Bindings : binding[d].code # c
    BY <2>6, NilAssumption, ClaimAssumption DEF ClaimInv, CodesGrant
  <2>8. w \in Worlds /\ policy[w] \in {"CLAIM_CODE", "FIRST_CLAIM"}
    BY <2>6 DEF ClaimInv, CodesFitPolicies
  <2> HIDE DEF new, tried, used, w, e
  <2>9. CASE /\ binding' = [binding EXCEPT ![b] = new] /\ MayHold(b, w, e)
             /\ code' = [code EXCEPT ![c] = used]
    <3>1. /\ \A d \in Bindings :
                binding'[d] = IF d = b THEN new ELSE binding[d]
          /\ \A d \in Codes : code'[d] = IF d = c THEN used ELSE code[d]
      BY <1>0, <2>9
    <3>2. OneHolder'
      BY <2>5, <2>9, <3>1 DEF ClaimInv, OneHolder, MayHold, Holders
    <3>3. CodesGrant'
      <4> SUFFICES ASSUME NEW d \in Bindings, binding'[d].code # Nil
                   PROVE  LET x == binding'[d].code
                          IN  /\ binding'[d].status = "APPROVED"
                              /\ code'[x].consumed /\ ~code'[x].revoked
                              /\ code'[x].world = binding'[d].world
                              /\ code'[x].entity = binding'[d].entity
        BY DEF CodesGrant
      <4>1. CASE d = b
        BY <2>3, <2>5, <3>1, <4>1
      <4>2. CASE d # b
        <5>1. /\ binding'[d] = binding[d] /\ binding[d].code \in Codes
              /\ binding[d].code # c
          BY <1>0, <2>7, <3>1, <4>2 DEF ClaimRow
        <5> QED
          BY <3>1, <5>1 DEF ClaimInv, CodesGrant
      <4> QED
        BY <4>1, <4>2
    <3>4. OneGrantPerCode'
      BY <2>5, <2>7, <3>1 DEF ClaimInv, OneGrantPerCode
    <3>5. TriesAreBounded'
      BY <2>3, <3>1 DEF ClaimInv, TriesAreBounded
    <3>6. CodesFitPolicies'
      BY <1>0, <2>3, <2>8, <3>1 DEF ClaimInv, CodesFitPolicies
    <3> QED
      BY <1>1, <2>6, <3>1, <3>2, <3>3, <3>4, <3>5, <3>6 DEF ClaimInv
  <2>10. CASE code' = [code EXCEPT ![c] = tried] /\ binding' = binding
    <3>1. \A d \in Codes : code'[d] = IF d = c THEN tried ELSE code[d]
      BY <1>0, <2>10
    <3>2. CodesGrant'
      <4> SUFFICES ASSUME NEW d \in Bindings, binding[d].code # Nil
                   PROVE  code'[binding[d].code] = code[binding[d].code]
        BY <2>10 DEF ClaimInv, CodesGrant
      <4> QED
        BY <1>0, <2>7, <3>1 DEF ClaimRow
    <3>3. TriesAreBounded'
      BY <2>3, <3>1 DEF ClaimInv, TriesAreBounded
    <3>4. CodesFitPolicies'
      BY <1>0, <2>3, <2>8, <3>1 DEF ClaimInv, CodesFitPolicies
    <3> QED
      BY <1>1, <2>10, <3>2, <3>3, <3>4 DEF ClaimInv, OneHolder, OneGrantPerCode
  <2> QED
    BY <2>4, <2>9, <2>10
<1>7. ASSUME NEW a \in Accounts, NEW c \in Codes, RevokeCode(a, c)
      PROVE  ClaimInv' /\ Final
  <2> DEFINE new == [code[c] EXCEPT !.revoked = TRUE]
  <2>1. /\ code[c] # NoCode /\ ~code[c].consumed
        /\ code' = [code EXCEPT ![c] = new] /\ UNCHANGED <<person, binding>>
    BY <1>7 DEF RevokeCode
  <2>2. new.world = code[c].world /\ new.attempts = code[c].attempts
    BY <1>0 DEF CodeRow
  <2> HIDE DEF new
  <2>3. \A d \in Codes : code'[d] = IF d = c THEN new ELSE code[d]
    BY <1>0, <2>1
  <2>4. CodesGrant'
    <3> SUFFICES ASSUME NEW d \in Bindings, binding[d].code # Nil
                 PROVE  code'[binding[d].code] = code[binding[d].code]
      BY <2>1 DEF ClaimInv, CodesGrant
    <3>1. binding[d].code # c
      BY <2>1 DEF ClaimInv, CodesGrant
    <3> QED
      BY <1>0, <2>3, <3>1 DEF ClaimRow
  <2>5. TriesAreBounded' /\ CodesFitPolicies'
    BY <1>0, <2>1, <2>2, <2>3 DEF ClaimInv, TriesAreBounded, CodesFitPolicies
  <2> QED
    BY <1>1, <2>1, <2>4, <2>5 DEF ClaimInv, OneHolder, OneGrantPerCode
<1> HIDE DEF Final
<1>8. ClaimInv' /\ Final
  BY <1>2, <1>3, <1>4, <1>5, <1>6, <1>7, Zenon DEF ClaimNext
<1> QED
  BY <1>8 DEF Final

LEMMA ClaimInvGivesOneHolder ==
  ASSUME ClaimInv
  PROVE  OneHolderPerEntity
<1>1. \A b \in Bindings : binding[b].code # Nil =>
        policy[code[binding[b].code].world] # "STRICT_APPROVAL"
  <2> SUFFICES ASSUME NEW b \in Bindings, binding[b].code # Nil
               PROVE  policy[code[binding[b].code].world] # "STRICT_APPROVAL"
    OBVIOUS
  <2>1. binding[b].code \in Codes
    BY ClaimRows DEF ClaimInv, ClaimRow
  <2>2. code[binding[b].code] # NoCode
    BY DEF ClaimInv, CodesGrant, NoCode
  <2> QED
    BY <2>1, <2>2 DEF ClaimInv, CodesFitPolicies
<1> QED
  BY <1>1 DEF OneHolderPerEntity, ClaimInv, OneHolder, CodesGrant,
              OneGrantPerCode, TriesAreBounded

----------------------------------------------------------------------------
(* Entities and motions.  A share is what was offered last; a motion that was *)
(* withdrawn has neither a lease nor a payload.                               *)
MotionRow == [by : Accounts \cup {Nil}, binding : Revisions,
              appearance : Revisions \cup {-1}, model : Models \cup {Nil},
              revision : Revisions, expires : Nat, event : Motions \cup {Nil},
              started : Starts, live : BOOLEAN]
VehicleRow == [by : Accounts \cup {Nil}, target : Targets \cup {Nil},
               model : Models \cup {Nil}, revision : Revisions]
MotionTable == [Worlds -> [Entities -> MotionRow]]

SharesWereOffered == \A t \in Targets : share[t] # NoShare => share[t] = offer[t]
WithdrawnIsDead ==
  \A w \in Worlds, e \in Entities :
    motion[w][e].expires = 0 => ~motion[w][e].live
AvatarInv == AvatarTypeOK /\ SharesWereOffered /\ WithdrawnIsDead

LEMMA AvatarRows ==
  ASSUME AvatarTypeOK
  PROVE  /\ motion \in MotionTable
         /\ vehicle \in [Worlds -> [Entities -> VehicleRow]]
         /\ offer \in [Targets ->
              [by : Accounts \cup {Nil}, model : Models \cup {Nil}]]
BY DEF AvatarTypeOK, MotionTable, MotionRow, VehicleRow

LEMMA InitialAvatars ==
  ASSUME WorldInit
  PROVE  AvatarInv
<1>1. AvatarTypeOK
  BY InitialTypes DEF TypeOK
<1> QED
  BY <1>1 DEF WorldInit, Init, AvatarInit, AvatarInv, SharesWereOffered,
              WithdrawnIsDead, NoMotion

LEMMA EntitiesAreOffered ==
  ASSUME BaseTypeOK, AvatarInv, EntityNext
  PROVE  AvatarInv'
<1>0. AvatarTypeOK'
  BY EntityTypes DEF AvatarInv
<1> SUFFICES ASSUME NEW a \in Accounts, NEW w \in Worlds, NEW e \in Entities,
                    NEW k \in Puppets, NEW t \in Targets,
                    NEW m \in Models \cup {Nil}, NEW sharing \in BOOLEAN,
                    NEW n \in Revisions,
                    PublishEntity(a, w, e, k, t, m, sharing, n)
             PROVE  AvatarInv'
  BY Zenon DEF EntityNext
<1>1. /\ share' = [share EXCEPT ![t] = NewShare(t, a, m, sharing)]
      /\ offer' = [offer EXCEPT ![t] =
                     IF sharing THEN [by |-> a, model |-> m] ELSE NoShare]
      /\ UNCHANGED motion
  BY DEF PublishEntity
<1>2. SharesWereOffered'
  BY <1>1, AvatarRows DEF AvatarInv, SharesWereOffered, NewShare, BaseTypeOK
<1> QED
  BY <1>0, <1>1, <1>2 DEF AvatarInv, WithdrawnIsDead

(* What a step of a motion does, as MotionFollowsItsDriver says it. *)
Driven ==
  \A w \in Worlds, e \in Entities :
    LET old == motion[w][e]
        new == motion'[w][e]
    IN  old # NoMotion =>
          /\ old.by # new.by => old.expires <= now
          /\ old.live /\ new.live /\ old.binding = new.binding
               /\ old.appearance = new.appearance
               => old.started <= new.started
          /\ old.expires = 0 /\ new.live => old.event # new.event

(* Motions that do not change are driven. *)
LEMMA MotionsRest ==
  ASSUME AvatarInv, UNCHANGED motion
  PROVE  Driven
<1> SUFFICES ASSUME NEW w \in Worlds, NEW e \in Entities
             PROVE  /\ motion[w][e].started <= motion[w][e].started
                    /\ motion[w][e].expires = 0 => ~motion[w][e].live
  BY DEF Driven
<1>1. motion[w][e] \in MotionRow
  BY AvatarRows DEF AvatarInv, MotionTable
<1> QED
  BY <1>1 DEF MotionRow, Starts, AvatarInv, WithdrawnIsDead

LEMMA MotionsArePublished ==
  ASSUME BaseTypeOK, AvatarInv, UNCHANGED share,
         NEW a \in Accounts, NEW w \in Worlds, NEW e \in Entities,
         NEW v \in Motions, NEW started \in Starts, NEW n \in Revisions,
         NEW t \in Times, PublishMotion(a, w, e, v, started, n, t)
  PROVE  AvatarInv' /\ Driven
<1> DEFINE old == motion[w][e]
           b == bound[w][e].revision
           p == appearance[bound[w][e].target].revision
           m == appearance[bound[w][e].target].model
           new == [by |-> a, binding |-> b, appearance |-> p, model |-> m,
                   revision |-> n + 1, expires |-> t + MotionTtl, event |-> v,
                   started |-> started, live |-> TRUE]
<1>0. motion \in MotionTable /\ motion[w][e] \in MotionRow
  BY AvatarRows DEF AvatarInv, MotionTable
<1>1. /\ motion' = [motion EXCEPT ![w][e] = new]
      /\ UNCHANGED <<vehicle, offer>>
      /\ n < MaxRevision /\ t <= now /\ Puppet(w, e)
  BY DEF PublishMotion, Read
<1>2. old # NoMotion =>
        /\ MaySteer(old, a, t)
        /\ old.event = v => t < old.expires
        /\ old.live /\ old.binding = b /\ old.appearance = p
             => old.started <= started
  BY DEF PublishMotion
<1>3. b \in Revisions /\ bound[w][e].target \in Targets
  BY <1>1 DEF Puppet, BaseTypeOK
<1>4. p \in Revisions \cup {-1} /\ m \in Models \cup {Nil}
  BY <1>3 DEF BaseTypeOK
<1>5. t \in Nat /\ now \in Nat /\ t + MotionTtl \in Nat /\ t + MotionTtl # 0
      /\ n + 1 \in Revisions
  BY <1>1, BoundsAssumption, MotionAssumption DEF Times, Revisions, BaseTypeOK
<1> HIDE DEF b, p, m
<1>6. /\ new \in MotionRow /\ new.by = a /\ new.binding = b
      /\ new.appearance = p /\ new.expires # 0 /\ new.event = v
      /\ new.started = started /\ new.live
  BY <1>3, <1>4, <1>5 DEF MotionRow
<1> HIDE DEF new
<1>7. motion' \in MotionTable
  BY <1>0, <1>1, <1>6 DEF MotionTable
<1>8. /\ motion'[w][e] = new
      /\ \A x \in Worlds, f \in Entities :
            <<x, f>> # <<w, e>> => motion'[x][f] = motion[x][f]
  BY <1>0, <1>1 DEF MotionTable
<1>9. AvatarTypeOK'
  BY <1>1, <1>7 DEF AvatarInv, AvatarTypeOK, MotionTable, MotionRow
<1>10. SharesWereOffered'
  BY <1>1 DEF AvatarInv, SharesWereOffered
<1>11. WithdrawnIsDead'
  BY <1>6, <1>8 DEF AvatarInv, WithdrawnIsDead
<1>12. ASSUME old # NoMotion
       PROVE  /\ old.by # new.by => old.expires <= now
              /\ old.live /\ new.live /\ old.binding = new.binding
                   /\ old.appearance = new.appearance
                   => old.started <= new.started
              /\ old.expires = 0 /\ new.live => old.event # new.event
  BY <1>0, <1>1, <1>2, <1>5, <1>6, <1>12 DEF MaySteer, MotionRow
<1>13. ASSUME NEW x \in Worlds, NEW f \in Entities, <<x, f>> # <<w, e>>
       PROVE  /\ motion[x][f] = motion'[x][f]
              /\ motion[x][f].started <= motion[x][f].started
              /\ motion[x][f].expires = 0 => ~motion[x][f].live
  <2>1. motion[x][f] \in MotionRow
    BY <1>0 DEF MotionTable
  <2> QED
    BY <1>8, <1>13, <2>1 DEF MotionRow, Starts, AvatarInv, WithdrawnIsDead
<1>14. Driven
  <2> SUFFICES ASSUME NEW x \in Worlds, NEW f \in Entities,
                      motion[x][f] # NoMotion
               PROVE  LET was == motion[x][f]
                          is == motion'[x][f]
                      IN  /\ was.by # is.by => was.expires <= now
                          /\ was.live /\ is.live /\ was.binding = is.binding
                               /\ was.appearance = is.appearance
                               => was.started <= is.started
                          /\ was.expires = 0 /\ is.live => was.event # is.event
    BY DEF Driven
  <2>1. CASE x = w /\ f = e
    BY <1>8, <1>12, <2>1
  <2>2. CASE <<x, f>> # <<w, e>>
    BY <1>13, <2>2
  <2> QED
    BY <2>1, <2>2
<1> QED
  BY <1>9, <1>10, <1>11, <1>14 DEF AvatarInv

(* Withdrawals and cleanups only end motions. *)
MotionsOnlyEnd ==
  /\ motion' \in MotionTable /\ UNCHANGED <<vehicle, offer>>
  /\ \A w \in Worlds, e \in Entities :
       \/ motion'[w][e] = motion[w][e]
       \/ motion'[w][e].by = motion[w][e].by /\ ~motion'[w][e].live

LEMMA MotionsEnd ==
  ASSUME BaseTypeOK, AvatarInv, UNCHANGED share,
         \/ \E a \in Accounts, w \in Worlds, e \in Entities, n \in Revisions :
              WithdrawMotion(a, w, e, n)
         \/ \E t \in Times : CleanMotions(t)
  PROVE  AvatarInv' /\ Driven
<1>0. motion \in MotionTable
  BY AvatarRows DEF AvatarInv
<1>1. ASSUME NEW w \in Worlds, NEW e \in Entities
      PROVE  /\ motion[w][e] \in MotionRow
             /\ [motion[w][e] EXCEPT !.live = FALSE] \in MotionRow
  <2>1. motion[w][e] \in MotionRow
    BY <1>0 DEF MotionTable
  <2> QED
    BY <2>1 DEF MotionRow
<1>2. MotionsOnlyEnd
  <2>1. ASSUME NEW a \in Accounts, NEW w \in Worlds, NEW e \in Entities,
               NEW n \in Revisions, WithdrawMotion(a, w, e, n)
        PROVE  MotionsOnlyEnd
    <3> DEFINE new == [motion[w][e] EXCEPT !.live = FALSE, !.expires = 0,
                                           !.revision = @ + 1]
    <3>1. motion[w][e].revision + 1 \in Revisions
      <4>1. motion[w][e] \in MotionRow
        BY <1>1
      <4>2. motion[w][e].revision < MaxRevision
        BY <2>1 DEF WithdrawMotion
      <4> QED
        BY <4>1, <4>2, BoundsAssumption DEF Revisions, MotionRow
    <3>2. new \in MotionRow /\ new.by = motion[w][e].by /\ ~new.live
      <4>1. motion[w][e] \in MotionRow
        BY <1>1
      <4> QED
        BY <3>1, <4>1 DEF MotionRow
    <3>3. motion' = [motion EXCEPT ![w][e] = new] /\ UNCHANGED <<vehicle, offer>>
      BY <2>1 DEF WithdrawMotion
    <3> HIDE DEF new
    <3> QED
      BY <1>0, <3>2, <3>3 DEF MotionTable, MotionsOnlyEnd
  <2>2. ASSUME NEW t \in Times, CleanMotions(t)
        PROVE  MotionsOnlyEnd
    <3>1. /\ motion' = [w \in Worlds |-> [e \in Entities |->
               IF motion[w][e].expires <= t
               THEN [motion[w][e] EXCEPT !.live = FALSE] ELSE motion[w][e]]]
          /\ UNCHANGED <<vehicle, offer>>
      BY <2>2 DEF CleanMotions
    <3>2. \A w \in Worlds, e \in Entities :
            /\ [motion[w][e] EXCEPT !.live = FALSE].by = motion[w][e].by
            /\ ~[motion[w][e] EXCEPT !.live = FALSE].live
      BY <1>1 DEF MotionRow
    <3> QED
      BY <1>1, <3>1, <3>2 DEF MotionTable, MotionsOnlyEnd
  <2> QED
    BY <2>1, <2>2
<1>3. AvatarTypeOK'
  BY <1>2 DEF MotionsOnlyEnd, AvatarInv, AvatarTypeOK, MotionTable, MotionRow
<1>4. SharesWereOffered' /\ WithdrawnIsDead'
  BY <1>2 DEF MotionsOnlyEnd, AvatarInv, SharesWereOffered, WithdrawnIsDead
<1>5. Driven
  <2> SUFFICES ASSUME NEW w \in Worlds, NEW e \in Entities,
                      motion[w][e] # NoMotion
               PROVE  LET old == motion[w][e]
                          new == motion'[w][e]
                      IN  /\ old.by # new.by => old.expires <= now
                          /\ old.live /\ new.live /\ old.binding = new.binding
                               /\ old.appearance = new.appearance
                               => old.started <= new.started
                          /\ old.expires = 0 /\ new.live => old.event # new.event
    BY DEF Driven
  <2>1. motion[w][e].started <= motion[w][e].started
    <3>1. motion[w][e] \in MotionRow
      BY <1>1
    <3> QED
      BY <3>1 DEF MotionRow, Starts
  <2> QED
    BY <1>2, <2>1 DEF MotionsOnlyEnd, AvatarInv, WithdrawnIsDead
<1> QED
  BY <1>3, <1>4, <1>5 DEF AvatarInv

LEMMA VehiclesArePublished ==
  ASSUME BaseTypeOK, AvatarInv, UNCHANGED share, VehicleNext
  PROVE  AvatarInv' /\ UNCHANGED motion
<1> SUFFICES ASSUME NEW a \in Accounts, NEW w \in Worlds, NEW e \in Entities,
                    NEW t \in Targets, NEW m \in Models \cup {Nil},
                    NEW n \in Revisions, PublishVehicle(a, w, e, t, m, n)
             PROVE  AvatarInv' /\ UNCHANGED motion
  BY Zenon DEF VehicleNext
<1> DEFINE new == [by |-> a, target |-> t, model |-> m, revision |-> n + 1]
<1>1. /\ vehicle' = [vehicle EXCEPT ![w][e] = new]
      /\ UNCHANGED <<motion, offer>> /\ n < MaxRevision
  BY DEF PublishVehicle
<1>2. new \in VehicleRow
  BY <1>1, BoundsAssumption DEF VehicleRow, Revisions
<1> HIDE DEF new
<1>3. vehicle' \in [Worlds -> [Entities -> VehicleRow]]
  BY <1>1, <1>2, AvatarRows DEF AvatarInv
<1> QED
  BY <1>1, <1>3 DEF AvatarInv, AvatarTypeOK, VehicleRow, SharesWereOffered,
                    WithdrawnIsDead

----------------------------------------------------------------------------
(* All of it together. *)
WorldInv ==
  /\ BaseTypeOK /\ TargetsArePlaced
  /\ ClaimInv /\ ShotInv /\ AvatarInv

ClaimsStand == \A b \in Bindings : binding[b].code # Nil => binding'[b] = binding[b]

LEMMA ShotsFramed ==
  ASSUME ShotInv, UNCHANGED shotVars
  PROVE  ShotInv'
<1>1. ShotTypeOK'
  BY DEF ShotInv, ShotTypeOK, shotVars
<1> QED
  BY <1>1 DEF ShotInv, ShotsWereFired, OverIsOver, NamesAreUnique,
              TombsReplaceShots, Key, shotVars

LEMMA AvatarsFramed ==
  ASSUME AvatarInv, UNCHANGED <<share, avatarVars>>
  PROVE  AvatarInv'
BY DEF AvatarInv, AvatarTypeOK, SharesWereOffered, WithdrawnIsDead, avatarVars

LEMMA BaseFramed ==
  ASSUME BaseTypeOK, TargetsArePlaced, UNCHANGED baseVars
  PROVE  BaseTypeOK' /\ Framed /\ UNCHANGED share
BY DEF BaseTypeOK, TargetsArePlaced, Framed, baseVars, scopeVars, modelVars,
       profileVars

LEMMA WorldSteps ==
  ASSUME WorldInv, [Next]_vars
  PROVE  /\ WorldInv'
         /\ ClaimsStand
         /\ Driven
<1> USE DEF WorldInv
<1>1. CASE TimeStep \/ ScopeStep
  <2>1. BaseTypeOK' /\ Framed /\ UNCHANGED share
    BY <1>1, ScopeTypes, ModelTypes, ScopeFrame, Zenon DEF TimeStep, ScopeStep
  <2>2. UNCHANGED <<claimVars, shotVars, avatarVars>>
    BY <1>1 DEF TimeStep, ScopeStep
  <2>3. ClaimInv' /\ ShotInv' /\ AvatarInv' /\ Driven
    <3>1. UNCHANGED motion /\ UNCHANGED <<share, avatarVars>>
      BY <2>1, <2>2 DEF avatarVars
    <3> QED
      BY <2>1, <2>2, <3>1, ClaimsFramed, ShotsFramed, AvatarsFramed, MotionsRest
  <2> QED
    BY <2>1, <2>2, <2>3 DEF Framed, ClaimsStand, claimVars
<1>2. CASE ClaimStep
  <2>1. ClaimNext /\ UNCHANGED <<baseVars, shotVars, avatarVars>>
    BY <1>2 DEF ClaimStep
  <2>2. BaseTypeOK' /\ Framed /\ UNCHANGED share
    BY <2>1, BaseFramed
  <2>3. ClaimInv' /\ ClaimsStand
    BY <2>1, ClaimSteps DEF ClaimsStand
  <2>4. UNCHANGED motion /\ UNCHANGED <<share, avatarVars>>
    BY <2>1, <2>2 DEF avatarVars
  <2>5. ShotInv' /\ AvatarInv' /\ Driven
    BY <2>1, <2>4, ShotsFramed, AvatarsFramed, MotionsRest
  <2> QED
    BY <2>2, <2>3, <2>5 DEF Framed
<1>3. CASE ShotStep
  <2>1. (ShotNext \/ FaceNext) /\ UNCHANGED <<baseVars, claimVars, avatarVars>>
    BY <1>3 DEF ShotStep
  <2>2. BaseTypeOK' /\ Framed /\ UNCHANGED share
    BY <2>1, BaseFramed
  <2>3. ShotInv'
    BY <2>1, ShotsAreInserted, ShotsAreRenewed, ShotsAreWithdrawn,
       FacesArePublished, Zenon DEF ShotNext, FaceNext
  <2>4. UNCHANGED motion /\ UNCHANGED <<share, avatarVars>>
    BY <2>1, <2>2 DEF avatarVars
  <2>5. ClaimInv' /\ AvatarInv' /\ Driven
    BY <2>1, <2>2, <2>4, ClaimsFramed, AvatarsFramed, MotionsRest
  <2> QED
    BY <2>1, <2>2, <2>3, <2>5 DEF Framed, ClaimsStand, claimVars
<1>4. CASE EntityStep
  <2>1. EntityNext /\ UNCHANGED <<claimVars, shotVars>>
    BY <1>4 DEF EntityStep
  <2>2. BaseTypeOK' /\ Framed
    BY <2>1, EntityTypes, EntityFrame DEF AvatarInv
  <2>3. UNCHANGED motion
    BY <2>1 DEF EntityNext, PublishEntity
  <2>4. ClaimInv' /\ ShotInv' /\ AvatarInv' /\ Driven
    BY <2>1, <2>2, <2>3, ClaimsFramed, ShotsFramed, EntitiesAreOffered,
       MotionsRest
  <2> QED
    BY <2>1, <2>2, <2>4 DEF Framed, ClaimsStand, claimVars
<1>5. CASE AvatarStep \/ CleanupStep
  <2>1. UNCHANGED <<baseVars, claimVars>>
    BY <1>5 DEF AvatarStep, CleanupStep, Cleanup
  <2>2. BaseTypeOK' /\ Framed /\ UNCHANGED share
    BY <2>1, BaseFramed
  <2>3. ClaimInv' /\ ClaimsStand
    BY <2>1, <2>2, ClaimsFramed DEF ClaimsStand, claimVars
  <2>4. ShotInv'
    BY <1>5, ShotsFramed, ShotsAreCleaned DEF AvatarStep, CleanupStep, Cleanup
  <2>5. AvatarInv' /\ Driven
    <3>1. CASE VehicleNext
      BY <2>2, <3>1, VehiclesArePublished, MotionsRest
    <3>2. CASE MotionNext
      BY <2>2, <3>2, MotionsArePublished, MotionsEnd, Zenon DEF MotionNext
    <3>3. CASE CleanupStep
      BY <2>2, <3>3, MotionsEnd DEF CleanupStep, Cleanup
    <3> QED
      BY <1>5, <3>1, <3>2, <3>3 DEF AvatarStep
  <2> QED
    BY <2>2, <2>3, <2>4, <2>5 DEF Framed
<1>6. CASE UNCHANGED vars
  <2>1. UNCHANGED <<baseVars, claimVars, shotVars, avatarVars>>
    BY <1>6 DEF vars
  <2>2. BaseTypeOK' /\ Framed /\ UNCHANGED share
    BY <2>1, BaseFramed
  <2>3. UNCHANGED motion /\ UNCHANGED <<share, avatarVars>>
    BY <2>1, <2>2 DEF avatarVars
  <2> QED
    BY <2>1, <2>2, <2>3, ClaimsFramed, ShotsFramed, AvatarsFramed, MotionsRest
       DEF Framed, ClaimsStand, claimVars
<1> QED
  BY <1>1, <1>2, <1>3, <1>4, <1>5, <1>6 DEF Next

(* The tables of the world agree after every handler and every cleanup: the *)
(* inductive invariant the other theorems follow from.                        *)
THEOREM WorldInvariant == Spec => []WorldInv
<1>1. WorldInit => WorldInv
  BY InitialTypes, InitialClaims, InitialShots, InitialAvatars
     DEF TypeOK, WorldInv
<1>2. WorldInv /\ [Next]_vars => WorldInv'
  BY WorldSteps
<1> QED
  BY <1>1, <1>2, PTL DEF Spec

(* Every table holds rows of its kind, whatever the accounts, worlds, rows,  *)
(* times and revisions.                                                       *)
THEOREM TypeCorrect == Spec => []TypeOK
<1>1. WorldInv => TypeOK
  BY DEF WorldInv, TypeOK, ClaimInv, ShotInv, AvatarInv
<1> QED
  BY <1>1, WorldInvariant, PTL

(* An entity has one approved player, a code grants one binding, its own, and *)
(* is not tried too often (create_offline_binding, approve_offline_binding,   *)
(* redeem_claim_code).                                                        *)
THEOREM EntitiesHaveOneHolder == Spec => []OneHolderPerEntity
<1>1. WorldInv => OneHolderPerEntity
  BY ClaimInvGivesOneHolder DEF WorldInv
<1> QED
  BY <1>1, WorldInvariant, PTL

(* What was claimed by a code is never decided again.                         *)
THEOREM ClaimsStay == Spec => ClaimsAreFinal
<1>1. WorldInv /\ [Next]_vars =>
        [\A b \in Bindings :
           binding[b].code # Nil => binding'[b] = binding[b]]_<<baseVars, claimVars>>
  BY WorldSteps DEF ClaimsStand
<1> QED
  BY <1>1, WorldInvariant, PTL DEF Spec, ClaimsAreFinal

(* A shot is in the table or behind a tombstone, its names are used once, and *)
(* what is over is never shown again (visual.rs).                             *)
THEOREM ShotsOnce == Spec => []ShotsShownOnce
<1>1. WorldInv => ShotsShownOnce
  BY ShotInvGivesShownOnce DEF WorldInv
<1> QED
  BY <1>1, WorldInvariant, PTL

(* A private model is shown to others only by its last publisher's choice     *)
(* (entity_world.rs).                                                         *)
THEOREM SharesChosen == Spec => []SharesAreChosen
<1>1. WorldInv => SharesAreChosen
  <2> SUFFICES ASSUME WorldInv, NEW a \in Accounts, NEW w \in Worlds,
                      NEW e \in Entities, EntityShown(a, w, e),
                      ~MayRender(a, appearance[bound[w][e].target].model)
               PROVE  LET t == bound[w][e].target
                          m == appearance[t].model
                      IN  offer[t].model = m /\ MayShare(offer[t].by, m)
    BY DEF SharesAreChosen
  <2> DEFINE t == bound[w][e].target
             m == appearance[t].model
  <2>1. /\ t \in Targets /\ m # Nil
        /\ share[t].model = m /\ MayShare(share[t].by, m)
    BY DEF EntityShown, Puppet, WorldInv, BaseTypeOK
  <2>2. share[t] # NoShare
    BY <2>1 DEF NoShare
  <2> QED
    BY <2>1, <2>2 DEF WorldInv, AvatarInv, SharesWereOffered
<1> QED
  BY <1>1, WorldInvariant, PTL

(* An entity has one driver at a time, who does not rewind it                 *)
(* (entity_motion.rs).                                                        *)
THEOREM MotionsAreDriven == Spec => MotionFollowsItsDriver
<1>1. WorldInv /\ [Next]_vars =>
        [\A w \in Worlds, e \in Entities :
           LET old == motion[w][e]
               new == motion'[w][e]
           IN  old # NoMotion =>
                 /\ old.by # new.by => old.expires <= now
                 /\ old.live /\ new.live /\ old.binding = new.binding
                      /\ old.appearance = new.appearance
                      => old.started <= new.started
                 /\ old.expires = 0 /\ new.live => old.event # new.event]_
          <<baseVars, avatarVars>>
  BY WorldSteps DEF Driven
<1> QED
  BY <1>1, WorldInvariant, PTL DEF Spec, MotionFollowsItsDriver

(* A cleanup with the time t removes only what is not shown now.              *)
LEMMA CleanupKeepsAnswers ==
  ASSUME WorldInv, NEW t \in Times, Cleanup(t)
  PROVE  /\ \A a \in Accounts, w \in Worlds, e \in Entities :
              /\ ShotShown(a, w, e, now) <=> ShotShown(a, w, e, now)'
              /\ MotionShown(a, w, e, now) <=> MotionShown(a, w, e, now)'
         /\ \A a \in Accounts, i \in Identities :
              DisplayShown(a, i) <=> DisplayShown(a, i)'
<1>0. /\ shot \in ShotTable /\ face \in [Identities -> FaceRow]
      /\ motion \in MotionTable /\ trusted \subseteq Identities
      /\ public \subseteq Models /\ now \in Nat /\ t \in Nat
  BY ShotRows, AvatarRows, BoundsAssumption
     DEF WorldInv, ShotInv, AvatarInv, BaseTypeOK, Times
<1>1. /\ t <= now
      /\ UNCHANGED <<now, policy, role, target, grant, bound, appearance, share,
                     owner, public, permission, withheld, holder, trusted>>
  BY DEF Cleanup, CleanShots, Read, baseVars, scopeVars, modelVars, profileVars
<1>2. /\ \A w \in Worlds, e \in Entities :
            shot'[w][e] = IF Past(w, e, t) THEN NoShot ELSE shot[w][e]
      /\ \A w \in Worlds, e \in Entities :
            motion'[w][e] =
              IF motion[w][e].expires <= t
              THEN [motion[w][e] EXCEPT !.live = FALSE] ELSE motion[w][e]
      /\ \A i \in Identities :
            face'[i] = IF face[i].model = Nil \/ face[i].updated + Fresh <= t
                       THEN [face[i] EXCEPT !.display = Nil] ELSE face[i]
  BY Zenon DEF Cleanup, CleanShots, CleanMotions
<1>3. \A i \in Identities :
        /\ face'[i].revision = face[i].revision /\ face'[i].model = face[i].model
        /\ face'[i].entity = face[i].entity /\ face'[i].updated = face[i].updated
        /\ \/ face'[i].display = face[i].display
           \/ face[i].model = Nil \/ face[i].updated + Fresh <= t
  <2> SUFFICES ASSUME NEW i \in Identities
               PROVE  /\ face'[i].revision = face[i].revision
                      /\ face'[i].model = face[i].model
                      /\ face'[i].entity = face[i].entity
                      /\ face'[i].updated = face[i].updated
                      /\ \/ face'[i].display = face[i].display
                         \/ face[i].model = Nil \/ face[i].updated + Fresh <= t
    OBVIOUS
  <2>1. face[i] \in FaceRow
    BY <1>0
  <2> QED
    BY <1>2, <2>1 DEF FaceRow
<1>4. \A m : \A a \in Accounts : MayRender(a, m)' <=> MayRender(a, m)
  BY <1>1 DEF MayRender
<1>5. \A a \in Accounts, w \in Worlds : Member(a, w)' <=> Member(a, w)
  BY <1>1 DEF Member, Exists
<1>6. ASSUME NEW a \in Accounts, NEW w \in Worlds, NEW e \in Entities
      PROVE  ShotShown(a, w, e, now) <=> ShotShown(a, w, e, now)'
  <2>1. shot[w][e] \in ShotRow
    BY <1>0 DEF ShotTable
  <2>2. CASE Past(w, e, t)
    <3>1. ~ShotShown(a, w, e, now)
      BY <1>0, <1>1, <2>1, <2>2 DEF Past, ShotShown, ShotRow
    <3>2. ~ShotShown(a, w, e, now)'
      BY <1>2, <2>2 DEF ShotShown
    <3> QED
      BY <3>1, <3>2
  <2>3. CASE ~Past(w, e, t)
    <3>1. shot'[w][e] = shot[w][e]
      BY <1>2, <2>3
    <3>2. \A b \in Accounts, i \in Identities \cup {Nil} :
            MaySpeak(b, i)' <=> MaySpeak(b, i)
      BY <1>0, <1>1, <1>3 DEF MaySpeak, Stopped
    <3>3. CASE shot[w][e].by \in Accounts
      <4>1. shot[w][e].identity \in Identities \cup {Nil}
        BY <2>1 DEF ShotRow
      <4> QED
        BY <1>1, <1>4, <1>5, <3>1, <3>2, <3>3, <4>1 DEF ShotShown
    <3>4. CASE shot[w][e] = NoShot
      BY <3>1, <3>4 DEF ShotShown
    <3>5. shot[w][e] # NoShot => shot[w][e].by \in Accounts
      <4> SUFFICES ASSUME shot[w][e] # NoShot
                   PROVE  shot[w][e].by \in Accounts
        OBVIOUS
      <4>1. Key(w, e) \in Keys
        BY ShotRows DEF WorldInv, ShotInv, ShotsWereFired
      <4> QED
        BY <4>1 DEF Key, Keys
    <3> QED
      BY <3>3, <3>4, <3>5
  <2> QED
    BY <2>2, <2>3
<1>7. ASSUME NEW a \in Accounts, NEW w \in Worlds, NEW e \in Entities
      PROVE  MotionShown(a, w, e, now) <=> MotionShown(a, w, e, now)'
  <2>1. motion[w][e] \in MotionRow
    BY <1>0 DEF MotionTable
  <2>2. CASE motion[w][e].expires <= t
    <3>1. ~MotionShown(a, w, e, now)
      <4>1. motion[w][e].expires \in Nat
        BY <2>1 DEF MotionRow
      <4>2. ~(now < motion[w][e].expires)
        BY <1>0, <1>1, <2>2, <4>1
      <4> QED
        BY <4>2 DEF MotionShown
    <3>2. ~motion'[w][e].live
      BY <1>2, <2>1, <2>2 DEF MotionRow
    <3> QED
      BY <3>1, <3>2 DEF MotionShown
  <2>3. CASE ~(motion[w][e].expires <= t)
    <3>1. motion'[w][e] = motion[w][e]
      BY <1>2, <2>3
    <3> QED
      BY <1>1, <3>1 DEF MotionShown, Member, Exists, Puppet, Authorized, MayRender
  <2> QED
    BY <2>2, <2>3
<1>8. ASSUME NEW a \in Accounts, NEW i \in Identities
      PROVE  DisplayShown(a, i) <=> DisplayShown(a, i)'
  <2>1. \A e : Speakers(e)' = Speakers(e)
    BY <1>0, <1>1, <1>3 DEF Speakers
  <2>2. FaceShown(i)' <=> FaceShown(i)
    BY <1>1, <1>3, <2>1 DEF FaceShown
  <2>3. ASSUME FaceShown(i)
        PROVE  face'[i].display = face[i].display
    <3>1. i \in Speakers(face[i].entity) /\ face[i].model \in Models
      BY <1>0, <2>3 DEF FaceShown
    <3>2. now < face[i].updated + Fresh /\ face[i].model # Nil
      BY <3>1, NilAssumption DEF Speakers
    <3>3. face[i].updated \in Nat
      BY <1>0, BoundsAssumption DEF FaceRow, Times
    <3> QED
      BY <1>0, <1>1, <1>3, <3>2, <3>3, ShotAssumption
  <2> QED
    BY <1>1, <2>2, <2>3 DEF DisplayShown, Member, Exists
<1> QED
  BY <1>6, <1>7, <1>8

(* Cleaning up changes no answer (cleanup_visual_states).                     *)
THEOREM CleanupHidesNothing == Spec => CleanupIsInvisible
<1>1. WorldInv /\ [Next]_vars =>
        [(\E t \in Times : Cleanup(t)) =>
           /\ \A a \in Accounts, w \in Worlds, e \in Entities :
                /\ ShotShown(a, w, e, now) <=> ShotShown(a, w, e, now)'
                /\ MotionShown(a, w, e, now) <=> MotionShown(a, w, e, now)'
           /\ \A a \in Accounts, i \in Identities :
                DisplayShown(a, i) <=> DisplayShown(a, i)']_vars
  BY CleanupKeepsAnswers
<1> QED
  BY <1>1, WorldInvariant, PTL DEF Spec, CleanupIsInvisible
=============================================================================
