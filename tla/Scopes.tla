------------------------------- MODULE Scopes -------------------------------
(* Worlds ("scopes"), what accounts may do in them, their targets, the        *)
(* entities bound to targets (store.rs), the models a target may show and who *)
(* may see those.  Claims, Shots and Avatars read these tables; World         *)
(* composes them.  An action is one handler under the connection's lock.      *)
EXTENDS Integers, FiniteSets

CONSTANTS
  Accounts, Worlds,
  Targets,        \* the rows that may be inserted
  Entities,       \* UUIDs of entities, in whichever dimension
  Models,         \* revisions of assets, each of an asset of its own
  Identities,     \* verified profiles
  Nil,
  Lag,            \* how long a handler may wait for the lock
  MaxTime, MaxRevision    \* bounds on the clock and on revisions

ASSUME NilAssumption ==
  /\ Nil \notin Accounts \cup Worlds \cup Targets
  /\ Nil \notin Entities \cup Models \cup Identities
ASSUME BoundsAssumption == Lag \in Nat /\ MaxTime \in Nat /\ MaxRevision \in Nat

VARIABLES
  now,         \* the clock
  policy,      \* scopes: offline_policy, Nil where there is no such scope
  role,        \* scope_acl
  target,      \* targets
  grant,       \* target_acl
  bound,       \* entity_bindings
  appearance,  \* appearances
  share,       \* entity_model_shares
  owner, public, permission,  \* assets and asset_acl
  withheld,    \* the models that are not in available_asset_revisions
  holder,      \* identities: the account of each profile
  trusted      \* the profiles that are verified, by an enabled provider

scopeVars == <<policy, role, target, grant, bound>>
modelVars == <<owner, public, permission, withheld>>
profileVars == <<holder, trusted>>
baseVars == <<now, scopeVars, appearance, share, modelVars, profileVars>>

----------------------------------------------------------------------------
Times == 0..MaxTime
Revisions == 0..MaxRevision
Policies == {"STRICT_APPROVAL", "CLAIM_CODE", "FIRST_CLAIM", "DISABLED"}
ASSUME PolicyAssumption == Nil \notin Policies
Kinds == {"PLAYER", "MAID", "FAKE_PLAYER", "VEHICLE"}
(* "none": no row.  "editor" is another word for "edit": what reads a role   *)
(* takes both alike (store.rs 2722, 2736, vehicle.rs 63, entity_world.rs 407, *)
(* entity_motion.rs 205).                                                     *)
Roles == {"none", "viewer", "edit", "manage"}
Editors == {"edit", "manage"}
Permissions == {"none", "discover", "use", "render_read", "manage"}

NoTarget == [world |-> Nil, kind |-> "PLAYER"]
NoEntity == [target |-> Nil, kind |-> "PLAYER", revision |-> 0]
NoAppearance == [revision |-> -1, model |-> Nil, disabled |-> FALSE]
Undressed == [NoAppearance EXCEPT !.revision = 0]
NoShare == [by |-> Nil, model |-> Nil]
Nobody == [a \in Accounts |-> "none"]

(* The handlers for displays take the time before they wait for the lock.    *)
Read(t) == t \in Times /\ now - Lag <= t /\ t <= now

Exists(w) == policy[w] # Nil
Member(a, w) == Exists(w) /\ role[w][a] # "none"

(* visual.rs resource(): the model is available, and public or granted.      *)
MayRender(a, m) ==
  /\ m \notin withheld
  /\ m \in public \/ permission[m][a] \in {"manage", "render_read"}

(* The entity's target, where target and binding agree on kind and world.    *)
Puppet(w, e) ==
  LET b == bound[w][e]
  IN  /\ b.target # Nil
      /\ target[b.target] = [world |-> w, kind |-> b.kind]

Init ==
  /\ now = 0
  /\ policy \in [Worlds -> Policies \cup {Nil}]
  /\ role \in [Worlds -> [Accounts -> Roles]]
  /\ \A w \in Worlds : ~Exists(w) => role[w] = Nobody
  /\ target = [t \in Targets |-> NoTarget]
  /\ grant = [t \in Targets |-> Nobody]
  /\ bound = [w \in Worlds |-> [e \in Entities |-> NoEntity]]
  /\ appearance = [t \in Targets |-> NoAppearance]
  /\ share = [t \in Targets |-> NoShare]
  /\ owner \in [Models -> Accounts]
  /\ public \in SUBSET Models
  /\ permission = [m \in Models |-> [Nobody EXCEPT ![owner[m]] = "manage"]]
  /\ withheld = {}
  /\ holder \in [Identities -> Accounts]
  /\ trusted = Identities

----------------------------------------------------------------------------
(* Time.                                                                     *)
Tick ==
  /\ now < MaxTime
  /\ now' = now + 1
  /\ UNCHANGED <<scopeVars, appearance, share, modelVars, profileVars>>

(* create_scope(): a statement for the scope and one for its manager; the    *)
(* process may be killed between them.                                       *)
CreateScope(a, w, p, killed) ==
  /\ ~Exists(w)
  /\ policy' = [policy EXCEPT ![w] = p]
  /\ role' = IF killed THEN role ELSE [role EXCEPT ![w][a] = "manage"]
  /\ UNCHANGED <<now, target, grant, bound, appearance, share, modelVars,
                 profileVars>>

(* entity_world(create): whoever meets the world first creates and manages   *)
(* it, in one transaction; for the others it exists already.                 *)
EntityWorld(a, w) ==
  /\ ~Exists(w)
  /\ policy' = [policy EXCEPT ![w] = "STRICT_APPROVAL"]
  /\ role' = [role EXCEPT ![w][a] = "manage"]
  /\ UNCHANGED <<now, target, grant, bound, appearance, share, modelVars,
                 profileVars>>

SetScopeAcl(a, w, b, r) ==
  /\ role[w][a] = "manage"
  /\ role' = [role EXCEPT ![w][b] = r]
  /\ UNCHANGED <<now, policy, target, grant, bound, appearance, share,
                 modelVars, profileVars>>

(* create_target(): the target, the creator's row and the appearance, a      *)
(* statement each; a kill leaves the first one or two.                       *)
CreateTarget(a, w, t, k, done) ==
  /\ role[w][a] \in Editors
  /\ target[t] = NoTarget
  /\ target' = [target EXCEPT ![t] = [world |-> w, kind |-> k]]
  /\ grant' = IF done < 2 THEN grant ELSE [grant EXCEPT ![t][a] = "manage"]
  /\ appearance' = IF done < 3 THEN appearance
                   ELSE [appearance EXCEPT ![t] = Undressed]
  /\ UNCHANGED <<now, policy, role, bound, share, modelVars, profileVars>>

SetAcl(a, t, b, r) ==
  /\ grant[t][a] = "manage"
  /\ grant' = [grant EXCEPT ![t][b] = r]
  /\ UNCHANGED <<now, policy, role, target, bound, appearance, share,
                 modelVars, profileVars>>

(* register_binding(): the kind given is not compared with the target's.     *)
RegisterBinding(a, w, e, t, k) ==
  LET old == bound[w][e]
      next == IF old = NoEntity THEN 0 ELSE old.revision + 1
  IN  /\ role[w][a] \in Editors
      /\ target[t].world = w
      /\ next <= MaxRevision
      /\ bound' = [bound EXCEPT ![w][e] =
                     [target |-> t, kind |-> k, revision |-> next]]
      /\ UNCHANGED <<now, policy, role, target, grant, appearance, share,
                     modelVars, profileVars>>

(* observe_binding(): any member may; the observation itself is only listed. *)
ObserveBinding(a, w, e) ==
  /\ role[w][a] # "none"
  /\ bound[w][e] # NoEntity
  /\ bound[w][e].revision < MaxRevision
  /\ bound' = [bound EXCEPT ![w][e].revision = @ + 1]
  /\ UNCHANGED <<now, policy, role, target, grant, appearance, share,
                 modelVars, profileVars>>

(* update_appearance(); AppearanceSync has its retries and its events.       *)
UpdateAppearance(a, t, m, off) ==
  /\ appearance[t] # NoAppearance
  /\ grant[t][a] \in Editors
  /\ m # Nil => m \notin withheld /\ permission[m][a] \in {"manage", "use"}
  /\ appearance[t].revision < MaxRevision
  /\ appearance' = [appearance EXCEPT ![t] =
       [revision |-> @.revision + 1, model |-> m, disabled |-> off]]
  /\ UNCHANGED <<now, scopeVars, share, modelVars, profileVars>>

----------------------------------------------------------------------------
(* Models: set_asset_acl(), set_asset_visibility(), assign_asset_owner(),    *)
(* and whatever takes a revision out of the available ones (Service).        *)
SetAssetAcl(a, m, b, p) ==
  /\ permission[m][a] = "manage" /\ m \notin withheld
  /\ permission' = [permission EXCEPT ![m][b] = p]
  /\ UNCHANGED <<now, scopeVars, appearance, share, owner, public, withheld,
                 profileVars>>

SetVisibility(a, m) ==
  /\ owner[m] = a
  /\ public' = IF m \in public THEN public \ {m} ELSE public \cup {m}
  /\ UNCHANGED <<now, scopeVars, appearance, share, owner, permission,
                 withheld, profileVars>>

AssignOwner(m, a) ==
  /\ owner[m] # a
  /\ owner' = [owner EXCEPT ![m] = a]
  /\ permission' = [permission EXCEPT ![m] = [Nobody EXCEPT ![a] = "manage"]]
  /\ UNCHANGED <<now, scopeVars, appearance, share, public, withheld,
                 profileVars>>

Moderate(m) ==
  /\ withheld' = IF m \in withheld THEN withheld \ {m} ELSE withheld \cup {m}
  /\ UNCHANGED <<now, scopeVars, appearance, share, owner, public, permission,
                 profileVars>>

(* Sessions has how a profile comes to an account, moves with it when        *)
(* accounts are linked, and loses its provider.                              *)
MoveProfile(i, a) ==
  /\ holder[i] # a
  /\ holder' = [holder EXCEPT ![i] = a]
  /\ UNCHANGED <<now, scopeVars, appearance, share, modelVars, trusted>>

ToggleProvider(i) ==
  /\ trusted' = IF i \in trusted THEN trusted \ {i} ELSE trusted \cup {i}
  /\ UNCHANGED <<now, scopeVars, appearance, share, modelVars, holder>>

----------------------------------------------------------------------------
WorldNext ==
  \/ \E a \in Accounts, w \in Worlds, p \in Policies, killed \in BOOLEAN :
       CreateScope(a, w, p, killed)
  \/ \E a \in Accounts, w \in Worlds : EntityWorld(a, w)

RoleNext ==
  \E a, b \in Accounts, w \in Worlds, r \in Roles \ {"none"} :
    SetScopeAcl(a, w, b, r)

TargetNext ==
  \E a \in Accounts, w \in Worlds, t \in Targets, k \in Kinds, done \in 1..3 :
    CreateTarget(a, w, t, k, done)

GrantNext ==
  \E a, b \in Accounts, t \in Targets, r \in Roles \ {"none"} :
    SetAcl(a, t, b, r)

BindingNext ==
  \/ \E a \in Accounts, w \in Worlds, e \in Entities, t \in Targets,
        k \in Kinds : RegisterBinding(a, w, e, t, k)
  \/ \E a \in Accounts, w \in Worlds, e \in Entities : ObserveBinding(a, w, e)

AppearanceNext ==
  \E a \in Accounts, t \in Targets, m \in Models \cup {Nil}, off \in BOOLEAN :
    UpdateAppearance(a, t, m, off)

RightsNext ==
  \/ \E a, b \in Accounts, m \in Models, p \in Permissions \ {"none"} :
       SetAssetAcl(a, m, b, p)
  \/ \E a \in Accounts, m \in Models : SetVisibility(a, m)

OwnerNext == \E a \in Accounts, m \in Models : AssignOwner(m, a)

ModerationNext == \E m \in Models : Moderate(m)

ProfileNext ==
  \/ \E i \in Identities, a \in Accounts : MoveProfile(i, a)
  \/ \E i \in Identities : ToggleProvider(i)

----------------------------------------------------------------------------
BaseTypeOK ==
  /\ now \in Times
  /\ policy \in [Worlds -> Policies \cup {Nil}]
  /\ role \in [Worlds -> [Accounts -> Roles]]
  /\ target \in [Targets -> [world : Worlds \cup {Nil}, kind : Kinds]]
  /\ grant \in [Targets -> [Accounts -> Roles]]
  /\ bound \in [Worlds -> [Entities ->
       [target : Targets \cup {Nil}, kind : Kinds, revision : Revisions]]]
  /\ appearance \in [Targets -> [revision : Revisions \cup {-1},
       model : Models \cup {Nil}, disabled : BOOLEAN]]
  /\ share \in [Targets -> [by : Accounts \cup {Nil},
                            model : Models \cup {Nil}]]
  /\ owner \in [Models -> Accounts]
  /\ public \in SUBSET Models
  /\ permission \in [Models -> [Accounts -> Permissions]]
  /\ withheld \in SUBSET Models
  /\ holder \in [Identities -> Accounts]
  /\ trusted \in SUBSET Identities
=============================================================================
