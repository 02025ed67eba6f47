------------------------------- MODULE Avatars -------------------------------
(* Entities other than players: the model of a maid or a fake player in a     *)
(* shared world (entity_world.rs), how it moves (entity_motion.rs), and what  *)
(* a vehicle is bound to (vehicle.rs).  A row of the last two is for one      *)
(* dimension; the dimension is part of what Entities stands for.              *)
EXTENDS Scopes

CONSTANTS
  Motions,        \* ids of events, each of one animation
  MotionTtl       \* 60 seconds

ASSUME MotionAssumption == Nil \notin Motions /\ MotionTtl \in Nat \ {0}

VARIABLES
  motion,      \* entity_motion_states; "live" where the row has a payload
  vehicle,     \* vehicle_bindings
  offer        \* what the last publication for a target shared (history)

avatarVars == <<motion, vehicle, offer>>

----------------------------------------------------------------------------
Starts == 0..1    \* started_at_unix_ms
Puppets == {"MAID", "FAKE_PLAYER"}
NoMotion == [by |-> Nil, binding |-> 0, appearance |-> 0, model |-> Nil,
             revision |-> 0, expires |-> 0, event |-> Nil, started |-> 0,
             live |-> FALSE]
NoVehicle == [by |-> Nil, target |-> Nil, model |-> Nil, revision |-> 0]

AvatarInit ==
  /\ motion = [w \in Worlds |-> [e \in Entities |-> NoMotion]]
  /\ vehicle = [w \in Worlds |-> [e \in Entities |-> NoVehicle]]
  /\ offer = [t \in Targets |-> NoShare]

----------------------------------------------------------------------------
(* selection(): the model is shown to those who may render it, and to all if *)
(* it is shared here by someone who owns or manages it.                      *)
MayShare(a, m) == owner[m] = a \/ permission[m][a] = "manage"

EntityShown(a, w, e) ==
  LET t == bound[w][e].target
      m == appearance[t].model
  IN  /\ Puppet(w, e) /\ bound[w][e].kind \in Puppets
      /\ m # Nil /\ ~appearance[t].disabled /\ m \notin withheld
      /\ \/ MayRender(a, m)
         \/ share[t].model = m /\ MayShare(share[t].by, m)

NewShareOr(t, a, m, sharing) ==
  IF sharing /\ m # Nil THEN [by |-> a, model |-> m] ELSE share[t]
NewShare(t, a, m, sharing) ==
  IF sharing /\ m # Nil THEN [by |-> a, model |-> m] ELSE NoShare

(* publish_entity(): onto the target the entity is bound to, or onto a new   *)
(* one; the earlier share goes, whatever the new selection is.               *)
PublishEntity(a, w, e, k, t, m, sharing, seen) ==
  LET known == Puppet(w, e) /\ bound[w][e].kind \in Puppets
  IN  /\ Exists(w) /\ role[w][a] \in Editors /\ k \in Puppets
      /\ IF known
         THEN /\ t = bound[w][e].target
              /\ bound[w][e].kind = k
              /\ grant[t][a] \in Editors
              /\ appearance[t].revision = seen
              /\ UNCHANGED <<target, grant, bound>>
         ELSE /\ seen = 0
              /\ target[t] = NoTarget /\ bound[w][e] = NoEntity
              /\ target' = [target EXCEPT ![t] = [world |-> w, kind |-> k]]
              /\ grant' = [grant EXCEPT ![t][a] = "manage"]
              /\ bound' = [bound EXCEPT ![w][e] =
                             [target |-> t, kind |-> k, revision |-> 0]]
      /\ m # Nil => /\ m \notin withheld
                    /\ \/ m \in public
                       \/ permission[m][a] \in {"manage", "render_read"}
                       \/ sharing /\ owner[m] = a
                    /\ sharing => m \in public \/ MayShare(a, m)
      /\ seen < MaxRevision
      /\ appearance' = [appearance EXCEPT ![t] =
           [revision |-> seen + 1, model |-> m, disabled |-> FALSE]]
      /\ share' = [share EXCEPT ![t] = NewShare(t, a, m, sharing)]
      /\ offer' = [offer EXCEPT ![t] =
                     IF sharing THEN [by |-> a, model |-> m] ELSE NoShare]
      /\ UNCHANGED <<now, policy, role, modelVars, profileVars, motion, vehicle>>

----------------------------------------------------------------------------
(* authorized_resource() for an update made under these revisions: what the  *)
(* entity is bound to and shows is still that, and the account may see it,   *)
(* or edit it.                                                               *)
Authorized(a, w, e, binding, revision, edit) ==
  LET t == bound[w][e].target
      m == appearance[t].model
  IN  /\ Puppet(w, e) /\ bound[w][e].kind \in Puppets
      /\ role[w][a] # "none" /\ grant[t][a] # "none"
      /\ edit => role[w][a] \in Editors /\ grant[t][a] \in Editors
      /\ bound[w][e].revision = binding
      /\ appearance[t].revision = revision
      /\ m # Nil /\ ~appearance[t].disabled
      /\ MayRender(a, m)

MaySteerAlways(old, a, t) == TRUE
MaySteer(old, a, t) == old.by = a \/ old.expires <= t

(* publish_entity_motion(): the driver keeps the entity until its lease ends *)
(* and does not rewind; an event that ended is not the next one.             *)
PublishMotion(a, w, e, v, started, seen, t) ==
  LET old == motion[w][e]
      b == bound[w][e].revision
      p == appearance[bound[w][e].target].revision
  IN  /\ Read(t)
      /\ Member(a, w)
      /\ Puppet(w, e) /\ Authorized(a, w, e, b, p, TRUE)
      /\ old.revision = seen /\ seen < MaxRevision
      /\ old # NoMotion =>
           /\ MaySteer(old, a, t)
           /\ old.event = v => t < old.expires /\ old.started = started
           /\ old.live /\ old.binding = b /\ old.appearance = p
                => old.started <= started
      /\ motion' = [motion EXCEPT ![w][e] =
           [by |-> a, binding |-> b, appearance |-> p,
            model |-> appearance[bound[w][e].target].model,
            revision |-> seen + 1, expires |-> t + MotionTtl, event |-> v,
            started |-> started, live |-> TRUE]]
      /\ UNCHANGED <<vehicle, offer>>

(* withdraw_entity_motion(): its publisher may, with access or without.      *)
WithdrawMotion(a, w, e, seen) ==
  /\ motion[w][e] # NoMotion /\ motion[w][e].by = a
  /\ motion[w][e].revision = seen /\ seen < MaxRevision
  /\ motion' = [motion EXCEPT ![w][e].live = FALSE, ![w][e].expires = 0,
                              ![w][e].revision = @ + 1]
  /\ UNCHANGED <<vehicle, offer>>

(* cleanup_visual_states(), motions                                          *)
CleanMotions(t) ==
  /\ motion' = [w \in Worlds |-> [e \in Entities |->
       IF motion[w][e].expires <= t THEN [motion[w][e] EXCEPT !.live = FALSE]
       ELSE motion[w][e]]]
  /\ UNCHANGED <<vehicle, offer>>

(* query_entity_motion()                                                     *)
MotionShown(a, w, e, t) ==
  LET s == motion[w][e]
  IN  /\ Member(a, w)
      /\ s # NoMotion /\ t < s.expires /\ s.live
      /\ Member(s.by, w)
      /\ Puppet(w, e) /\ Authorized(s.by, w, e, s.binding, s.appearance, TRUE)
      /\ Authorized(a, w, e, s.binding, s.appearance, FALSE)
      /\ s.model = appearance[bound[w][e].target].model

----------------------------------------------------------------------------
(* vehicle.rs editable()                                                     *)
Editable(a, w, t) ==
  /\ target[t] = [world |-> w, kind |-> "VEHICLE"]
  /\ role[w][a] \in Editors /\ grant[t][a] \in Editors

(* publish_vehicle(): the publisher may edit the old target and the new one. *)
(* The kind its publisher first gives the entity stays (vehicle.rs 121-123): *)
(* an entity has one here, and updates that name another are left out.       *)
PublishVehicle(a, w, e, t, m, seen) ==
  LET old == vehicle[w][e]
  IN  /\ Member(a, w) /\ Editable(a, w, t)
      /\ old.revision = seen /\ seen < MaxRevision
      /\ old # NoVehicle => Editable(a, w, old.target)
      /\ m # Nil => MayRender(a, m)
      /\ vehicle' = [vehicle EXCEPT ![w][e] =
           [by |-> a, target |-> t, model |-> m, revision |-> seen + 1]]
      /\ UNCHANGED <<motion, offer>>

(* query_vehicles()                                                          *)
VehicleShown(a, w, e) ==
  LET s == vehicle[w][e]
  IN  /\ Member(a, w) /\ s # NoVehicle /\ Editable(s.by, w, s.target)
      /\ s.model # Nil => MayRender(s.by, s.model) /\ MayRender(a, s.model)

EntityNext ==
  \E a \in Accounts, w \in Worlds, e \in Entities, k \in Puppets, t \in Targets,
     m \in Models \cup {Nil}, sharing \in BOOLEAN, n \in Revisions :
    PublishEntity(a, w, e, k, t, m, sharing, n)

MotionNext ==
  \/ \E a \in Accounts, w \in Worlds, e \in Entities, v \in Motions,
        s \in Starts, n \in Revisions, t \in Times :
       PublishMotion(a, w, e, v, s, n, t)
  \/ \E a \in Accounts, w \in Worlds, e \in Entities, n \in Revisions :
       WithdrawMotion(a, w, e, n)

VehicleNext ==
  \E a \in Accounts, w \in Worlds, e \in Entities, t \in Targets,
     m \in Models \cup {Nil}, n \in Revisions :
    PublishVehicle(a, w, e, t, m, n)

----------------------------------------------------------------------------
AvatarTypeOK ==
  /\ motion \in [Worlds -> [Entities -> [by : Accounts \cup {Nil},
       binding : Revisions, appearance : Revisions \cup {-1},
       model : Models \cup {Nil}, revision : Revisions, expires : Nat,
       event : Motions \cup {Nil}, started : Starts, live : BOOLEAN]]]
  /\ vehicle \in [Worlds -> [Entities -> [by : Accounts \cup {Nil},
       target : Targets \cup {Nil}, model : Models \cup {Nil},
       revision : Revisions]]]
  /\ offer \in [Targets -> [by : Accounts \cup {Nil}, model : Models \cup {Nil}]]

(* A private model is shown to an account that may not render it only where  *)
(* the last publication for that target shared that very model, by someone   *)
(* who owns or manages it to this day, whatever editors have selected since. *)
SharesAreChosen ==
  \A a \in Accounts, w \in Worlds, e \in Entities :
    LET t == bound[w][e].target
        m == appearance[t].model
    IN  EntityShown(a, w, e) /\ ~MayRender(a, m)
          => offer[t].model = m /\ MayShare(offer[t].by, m)

(* An entity has one driver at a time: another account takes over only when  *)
(* the lease has run out by the clock; while the lease runs and the entity   *)
(* is bound and dressed as before, time never runs back; and an event that   *)
(* was withdrawn is not resumed.                                             *)
MotionFollowsItsDriver ==
  [][\A w \in Worlds, e \in Entities :
       LET old == motion[w][e]
           new == motion'[w][e]
       IN  old # NoMotion =>
             /\ old.by # new.by => old.expires <= now
             /\ old.live /\ new.live /\ old.binding = new.binding
                  /\ old.appearance = new.appearance
                  => old.started <= new.started
             /\ old.expires = 0 /\ new.live => old.event # new.event]_
    <<baseVars, avatarVars>>
=============================================================================
