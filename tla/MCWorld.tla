------------------------------- MODULE MCWorld -------------------------------
(* In each behaviour only some of the tables change.                          *)
EXTENDS World, TLC

CONSTANTS
  Host,
  First,       \* rows that are used before the others of their kind
  Scenarios

VARIABLE serving

(* The world exists, and Host manages it, except where worlds are created.   *)
MCInit ==
  /\ serving \in Scenarios
  /\ WorldInit
  /\ \A w \in Worlds :
       IF "worlds" \in serving THEN ~Exists(w)
       ELSE /\ Exists(w) /\ role[w][Host] = "manage"
            /\ "claims" \notin serving => policy[w] = "STRICT_APPROVAL"
            /\ \A a \in Accounts : role[w][a] \in Editors
  /\ \A m \in Models : owner[m] = Host
  /\ "public" \in serving => public = Models
  /\ "private" \in serving => public = {}
  /\ \A i \in Identities : holder[i] = Host

Serving(topic) == topic \in serving

MCScopeNext ==
  \/ Serving("worlds") /\ WorldNext
  \/ Serving("roles") /\ RoleNext
  \/ Serving("targets") /\ TargetNext
  \/ Serving("grants") /\ GrantNext
  \/ Serving("bound") /\ BindingNext
  \/ Serving("looks") /\ AppearanceNext
  \/ Serving("rights") /\ RightsNext
  \/ Serving("owners") /\ OwnerNext
  \/ Serving("withheld") /\ ModerationNext
  \/ Serving("profiles") /\ ProfileNext

MCNext ==
  /\ \/ Serving("clock") /\ TimeStep
     \/ MCScopeNext /\ UNCHANGED <<claimVars, shotVars, avatarVars>>
     \/ Serving("claims") /\ ClaimStep
     \/ /\ \/ Serving("shots") /\ ShotNext
           \/ Serving("faces") /\ FaceNext
        /\ UNCHANGED <<baseVars, claimVars, avatarVars>>
     \/ Serving("entities") /\ EntityStep
     \/ /\ \/ Serving("motions") /\ MotionNext
           \/ Serving("vehicles") /\ VehicleNext
        /\ UNCHANGED <<baseVars, claimVars, shotVars>>
     \/ (Serving("shots") \/ Serving("motions")) /\ CleanupStep
  /\ UNCHANGED serving

MCSpec == MCInit /\ [][MCNext]_<<vars, serving>>

(* Rows of a kind are interchangeable.  A scenario may be of one entity and  *)
(* one target; kills are left to the one that creates worlds; and only       *)
(* "long" ones use the last revision.                                        *)
Used(f, none, rows) == {x \in rows : f[x] # none}
InOrder(used, rows) == used \subseteq First \/ First \cap rows \subseteq used
InScenario ==
  /\ InOrder(Used(person, NoPerson, Persons), Persons)
  /\ InOrder(Used(binding, NoClaim, Bindings), Bindings)
  /\ InOrder(Used(code, NoCode, Codes), Codes)
  /\ InOrder(Used(target, NoTarget, Targets), Targets)
  /\ "one" \in serving =>
       /\ Used(target, NoTarget, Targets) \subseteq First
       /\ \A w \in Worlds, e \in Entities \ First :
            /\ shot[w][e] = NoShot /\ bound[w][e] = NoEntity
            /\ vehicle[w][e] = NoVehicle
            /\ \A p \in Persons : person[p].entity # e
            /\ \A i \in Identities : face[i].entity # e
  /\ \A t \in Targets :
       /\ "worlds" \in serving \/ target[t] = NoTarget
            \/ appearance[t] # NoAppearance
       /\ "claims" \in serving => target[t].kind = "PLAYER"
       /\ "vehicles" \in serving /\ target[t] # NoTarget
            => target[t].kind = "VEHICLE"
       /\ "long" \in serving \/ appearance[t].revision < MaxRevision
       /\ serving \cap {"long", "motions"} # {}
            => target[t].kind # "MAID" /\ ~appearance[t].disabled
       /\ "motions" \in serving =>
            /\ share[t] = NoShare
            /\ grant[t][Host] \in {"none", "manage"}
            /\ \A a \in Accounts : grant[t][a] # "viewer"
  /\ "motions" \in serving => \A w \in Worlds, e \in Entities :
       bound[w][e] = NoEntity \/ Puppet(w, e)
  /\ "long" \in serving \/ \A w \in Worlds, e \in Entities :
       /\ bound[w][e].revision < MaxRevision
       /\ shot[w][e].revision < MaxRevision
       /\ motion[w][e].revision < MaxRevision
       /\ vehicle[w][e].revision < MaxRevision
  /\ "long" \in serving \/ \A i \in Identities : face[i].revision < MaxRevision
  /\ "long" \in serving \/ \A b \in Bindings : binding[b].revision < MaxRevision
=============================================================================
