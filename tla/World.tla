-------------------------------- MODULE World --------------------------------
(* Worlds and all that happens in them: roles, targets and bindings (Scopes); *)
(* who plays whom (Claims); players and what they fire (Shots); entities,     *)
(* their motions and vehicles (Avatars).                                      *)
EXTENDS Claims, Shots, Avatars

vars == <<baseVars, claimVars, shotVars, avatarVars>>

WorldInit == Init /\ ClaimInit /\ ShotInit /\ AvatarInit

(* cleanup_visual_states(): one transaction over all the tables.             *)
Cleanup(t) ==
  CleanShots(t) /\ CleanMotions(t) /\ UNCHANGED <<baseVars, claimVars>>

TimeStep == Tick /\ UNCHANGED <<claimVars, shotVars, avatarVars>>
ScopeStep ==
  /\ \/ WorldNext \/ RoleNext \/ TargetNext \/ GrantNext \/ BindingNext
     \/ AppearanceNext \/ RightsNext \/ OwnerNext \/ ModerationNext \/ ProfileNext
  /\ UNCHANGED <<claimVars, shotVars, avatarVars>>
ClaimStep == ClaimNext /\ UNCHANGED <<baseVars, shotVars, avatarVars>>
ShotStep ==
  (ShotNext \/ FaceNext) /\ UNCHANGED <<baseVars, claimVars, avatarVars>>
EntityStep == EntityNext /\ UNCHANGED <<claimVars, shotVars>>
AvatarStep ==
  (MotionNext \/ VehicleNext) /\ UNCHANGED <<baseVars, claimVars, shotVars>>
CleanupStep == \E t \in Times : Cleanup(t)

Next ==
  \/ TimeStep \/ ScopeStep \/ ClaimStep
  \/ ShotStep \/ EntityStep \/ AvatarStep \/ CleanupStep

Spec == WorldInit /\ [][Next]_vars

----------------------------------------------------------------------------
TypeOK == BaseTypeOK /\ ClaimTypeOK /\ ShotTypeOK /\ AvatarTypeOK

(* Cleaning up is invisible: whatever a query answered before it, of shots,  *)
(* displays and motions, it answers after it, and nothing more.              *)
CleanupIsInvisible ==
  [][(\E t \in Times : Cleanup(t)) =>
       /\ \A a \in Accounts, w \in Worlds, e \in Entities :
            /\ ShotShown(a, w, e, now) <=> ShotShown(a, w, e, now)'
            /\ MotionShown(a, w, e, now) <=> MotionShown(a, w, e, now)'
       /\ \A a \in Accounts, i \in Identities :
            DisplayShown(a, i) <=> DisplayShown(a, i)']_vars
=============================================================================
