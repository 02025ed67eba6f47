-------------------------------- MODULE Shots --------------------------------
(* What verified players show of themselves (player.rs) and of what they      *)
(* fire (visual.rs): a player's model and display state, published under a    *)
(* revision and stopped by publishing none; a projectile's snapshot, kept     *)
(* alive by a lease, withdrawn, and cleaned up into a tombstone.              *)
(* A limit on request rates only refuses, which a request may always be.      *)
EXTENDS Scopes

CONSTANTS
  Events,                   \* ids that publishers give to their shots
  IdleTtl, Lifetime,        \* of a lease
  Fresh,                    \* how long a player is shown after an update
  PerPublisher, PerWorld    \* limits on leases that are alive

ASSUME ShotAssumption ==
  IdleTtl \in Nat /\ Lifetime \in Nat /\ Fresh \in Nat

VARIABLES
  face,        \* player_appearances, player_motion, player_display_states
  shot,        \* projectile_snapshots
  tomb,        \* projectile_tombstones
  fired,       \* every shot there ever was (history)
  over         \* those that were withdrawn, stopped or cleaned up (history)

shotVars == <<face, shot, tomb, fired, over>>

----------------------------------------------------------------------------
NoFace == [revision |-> 0, entity |-> Nil, model |-> Nil, updated |-> 0,
           display |-> Nil]
NoShot == [by |-> Nil, identity |-> Nil, event |-> Nil, model |-> Nil,
           revision |-> 0, expires |-> 0, absolute |-> 0, withdrawn |-> FALSE]

Earlier(s, t) == IF s <= t THEN s ELSE t
Key(w, e) == [world |-> w, entity |-> e, by |-> shot[w][e].by,
              event |-> shot[w][e].event]
Alive(w, e, t) == /\ shot[w][e] # NoShot /\ ~shot[w][e].withdrawn
                  /\ t < shot[w][e].expires
PastUnrenewed(w, e, t) ==
  /\ shot[w][e] # NoShot
  /\ shot[w][e].withdrawn \/ shot[w][e].absolute - Lifetime + IdleTtl <= t
Past(w, e, t) ==
  /\ shot[w][e] # NoShot
  /\ shot[w][e].withdrawn \/ shot[w][e].expires <= t \/ shot[w][e].absolute <= t
Stopped(i) == face[i].revision > 0 /\ face[i].model = Nil

(* visual.rs identity(): the account's own verified profile, still shared.   *)
MaySpeak(a, i) == holder[i] = a /\ i \in trusted /\ ~Stopped(i)

(* A tombstone bars the entity from the world, and the publisher's event.    *)
BarredEntity(a, w, e, v) == \E d \in tomb : d.world = w /\ d.entity = e
Barred(a, w, e, v) ==
  \E d \in tomb : d.world = w /\ (d.entity = e \/ (d.by = a /\ d.event = v))

ShotInit ==
  /\ face = [i \in Identities |-> NoFace]
  /\ shot = [w \in Worlds |-> [e \in Entities |-> NoShot]]
  /\ tomb = {} /\ fired = {} /\ over = {}

----------------------------------------------------------------------------
(* publish_projectile() of a new shot; a repeated one changes nothing.       *)
PublishShot(a, w, e, i, v, m, t) ==
  LET key == [world |-> w, entity |-> e, by |-> a, event |-> v]
      mine == {p \in Worlds \X Entities :
                 Alive(p[1], p[2], t) /\ shot[p[1]][p[2]].by = a}
  IN  /\ Read(t)
      /\ Member(a, w) /\ MaySpeak(a, i) /\ MayRender(a, m)
      /\ ~Barred(a, w, e, v)
      /\ shot[w][e] = NoShot
      /\ \A f \in Entities : ~(shot[w][f].by = a /\ shot[w][f].event = v)
      /\ Cardinality(mine) < PerPublisher
      /\ Cardinality({f \in Entities : Alive(w, f, t)}) < PerWorld
      /\ shot' = [shot EXCEPT ![w][e] =
           [by |-> a, identity |-> i, event |-> v, model |-> m, revision |-> 1,
            expires |-> Earlier(t + IdleTtl, t + Lifetime),
            absolute |-> t + Lifetime, withdrawn |-> FALSE]]
      /\ fired' = fired \cup {key}
      /\ UNCHANGED <<face, tomb, over>>

(* update_projectile_lease(): on the event and the revision the publisher    *)
(* knows, with the time at which the request came in.                        *)
RenewShot(a, w, e, seen, t) ==
  LET s == shot[w][e]
  IN  /\ Read(t)
      /\ Member(a, w)
      /\ s # NoShot /\ s.by = a /\ s.revision = seen /\ seen < MaxRevision
      /\ ~s.withdrawn /\ t < s.expires /\ t < s.absolute
      /\ MaySpeak(a, s.identity) /\ MayRender(a, s.model)
      /\ shot' = [shot EXCEPT ![w][e].revision = @ + 1,
                              ![w][e].expires = Earlier(t + IdleTtl, s.absolute)]
      /\ UNCHANGED <<face, tomb, fired, over>>

WithdrawShot(a, w, e, seen, t) ==
  LET s == shot[w][e]
  IN  /\ Read(t)
      /\ Member(a, w)
      /\ s # NoShot /\ s.by = a /\ s.revision = seen /\ seen < MaxRevision
      /\ shot' = [shot EXCEPT ![w][e].revision = @ + 1, ![w][e].expires = t,
                              ![w][e].withdrawn = TRUE]
      /\ over' = over \cup {Key(w, e)}
      /\ UNCHANGED <<face, tomb, fired>>

(* publish_player(): the model and display of an identity, or m = Nil to     *)
(* stop sharing, which withdraws its shots in every world.                   *)
PublishFace(a, i, e, seen, m, d) ==
  LET stops(w, f) == m = Nil /\ shot[w][f] # NoShot /\ shot[w][f].identity = i
  IN  /\ holder[i] = a /\ i \in trusted
      /\ d # Nil => Member(a, d)
      /\ m # Nil => /\ m \notin withheld
                    /\ \/ m \in public \/ owner[m] = a
                       \/ permission[m][a] \in {"manage", "use", "render_read"}
      /\ face[i].revision = seen /\ seen < MaxRevision
      /\ face' = [face EXCEPT ![i] =
           [revision |-> seen + 1, entity |-> e, model |-> m, updated |-> now,
            display |-> IF m = Nil THEN Nil ELSE d]]
      /\ shot' = [w \in Worlds |-> [f \in Entities |->
           IF stops(w, f)
           THEN [shot[w][f] EXCEPT !.withdrawn = TRUE, !.expires = now]
           ELSE shot[w][f]]]
      /\ over' = over \cup {Key(p[1], p[2]) :
                              p \in {q \in Worlds \X Entities : stops(q[1], q[2])}}
      /\ UNCHANGED <<tomb, fired>>

(* cleanup_visual_states(), projectiles and players; the scope's epoch never *)
(* changes, so its branches for other epochs find nothing.                   *)
CleanShots(t) ==
  LET keys == {Key(p[1], p[2]) :
                 p \in {q \in Worlds \X Entities : Past(q[1], q[2], t)}}
  IN  /\ Read(t)
      /\ tomb' = tomb \cup keys
      /\ shot' = [w \in Worlds |-> [e \in Entities |->
                    IF Past(w, e, t) THEN NoShot ELSE shot[w][e]]]
      /\ face' = [i \in Identities |->
           IF face[i].model = Nil \/ face[i].updated + Fresh <= t
           THEN [face[i] EXCEPT !.display = Nil] ELSE face[i]]
      /\ over' = over \cup keys
      /\ UNCHANGED fired

ShotNext ==
  \/ \E a \in Accounts, w \in Worlds, e \in Entities, i \in Identities,
        v \in Events, m \in Models, t \in Times :
       PublishShot(a, w, e, i, v, m, t)
  \/ \E a \in Accounts, w \in Worlds, e \in Entities, n \in Revisions,
        t \in Times : RenewShot(a, w, e, n, t) \/ WithdrawShot(a, w, e, n, t)

FaceNext ==
  \E a \in Accounts, i \in Identities, e \in Entities, n \in Revisions,
     m \in Models \cup {Nil}, d \in Worlds \cup {Nil} :
    PublishFace(a, i, e, n, m, d)

----------------------------------------------------------------------------
(* What is answered: query_projectiles() and query_players().                *)
ShotShown(a, w, e, t) ==
  LET s == shot[w][e]
  IN  /\ Member(a, w) /\ s # NoShot /\ ~s.withdrawn
      /\ t < s.expires /\ t < s.absolute
      /\ Member(s.by, w) /\ MaySpeak(s.by, s.identity)
      /\ MayRender(s.by, s.model) /\ MayRender(a, s.model)

Speakers(e) == {i \in Identities : /\ face[i].entity = e /\ i \in trusted
                                   /\ now < face[i].updated + Fresh}
FaceShown(i) ==
  /\ Speakers(face[i].entity) = {i}
  /\ face[i].model \in public \ withheld
DisplayShown(a, i) ==
  FaceShown(i) /\ face[i].display # Nil
    /\ Member(holder[i], face[i].display) /\ Member(a, face[i].display)

----------------------------------------------------------------------------
ShotTypeOK ==
  /\ face \in [Identities -> [revision : Revisions,
       entity : Entities \cup {Nil}, model : Models \cup {Nil},
       updated : Times, display : Worlds \cup {Nil}]]
  /\ shot \in [Worlds -> [Entities -> [by : Accounts \cup {Nil},
       identity : Identities \cup {Nil}, event : Events \cup {Nil},
       model : Models \cup {Nil}, revision : Revisions \cup {1},
       expires : Nat, absolute : Nat, withdrawn : BOOLEAN]]]
  /\ fired \in SUBSET [world : Worlds, entity : Entities, by : Accounts,
                       event : Events]
  /\ tomb \subseteq fired /\ over \subseteq fired

(* Each shot is shown once.  An entity, and an event of a publisher, name    *)
(* one shot for as long as the world lasts; a shot is in the table or behind *)
(* a tombstone, whatever renewals, withdrawals and cleanups raced; and one   *)
(* that was withdrawn, or whose player stopped sharing, is never shown       *)
(* again, even when the player shares again.                                 *)
ShotsShownOnce ==
  /\ \A f, g \in fired :
       /\ f.world = g.world
       /\ f.entity = g.entity \/ (f.by = g.by /\ f.event = g.event)
       => f = g
  /\ \A f \in fired :
       f \in tomb <=> Key(f.world, f.entity) # f
  /\ \A f \in over, a \in Accounts, t \in Times :
       ~ShotShown(a, f.world, f.entity, t)

=============================================================================
