--------------------------- MODULE AppearanceSync ---------------------------
(* How a change of a target's appearance or animation reaches the players   *)
(* who watch it: update_appearance, update_animation and the entity world's  *)
(* put commit it to the database with an outbox row (store.rs,               *)
(* entity_world.rs); the first two then announce it on a bounded broadcast    *)
(* channel (api.rs); every WebSocket forwards what concerns the scope it      *)
(* joined (realtime.rs); GET /events/recovery pages through the outbox.       *)
EXTENDS Naturals, Sequences, FiniteSets, FiniteSetsExt

CONSTANTS
  Calls,        \* update calls; each is issued at most once
  Accounts,
  Watchers,     \* the accounts that hold a WebSocket
  Targets, Scopes, ScopeOf,
  Members,      \* the accounts with a role in a scope
  Values,       \* what an update may show: a model, an action
  Ids,          \* request ids
  Requests,     \* the requests a client may send
  Grants,       \* the access updates managers may send
  InitialRole,  \* the role of an account on a target at the start
  Capacity,     \* size of the broadcast channel (512 in the code)
  PageLimit,    \* rows of a recovery page (at most 256 in the code)
  None,
  MaxCrashes, MaxAdmin

Kinds == {"appearance", "animation"}
Items == Kinds \X Targets
Roles == {"none", "viewer", "edit", "manage"}

(* via: the endpoint, PUT of a target's state or of an entity world's.  Only *)
(* the former carries a request id.                                          *)
Request == [via : {"update", "entity"}, account : Accounts, id : Ids,
            kind : Kinds, target : Targets, expected : Nat, value : Values]
ItemOf(r) == <<r.kind, r.target>>
Event == [request : Request, revision : Nat \ {0}]

ASSUME RequestsAssumption ==
  /\ Requests \subseteq Request
  /\ \A r \in Requests : r.via = "entity" => r.kind = "appearance"
ASSUME RolesAssumption ==
  /\ Watchers \subseteq Accounts
  /\ InitialRole \in [Targets -> [Accounts -> Roles]]
ASSUME GrantsAssumption ==
  Grants \subseteq [target : Targets, account : Accounts,
                    role : Roles \ {"none"}]
ASSUME ScopesAssumption ==
  /\ ScopeOf \in [Targets -> Scopes] /\ None \notin Scopes
  /\ Members \in [Scopes -> SUBSET Accounts]
ASSUME SizesAssumption ==
  /\ Capacity \in Nat \ {0} /\ PageLimit \in Nat \ {0}
  /\ MaxCrashes \in Nat /\ MaxAdmin \in Nat
ASSUME NoneAssumption ==
  None \notin Accounts /\ None \notin Event /\ None \notin Values

VARIABLES
  \* database
  state,     \* appearances and animation_states, by item
  outbox,    \* outbox_events in sequence order
  answered,  \* idempotency: the event answered to <<account, id>>, or None
  role,      \* target_acl
  usable,    \* values whose model is available and permitted
  holder,    \* animation_states.owner_account_id
  leased,    \* targets whose animation lease has not expired
  \* server process
  pc,        \* per call: idle, committed (not announced yet), done
  reply,     \* what a committed call is about to announce
  sent,      \* what went into the broadcast channel, oldest first
  \* WebSockets
  open,      \* watchers with an open socket
  pos,       \* how far a socket's receiver has read
  joined,    \* scope the socket joined, or None
  \* the clients (external)
  view,      \* revision of each item the client knows
  cursor,    \* its place in the outbox of each scope
  behind,    \* watchers that have to recover
  crashes, admins

dbVars == <<state, outbox, answered, holder, leased>>
aclVars == <<role, usable>>
socketVars == <<open, pos, joined>>
clientVars == <<view, cursor, behind>>
boundVars == <<crashes, admins>>
vars == <<state, outbox, answered, holder, leased, role, usable, pc, reply,
          sent, open, pos, joined, view, cursor, behind, crashes, admins>>

Init ==
  /\ state = [i \in Items |-> [revision |-> 0, value |-> None]]
  /\ outbox = << >>
  /\ answered = [k \in Accounts \X Ids |-> None]
  /\ holder = [t \in Targets |-> None]
  /\ leased = {}
  /\ role = InitialRole
  /\ usable = Values
  /\ pc = [c \in Calls |-> "idle"]
  /\ reply = [c \in Calls |-> None]
  /\ sent = << >>
  /\ open = {}
  /\ pos = [w \in Watchers |-> 0]
  /\ joined = [w \in Watchers |-> None]
  /\ view = [w \in Watchers |-> [i \in Items |-> 0]]
  /\ cursor = [w \in Watchers |-> [s \in Scopes |-> 0]]
  /\ behind = {}
  /\ crashes = 0
  /\ admins = 0

----------------------------------------------------------------------------
(* The update calls.  The store operation is one transaction under the       *)
(* database mutex; the announcement follows after its release.               *)

KeyOf(r) == <<r.account, r.id>>
(* Mutant: answers are looked up among those of the same kind only. *)
AnswerOfKind(r) ==
  LET a == answered[KeyOf(r)]
  IN IF a # None /\ a.request.kind = r.kind THEN a ELSE None
Answer(r) == answered[KeyOf(r)]
MayEdit(r) == role[r.target][r.account] \in {"manage", "edit"}
HeldByOther(r) ==
  r.kind = "animation" /\ r.target \in leased /\ holder[r.target] # r.account
(* Mutant: the entity world writes over whatever is there. *)
CurrentOfUpdate(r) ==
  r.via = "update" => state[ItemOf(r)].revision = r.expected
Current(r) == state[ItemOf(r)].revision = r.expected
Accepted(r) ==
  /\ MayEdit(r)
  /\ r.kind = "appearance" => r.value \in usable
  /\ ~HeldByOther(r)
  /\ Current(r)

EventOf(r) ==
  [request |-> r, revision |-> state[ItemOf(r)].revision + 1]

(* Mutant: the entity world writes the state and no outbox row. *)
WriteUnlogged(r) ==
  /\ state' = [state EXCEPT ![ItemOf(r)] =
                 [revision |-> EventOf(r).revision, value |-> r.value]]
  /\ outbox' = IF r.via = "update" THEN Append(outbox, EventOf(r)) ELSE outbox
  /\ UNCHANGED <<holder, leased>>

(* The new state and its outbox row; an animation takes the lease. *)
Write(r) ==
  /\ state' = [state EXCEPT ![ItemOf(r)] =
                 [revision |-> EventOf(r).revision, value |-> r.value]]
  /\ outbox' = Append(outbox, EventOf(r))
  /\ holder' = [holder EXCEPT ![r.target] =
                  IF r.kind = "animation" THEN r.account ELSE @]
  /\ leased' = IF r.kind = "animation" THEN leased \cup {r.target} ELSE leased

Update(c, r) ==
  /\ pc[c] = "idle"
  /\ r.via = "update"
  /\ Answer(r) = None
  /\ Accepted(r)
  /\ Write(r)
  /\ answered' = [answered EXCEPT ![KeyOf(r)] = EventOf(r)]
  /\ pc' = [pc EXCEPT ![c] = "committed"]
  /\ reply' = [reply EXCEPT ![c] = EventOf(r)]
  /\ UNCHANGED <<aclVars, sent, socketVars, clientVars, boundVars>>

(* A request that was answered gets the same answer, which is announced anew.*)
Replay(c, r) ==
  /\ pc[c] = "idle"
  /\ r.via = "update"
  /\ Answer(r) # None
  /\ Answer(r).request = r
  /\ pc' = [pc EXCEPT ![c] = "committed"]
  /\ reply' = [reply EXCEPT ![c] = Answer(r)]
  /\ UNCHANGED <<dbVars, aclVars, sent, socketVars, clientVars, boundVars>>

(* The entity world has no request ids and announces nothing. *)
PutEntity(c, r) ==
  /\ pc[c] = "idle"
  /\ r.via = "entity"
  /\ Accepted(r)
  /\ Write(r)
  /\ pc' = [pc EXCEPT ![c] = "done"]
  /\ UNCHANGED <<answered, aclVars, reply, sent, socketVars, clientVars,
                 boundVars>>

(* IDEMPOTENCY_CONFLICT, ACCESS_DENIED or REVISION_CONFLICT. *)
Refuse(c, r) ==
  /\ pc[c] = "idle"
  /\ IF r.via = "update" /\ Answer(r) # None
       THEN Answer(r).request # r
       ELSE ~Accepted(r)
  /\ pc' = [pc EXCEPT ![c] = "done"]
  /\ UNCHANGED <<dbVars, aclVars, reply, sent, socketVars, clientVars,
                 boundVars>>

Announce(c) ==
  /\ pc[c] = "committed"
  /\ sent' = Append(sent, reply[c])
  /\ pc' = [pc EXCEPT ![c] = "done"]
  /\ UNCHANGED <<dbVars, aclVars, reply, socketVars, clientVars, boundVars>>

LeaseExpires(t) ==
  /\ t \in leased
  /\ leased' = leased \ {t}
  /\ UNCHANGED <<state, outbox, answered, holder, aclVars, pc, reply, sent,
                 socketVars, clientVars, boundVars>>

----------------------------------------------------------------------------
(* The socket of a watcher: serve, one turn of its select loop per action.   *)

Connect(w) ==
  /\ w \notin open
  /\ open' = open \cup {w}
  /\ pos' = [pos EXCEPT ![w] = Len(sent)]
  /\ joined' = [joined EXCEPT ![w] = None]
  /\ UNCHANGED <<dbVars, aclVars, pc, reply, sent, clientVars, boundVars>>

(* A disconnect, a missed heartbeat, a session that ended, a scope that may   *)
(* not be joined.                                                              *)
Close(w) ==
  /\ w \in open
  /\ open' = open \ {w}
  /\ joined' = [joined EXCEPT ![w] = None]
  /\ UNCHANGED <<dbVars, aclVars, pc, reply, sent, pos, clientVars, boundVars>>

(* The client recovers after each snapshot. *)
JoinScope(w, s) ==
  /\ w \in open
  /\ w \in Members[s]
  /\ joined' = [joined EXCEPT ![w] = s]
  /\ behind' = behind \cup {w}
  /\ UNCHANGED <<dbVars, aclVars, pc, reply, sent, open, pos, view, cursor,
                 boundVars>>

(* Clears the joined scope only when it is the one named. *)
LeaveScope(w, s) ==
  /\ w \in open
  /\ joined[w] = s
  /\ joined' = [joined EXCEPT ![w] = None]
  /\ UNCHANGED <<dbVars, aclVars, pc, reply, sent, open, pos, clientVars,
                 boundVars>>

Unread(w) == Len(sent) - pos[w]
Concerns(w, e) == joined[w] = ScopeOf[e.request.target]
MaySee(w, e) == role[e.request.target][w] # "none"
Later(n, m) == IF n > m THEN n ELSE m
(* What the message tells: an item and its revision. *)
Shown(w, e) == [view EXCEPT ![w][ItemOf(e.request)] = Later(@, e.revision)]

(* The next announcement is forwarded if it concerns the joined scope and    *)
(* get_appearance or get_animation lets the account read the target.         *)
Forward(w) ==
  /\ w \in open
  /\ Unread(w) \in 1..Capacity
  /\ pos' = [pos EXCEPT ![w] = @ + 1]
  /\ LET e == sent[pos[w] + 1]
     IN view' = IF Concerns(w, e) /\ MaySee(w, e) THEN Shown(w, e) ELSE view
  /\ UNCHANGED <<dbVars, aclVars, pc, reply, sent, open, joined, cursor,
                 behind, boundVars>>

(* Mutant: the receiver skips and says nothing. *)
LagSilently(w) ==
  /\ w \in open
  /\ Unread(w) > Capacity
  /\ pos' = [pos EXCEPT ![w] = Len(sent) - Capacity]
  /\ UNCHANGED <<dbVars, aclVars, pc, reply, sent, open, joined, clientVars,
                 boundVars>>

(* A receiver that fell behind skips what the channel no longer holds and    *)
(* tells its client RECOVERY_REQUIRED.                                        *)
Lag(w) ==
  /\ w \in open
  /\ Unread(w) > Capacity
  /\ pos' = [pos EXCEPT ![w] = Len(sent) - Capacity]
  /\ behind' = behind \cup {w}
  /\ UNCHANGED <<dbVars, aclVars, pc, reply, sent, open, joined, view, cursor,
                 boundVars>>

----------------------------------------------------------------------------
(* GET /v1/scopes/{scope_id}/events/recovery: the next rows after a cursor.  *)
(* Whoever joined the scope may ask: both take a role in the scope.           *)

Rows(s, after) ==
  {n \in DOMAIN outbox :
     n > after /\ ScopeOf[outbox[n].request.target] = s}
Page(s, after) ==
  {n \in Rows(s, after) :
     Cardinality({m \in Rows(s, after) : m < n}) < PageLimit}
ToCursor(s, after) ==
  IF Page(s, after) = {} THEN after ELSE Max(Page(s, after))
(* Mutant: a page that is exactly full counts as the last one. *)
HasMoreBeyond(s, after) == Cardinality(Page(s, after)) > PageLimit
HasMore(s, after) == Cardinality(Page(s, after)) = PageLimit

(* The client takes one page and asks for the next while has_more is set. *)
Recover(w) ==
  /\ w \in open /\ w \in behind
  /\ joined[w] # None
  /\ LET s == joined[w]
         after == cursor[w][s]
         seen(i) == {outbox[n].revision : n \in
                       {m \in Page(s, after) : ItemOf(outbox[m].request) = i}}
     IN /\ view' = [view EXCEPT ![w] =
                      [i \in Items |-> Max(seen(i) \cup {view[w][i]})]]
        /\ cursor' = [cursor EXCEPT ![w][s] = ToCursor(s, after)]
        /\ behind' = IF HasMore(s, after) THEN behind ELSE behind \ {w}
  /\ UNCHANGED <<dbVars, aclVars, pc, reply, sent, socketVars, boundVars>>

----------------------------------------------------------------------------
(* The server restarts: calls, channel and sockets are gone. *)
Crash ==
  /\ crashes < MaxCrashes
  /\ crashes' = crashes + 1
  /\ pc' = [c \in Calls |-> IF pc[c] = "idle" THEN "idle" ELSE "done"]
  /\ sent' = << >>
  /\ open' = {}
  /\ pos' = [w \in Watchers |-> 0]
  /\ joined' = [w \in Watchers |-> None]
  /\ UNCHANGED <<dbVars, aclVars, reply, clientVars, admins>>

(* set_acl by a manager of the target; roles are changed, never withdrawn. *)
SetAcl(g) ==
  /\ admins < MaxAdmin
  /\ admins' = admins + 1
  /\ \E by \in Accounts : role[g.target][by] = "manage"
  /\ role' = [role EXCEPT ![g.target][g.account] = g.role]
  /\ UNCHANGED <<dbVars, usable, pc, reply, sent, socketVars, clientVars,
                 crashes>>

(* A model is taken down, or put back. *)
Moderate(v) ==
  /\ admins < MaxAdmin
  /\ admins' = admins + 1
  /\ usable' = IF v \in usable THEN usable \ {v} ELSE usable \cup {v}
  /\ UNCHANGED <<dbVars, role, pc, reply, sent, socketVars, clientVars,
                 crashes>>

----------------------------------------------------------------------------
Call(c) ==
  \/ \E r \in Requests :
       Update(c, r) \/ Replay(c, r) \/ PutEntity(c, r) \/ Refuse(c, r)
  \/ Announce(c)

Socket(w) ==
  \/ Connect(w) \/ Close(w)
  \/ \E s \in Scopes : JoinScope(w, s) \/ LeaveScope(w, s)
  \/ Forward(w) \/ Lag(w)

Manage ==
  \/ \E g \in Grants : SetAcl(g)
  \/ \E v \in Values : Moderate(v)

Next ==
  \/ \E c \in Calls : Call(c)
  \/ \E w \in Watchers : Socket(w) \/ Recover(w)
  \/ \E t \in Targets : LeaseExpires(t)
  \/ Crash \/ Manage

Spec == Init /\ [][Next]_vars

(* A committed call announces without waiting for anything, a socket's loop  *)
(* is polled, and a client that is told to recover does.                      *)
Fairness ==
  /\ \A c \in Calls : WF_vars(Announce(c))
  /\ \A w \in Watchers :
       WF_vars(Forward(w)) /\ WF_vars(Lag(w)) /\ WF_vars(Recover(w))
FairSpec == Spec /\ Fairness

----------------------------------------------------------------------------
(* Every table, channel and client is of its kind. *)
TypeOK ==
  /\ state \in [Items -> [revision : Nat, value : Values \cup {None}]]
  /\ outbox \in Seq(Event)
  /\ answered \in [Accounts \X Ids -> Event \cup {None}]
  /\ holder \in [Targets -> Accounts \cup {None}]
  /\ leased \subseteq Targets
  /\ role \in [Targets -> [Accounts -> Roles]]
  /\ usable \subseteq Values
  /\ pc \in [Calls -> {"idle", "committed", "done"}]
  /\ reply \in [Calls -> Event \cup {None}]
  /\ sent \in Seq(Event)
  /\ open \subseteq Watchers
  /\ pos \in [Watchers -> Nat]
  /\ joined \in [Watchers -> Scopes \cup {None}]
  /\ view \in [Watchers -> [Items -> Nat]]
  /\ cursor \in [Watchers -> [Scopes -> Nat]]
  /\ behind \subseteq Watchers
  /\ crashes \in 0..MaxCrashes
  /\ admins \in 0..MaxAdmin

(* The outbox is the history of every item whatever endpoint wrote it: its   *)
(* rows carry the revisions 1, 2, 3, ... in sequence order, and the last one *)
(* carries the state in force.                                                *)
RowsOf(i) == {n \in DOMAIN outbox : ItemOf(outbox[n].request) = i}
OutboxIsHistory ==
  \A i \in Items :
    /\ Cardinality(RowsOf(i)) = state[i].revision
    /\ \A n \in RowsOf(i) :
         outbox[n].revision = Cardinality({m \in RowsOf(i) : m <= n})
    /\ \A n \in RowsOf(i) : outbox[n].revision = state[i].revision =>
         outbox[n].request.value = state[i].value

(* A request id takes effect at most once, whether it is used for an         *)
(* appearance or for an animation, retried or reused.                         *)
OneEffectPerRequest ==
  \A n \in DOMAIN outbox : outbox[n].request.via = "update" =>
    /\ answered[KeyOf(outbox[n].request)] = outbox[n]
    /\ \A m \in DOMAIN outbox :
         outbox[m] = outbox[n] => m = n

(* A client never learns of a change that was not committed. *)
NoPhantoms ==
  \A w \in Watchers, i \in Items : view[w][i] <= state[i].revision

(* The change of row n is known to watcher w; a call is about to announce    *)
(* it; or the channel holds it for w, or held it and w is yet to be told that *)
(* it fell behind.                                                            *)
Known(w, n) == outbox[n].revision <= view[w][ItemOf(outbox[n].request)]
AboutToBeAnnounced(n) ==
  \E c \in Calls : pc[c] = "committed" /\ reply[c] = outbox[n]
Unheard(w, n) ==
  \E m \in DOMAIN sent : m > pos[w] /\ sent[m] = outbox[n]

(* A watcher that may read the target, has joined its scope and was not told *)
(* to recover will hear of every change made through the update endpoints:    *)
(* none falls between the join, the recovery pages and the live stream.       *)
Expects(w, n) ==
  /\ outbox[n].request.via = "update"
  /\ Concerns(w, outbox[n])
  /\ InitialRole[outbox[n].request.target][w] # "none"
NothingUnheard ==
  \A w \in Watchers \ behind, n \in DOMAIN outbox :
    Expects(w, n) => Known(w, n) \/ AboutToBeAnnounced(n) \/ Unheard(w, n)

(* A client's cursor passes no row that it does not know.  So the next        *)
(* recovery also brings what the entity world wrote and nobody announced.     *)
InScope(s, n) == ScopeOf[outbox[n].request.target] = s
CursorKnown ==
  \A w \in Watchers, s \in Scopes, n \in DOMAIN outbox :
    n <= cursor[w][s] /\ InScope(s, n) => Known(w, n)

(* No change is lost to a client without its being told: it is on its way,    *)
(* or a recovery brings it, whichever endpoint made it.                       *)
NoSilentLoss == NothingUnheard /\ CursorKnown

(* Such a watcher gets to know every such change, unless it leaves. *)
ChangesArrive ==
  \A w \in Watchers, n \in 1..Cardinality(Calls) :
    (n \in DOMAIN outbox /\ Expects(w, n))
      ~> (n \in DOMAIN outbox /\ (Known(w, n) \/ ~Expects(w, n)))

(* The tables, the channel and the sockets implement the log: the outbox is  *)
(* its record, and what a client knows is what it was shown.                  *)
Changes == INSTANCE ChangeLog WITH
  log <- outbox, current <- state, answer <- reply, known <- view
ImplementsLog == Changes!Spec
=============================================================================
