------------------------------ MODULE ChangeLog ------------------------------
(* What a client of appearances and animations may rely on, with the         *)
(* database tables, access lists, leases, the broadcast channel, sockets and *)
(* recovery pages hidden.  All changes form one log.  A change takes effect  *)
(* only on the revision its author has seen, a request id takes effect once  *)
(* and is answered with what it did then, and watchers learn of committed    *)
(* revisions only, and never forget one.                                     *)
EXTENDS Naturals, Sequences

CONSTANTS Calls, Watchers, Items, Requests, None

VARIABLES
  log,      \* the changes, oldest first
  current,  \* the revision and the value of each item
  answer,   \* the answer made to a call with a request id, or None
  known     \* the revision of each item a watcher knows

logVars == <<log, current, answer, known>>

Init ==
  /\ log = << >>
  /\ current = [i \in Items |-> [revision |-> 0, value |-> None]]
  /\ answer = [c \in Calls |-> None]
  /\ known = [w \in Watchers |-> [i \in Items |-> 0]]

ItemOf(r) == <<r.kind, r.target>>
HasId(r) == r.via = "update"
SameId(r, q) == r.account = q.account /\ r.id = q.id
Used(r) ==
  \E n \in DOMAIN log : HasId(log[n].request) /\ SameId(log[n].request, r)
Change(r) == [request |-> r, revision |-> r.expected + 1]

(* A change of the revision that its author has seen, under a new id. *)
Commit(c, r) ==
  /\ current[ItemOf(r)].revision = r.expected
  /\ log' = Append(log, Change(r))
  /\ current' = [current EXCEPT ![ItemOf(r)] =
                   [revision |-> r.expected + 1, value |-> r.value]]
  /\ IF HasId(r)
       THEN /\ ~Used(r)
            /\ answer[c] = None
            /\ answer' = [answer EXCEPT ![c] = Change(r)]
       ELSE UNCHANGED answer
  /\ UNCHANGED known

(* A request that is sent again is answered with what it did. *)
Repeat(c, r) ==
  /\ HasId(r)
  /\ answer[c] = None
  /\ \E n \in DOMAIN log :
       /\ log[n].request = r
       /\ answer' = [answer EXCEPT ![c] = log[n]]
  /\ UNCHANGED <<log, current, known>>

Learn(w) ==
  /\ known' \in [Watchers -> [Items -> Nat]]
  /\ \A i \in Items : known'[w][i] \in known[w][i]..current[i].revision
  /\ \A v \in Watchers \ {w} : known'[v] = known[v]
  /\ UNCHANGED <<log, current, answer>>

Next ==
  \/ \E c \in Calls, r \in Requests : Commit(c, r) \/ Repeat(c, r)
  \/ \E w \in Watchers : Learn(w)

Spec == Init /\ [][Next]_logVars
=============================================================================
