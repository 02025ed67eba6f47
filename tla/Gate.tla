-------------------------------- MODULE Gate --------------------------------
(* What the limiters and the drain of an update promise, with the counters,  *)
(* waiters, notifications and timeouts hidden.  A task is let in while its   *)
(* gate is open and has room, whatever the limit is set to meanwhile.  An    *)
(* update closes the gate of uploads, then that of processing once no upload *)
(* is in, and freezes the server once nothing is in.  It opens them again in *)
(* the opposite order, or never.                                              *)
EXTENDS Naturals, FiniteSets

CONSTANTS Slots, Limits, InitialLimit

Limiters == {"upload", "processing"}

VARIABLES
  limit,   \* how many each gate lets in at a time; 0 is no limit
  inside,  \* the tasks that were let in and have not left
  closed,  \* the closed gates
  frozen   \* whether a snapshot may be taken

gateVars == <<limit, inside, closed, frozen>>

Init ==
  /\ limit = [l \in Limiters |-> InitialLimit]
  /\ inside = {}
  /\ closed = {}
  /\ frozen = FALSE

Of(l) == {w \in inside : w[1] = l}

Enter(w) ==
  /\ w \notin inside
  /\ w[1] \notin closed
  /\ limit[w[1]] = 0 \/ Cardinality(Of(w[1])) < limit[w[1]]
  /\ inside' = inside \cup {w}
  /\ UNCHANGED <<limit, closed, frozen>>

Leave(w) ==
  /\ w \in inside
  /\ inside' = inside \ {w}
  /\ UNCHANGED <<limit, closed, frozen>>

SetLimit(l, n) ==
  /\ limit' = [limit EXCEPT ![l] = n]
  /\ UNCHANGED <<inside, closed, frozen>>

Close ==
  /\ closed' = IF closed = {} THEN {"upload"} ELSE Limiters
  /\ closed # {} => Of("upload") = {}
  /\ UNCHANGED <<limit, inside, frozen>>

Freeze ==
  /\ closed = Limiters /\ inside = {}
  /\ frozen' = TRUE
  /\ UNCHANGED <<limit, inside, closed>>

Open ==
  /\ closed # {}
  /\ closed' = IF closed = Limiters THEN {"upload"} ELSE {}
  /\ frozen' = FALSE
  /\ UNCHANGED <<limit, inside>>

Next ==
  \/ \E w \in Slots : Enter(w) \/ Leave(w)
  \/ \E l \in Limiters, n \in Limits : SetLimit(l, n)
  \/ Close \/ Freeze \/ Open

Spec == Init /\ [][Next]_gateVars
=============================================================================
