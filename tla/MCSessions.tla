----------------------------- MODULE MCSessions -----------------------------
(* In each behaviour the clients make requests of a few kinds only.          *)
EXTENDS Sessions, TLC

CONSTANT Scenarios

VARIABLE serving

MCInit == Init /\ serving \in Scenarios
MCSpec == MCInit /\ [][Next /\ UNCHANGED serving]_<<vars, serving>>

(* What a scenario says of itself: the kinds of its requests, whether there  *)
(* are updates of accounts or of providers, one request at a time ("solo"),  *)
(* no session that ends ("kept") or expires ("lasting"), browsers that link  *)
(* only ("linking").                                                         *)
InScenario ==
  /\ \A r \in Requests : req[r].kind \in serving \cup {"none"}
  /\ \A c \in Challenges : proof[c] # NoProof => "game" \in serving
  /\ \A f \in Flows : proof[f] # NoProof => "callback" \in serving
  /\ enabled = Providers \/ "toggle" \in serving
  /\ \A a \in Accounts : updates[a] > 0 => "update" \in serving
  /\ \A a, b \in Accounts : updates[a] > 0 /\ updates[b] > 0 => a = b
  /\ "kept" \in serving =>
       \A s \in Sessions : Unused(s) \/ (session[s].live /\ session[s].fresh)
  /\ "lasting" \in serving => \A s \in Sessions : session[s].live => session[s].fresh
  /\ "linking" \in serving =>
       \A r \in Requests : req[r].kind = "browser" => req[r].purpose = "link"
  /\ "solo" \in serving => Cardinality({r \in Requests : req[r] # Idle}) <= 1

Names == Permutations(Accounts \ {Owner}) \cup Permutations(Sessions)
           \cup Permutations(Requests)
=============================================================================
